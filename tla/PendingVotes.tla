----------------------------- MODULE PendingVotes -----------------------------
(***************************************************************************)
(* The votes and timeouts that one validator collects in one round         *)
(* (consensus/src/pending_votes.rs), with optimistic signature             *)
(* verification: the signature on a vote is checked only when a quorum of  *)
(* them is aggregated, the one on a timeout before it gets here.           *)
(*                                                                         *)
(* Messages come from a network that loses, duplicates and reorders.       *)
(* Honest validators vote for one ledger info in the round, but may sign a *)
(* timeout of it twice with different QCs: SafetyRules allows that, and a  *)
(* restarted validator does not remember the timeout it sent.  Byzantine   *)
(* validators send any votes, with signatures that need not be valid.      *)
(***************************************************************************)
EXTENDS SignatureAggregator

CONSTANTS Digests,    \* digests of the ledger infos voted for in the round
          HqcRounds   \* rounds of the QCs that timeouts carry

\* What author_to_vote keeps of a vote, and the timeouts aggregated so far:
\* the highest QC round and, per author, the one it signed.
StoredVote == [digest : Digests, is_timeout : BOOLEAN]
PartialTC == [hqc_round : HqcRounds, signatures : [Validators -> HqcRounds \cup {None}]]

\* Option::None is no value of the type.
ASSUME PendingVotesAssumption ==
    /\ HqcRounds \subseteq Nat
    /\ None \notin Digests
    /\ None \notin HqcRounds
    /\ None \notin StoredVote
    /\ None \notin PartialTC

VARIABLES
    li_digest_to_votes,  \* per digest, the signature of each author
    enough_votes,        \* per digest, the signers of the QC formed, or None
    author_to_vote,      \* per author, [digest, is_timeout] or None
    partial_2chain_tc,   \* [hqc_round, signatures], or None
    echo_timeout,
    timeout_certificate, \* the TC returned, or None
    honest_vote,         \* what each honest validator votes for
    heard_timeouts       \* the honest validators whose timeout has arrived

votes_state == <<li_digest_to_votes, enough_votes, author_to_vote, partial_2chain_tc,
                 echo_timeout, timeout_certificate, honest_vote, heard_timeouts>>
vars == <<votes_state, pessimistic_verify_set>>

\* PendingVotes::new().  Other collectors of the epoch may have caught authors.
Init ==
    /\ li_digest_to_votes = [d \in Digests |-> [v \in Validators |-> "none"]]
    /\ enough_votes = [d \in Digests |-> None]
    /\ author_to_vote = [v \in Validators |-> None]
    /\ partial_2chain_tc = None
    /\ echo_timeout = FALSE
    /\ pessimistic_verify_set \in SUBSET Byzantine
    /\ timeout_certificate = None
    /\ honest_vote \in [Honest -> Digests]
    /\ heard_timeouts = {}

-----------------------------------------------------------------------------
(* TwoChainTimeoutWithPartialSignatures.                                   *)

tc_signers(tc) == {v \in Validators : tc.signatures[v] # None}

\* add: the highest QC replaces the one carried, but the first round signed
\* by an author is kept (entry(..).or_insert).
add_timeout(maybe_tc, author, hqc_round) ==
    LET tc == IF maybe_tc # None
              THEN maybe_tc
              ELSE [hqc_round |-> hqc_round, signatures |-> [v \in Validators |-> None]]
    IN  [hqc_round |-> IF hqc_round > tc.hqc_round THEN hqc_round ELSE tc.hqc_round,
         signatures |-> [tc.signatures EXCEPT
                            ![author] = IF @ = None THEN hqc_round ELSE @]]

\* Mutant: f + 1 without the + 1.
reaches_echo_f(authors) ==
    sum_voting_power[authors] >= total_voting_power - quorum_voting_power

\* More power timed out than the faulty validators can have.
reaches_echo(authors) ==
    sum_voting_power[authors] >= total_voting_power - quorum_voting_power + 1

\* Mutant: the echo is missed when one author's power jumps over f + 1.
AddTimeoutEchoExact(author, hqc_round) ==
    LET tc == add_timeout(partial_2chain_tc, author, hqc_round)
        quorum == check_voting_power(tc_signers(tc), TRUE)
    IN  /\ partial_2chain_tc' = tc
        /\ timeout_certificate' = IF quorum THEN tc ELSE timeout_certificate
        /\ echo_timeout' = (echo_timeout
              \/ sum_voting_power[tc_signers(tc)]
                    = total_voting_power - quorum_voting_power + 1)
        /\ heard_timeouts' = heard_timeouts \cup ({author} \cap Honest)

\* The part that insert_round_timeout and insert_vote share: a TC if there
\* is a quorum; else, once, an echo.
AddTimeout(author, hqc_round) ==
    LET tc == add_timeout(partial_2chain_tc, author, hqc_round)
        quorum == check_voting_power(tc_signers(tc), TRUE)
    IN  /\ partial_2chain_tc' = tc
        /\ timeout_certificate' = IF quorum THEN tc ELSE timeout_certificate
        /\ echo_timeout' = (echo_timeout \/ (~quorum /\ reaches_echo(tc_signers(tc))))
        /\ heard_timeouts' = heard_timeouts \cup ({author} \cap Honest)

\* The timeout on a vote, if any, is not looked at.
IgnoreTimeout(author, timeout) ==
    /\ heard_timeouts' = IF timeout = None
                         THEN heard_timeouts
                         ELSE heard_timeouts \cup ({author} \cap Honest)
    /\ UNCHANGED <<partial_2chain_tc, timeout_certificate, echo_timeout>>

-----------------------------------------------------------------------------
(* Operations.                                                             *)

InsertRoundTimeout(author, hqc_round) ==
    /\ AddTimeout(author, hqc_round)
    /\ UNCHANGED <<li_digest_to_votes, enough_votes, author_to_vote,
                   pessimistic_verify_set, honest_vote>>

\* The votes that Vote::verify lets through to insert_vote.
VerifiedVote(author, digest, valid) ==
    /\ author \in Honest => digest = honest_vote[author] /\ valid
    /\ PassesOptimisticVerify(author, valid)

\* Mutant: any second message of an author is a duplicate.
is_new_vote_first_only(author, digest, timeout) == author_to_vote[author] = None

\* Mutant: an author may vote again for another ledger info.
is_new_vote_equivocating(author, digest, timeout) ==
    LET previous == author_to_vote[author]
    IN  previous # None =>
            previous.digest # digest \/ (timeout # None /\ ~previous.is_timeout)

\* The author's first vote, or the first with a timeout on the same ledger info.
is_new_vote(author, digest, timeout) ==
    LET previous == author_to_vote[author]
    IN  previous # None =>
            previous.digest = digest /\ timeout # None /\ ~previous.is_timeout

StoreVote(author, digest, timeout) ==
    author_to_vote' = [author_to_vote EXCEPT ![author] =
                          [digest |-> digest, is_timeout |-> timeout # None]]

\* DuplicateVote or EquivocateVote: nothing changes.
RefuseVote(author, digest, valid, timeout) ==
    /\ VerifiedVote(author, digest, valid)
    /\ ~is_new_vote(author, digest, timeout)
    /\ IgnoreTimeout(author, timeout)
    /\ UNCHANGED <<li_digest_to_votes, enough_votes, author_to_vote,
                   pessimistic_verify_set, honest_vote>>

\* There is a QC already: it is returned again, a timeout is not looked at.
InsertVoteCertified(author, digest, valid, timeout) ==
    /\ VerifiedVote(author, digest, valid)
    /\ is_new_vote(author, digest, timeout)
    /\ enough_votes[digest] # None
    /\ StoreVote(author, digest, timeout)
    /\ IgnoreTimeout(author, timeout)
    /\ UNCHANGED <<li_digest_to_votes, enough_votes, pessimistic_verify_set,
                   honest_vote>>

\* The signatures with this vote's are not a quorum.
InsertVotePending(author, digest, valid, timeout) ==
    LET signatures == [li_digest_to_votes[digest] EXCEPT
                          ![author] = IF valid THEN "valid" ELSE "invalid"]
    IN  /\ VerifiedVote(author, digest, valid)
        /\ is_new_vote(author, digest, timeout)
        /\ enough_votes[digest] = None
        /\ ~check_voting_power(voters(signatures), TRUE)
        /\ StoreVote(author, digest, timeout)
        /\ li_digest_to_votes' = [li_digest_to_votes EXCEPT ![digest] = signatures]
        /\ IF timeout = None
           THEN IgnoreTimeout(author, timeout)
           ELSE AddTimeout(author, timeout)
        /\ UNCHANGED <<enough_votes, pessimistic_verify_set, honest_vote>>

\* They are: aggregate them.  If that gives no QC, the vote's timeout counts.
InsertVoteQuorum(author, digest, valid, timeout) ==
    LET signatures == [li_digest_to_votes[digest] EXCEPT
                          ![author] = IF valid THEN "valid" ELSE "invalid"]
    IN  /\ VerifiedVote(author, digest, valid)
        /\ is_new_vote(author, digest, timeout)
        /\ enough_votes[digest] = None
        /\ check_voting_power(voters(signatures), TRUE)
        /\ StoreVote(author, digest, timeout)
        /\ \E verifies \in MayVerify(signatures) :
              LET aggregated == aggregate_and_verify(signatures, verifies)
              IN  /\ enough_votes' = [enough_votes EXCEPT ![digest] = aggregated.signers]
                  /\ li_digest_to_votes' = [li_digest_to_votes EXCEPT
                                               ![digest] = aggregated.signatures]
                  /\ pessimistic_verify_set' =
                        pessimistic_verify_set \cup aggregated.invalid
                  /\ IF timeout = None \/ aggregated.signers # None
                     THEN IgnoreTimeout(author, timeout)
                     ELSE AddTimeout(author, timeout)
        /\ UNCHANGED honest_vote

\* A TC ends the round: RoundState replaces the collector before the next
\* message.  (A QC need not: its block may have to be fetched first.)
RoundIsOpen == timeout_certificate = None

Next ==
    /\ RoundIsOpen
    /\ \/ \E author \in Validators, hqc_round \in HqcRounds :
             InsertRoundTimeout(author, hqc_round)
       \/ \E author \in Validators, digest \in Digests, valid \in BOOLEAN,
             timeout \in HqcRounds \cup {None} :
             \/ RefuseVote(author, digest, valid, timeout)
             \/ InsertVoteCertified(author, digest, valid, timeout)
             \/ InsertVotePending(author, digest, valid, timeout)
             \/ InsertVoteQuorum(author, digest, valid, timeout)

Spec == Init /\ [][Next]_vars

-----------------------------------------------------------------------------
(* Properties.                                                             *)

TypeOK ==
    /\ li_digest_to_votes \in [Digests -> Signatures]
    /\ enough_votes \in [Digests -> (SUBSET Validators) \cup {None}]
    /\ author_to_vote \in [Validators -> StoredVote \cup {None}]
    /\ partial_2chain_tc \in PartialTC \cup {None}
    /\ echo_timeout \in BOOLEAN
    /\ pessimistic_verify_set \subseteq Byzantine
    /\ timeout_certificate \in PartialTC \cup {None}
    /\ honest_vote \in [Honest -> Digests]
    /\ heard_timeouts \subseteq Honest

\* Every certificate that is handed on verifies: a quorum signed it, and the
\* signatures that are not valid by themselves are a colluding group's.
QuorumCertsVerify ==
    \A d \in Digests : enough_votes[d] # None =>
        /\ check_voting_power(enough_votes[d], TRUE)
        /\ \A v \in enough_votes[d] \cap Honest : honest_vote[v] = d
        /\ Cardinality(enough_votes[d] \ valid_voters(li_digest_to_votes[d])) # 1

\* The honest validators whose vote for d has been accepted.
HonestVoters(d) ==
    {v \in Honest : author_to_vote[v] # None /\ author_to_vote[v].digest = d}

\* Invalid signatures cannot keep a block from being certified: once the
\* votes of an honest quorum are in, there is a QC ("a single bad signature
\* can't poison the accumulator").
HonestQuorumCertifies ==
    \A d \in Digests :
        check_voting_power(HonestVoters(d), TRUE) => enough_votes[d] # None

\* Nobody's power counts for two ledger infos: signatures of one author are
\* collected for one digest only, whatever order equivocating votes come in.
EachAuthorCountsOnce ==
    \A d1, d2 \in Digests : d1 # d2 =>
        voters(li_digest_to_votes[d1]) \cap voters(li_digest_to_votes[d2]) = {}

\* A timeout is only echoed when an honest validator has timed out.
EchoHasHonestTimeout == echo_timeout => heard_timeouts # {}

\* The echo is not missed: too many timeouts for the faulty validators alone,
\* and not enough for a TC, have been echoed, by whichever message they came.
EchoNotMissed ==
    (/\ partial_2chain_tc # None
     /\ reaches_echo(tc_signers(partial_2chain_tc))
     /\ ~check_voting_power(tc_signers(partial_2chain_tc), TRUE)) => echo_timeout

\* No timeout of an honest validator is lost, although it may have voted
\* before, sent the timeout with its vote or by itself, or sent it twice:
\* only a QC makes it superfluous.
TimeoutsAreCounted ==
    \/ heard_timeouts = {}
    \/ \E d \in Digests : enough_votes[d] # None
    \/ /\ partial_2chain_tc # None
       /\ heard_timeouts \subseteq tc_signers(partial_2chain_tc)

\* A signature is only kept for the digest its author is recorded with, and an
\* honest author's is valid and for what it votes for.
SignaturesAreRecorded ==
    /\ \A d \in Digests : \A v \in voters(li_digest_to_votes[d]) :
          /\ author_to_vote[v] # None
          /\ author_to_vote[v].digest = d
          /\ v \in Honest => li_digest_to_votes[d][v] = "valid"
    /\ \A v \in Honest : author_to_vote[v] # None =>
          author_to_vote[v].digest = honest_vote[v]

\* As long as there is no QC for a digest, every accepted honest vote for it is
\* still collected, and the valid ones are no quorum.
VotesStillCollected ==
    \A d \in Digests : enough_votes[d] = None =>
        /\ HonestVoters(d) \subseteq valid_voters(li_digest_to_votes[d])
        /\ ~check_voting_power(valid_voters(li_digest_to_votes[d]), TRUE)

\* Honest timeouts are in the aggregate only if they arrived, and one that came
\* with an accepted vote did arrive.
TimeoutsAreHeard ==
    /\ partial_2chain_tc # None =>
          tc_signers(partial_2chain_tc) \cap Honest \subseteq heard_timeouts
    /\ \A v \in Honest :
          author_to_vote[v] # None /\ author_to_vote[v].is_timeout => v \in heard_timeouts

\* The invariant module PendingVotesProofs shows to be inductive.
IInv ==
    /\ TypeOK
    /\ SignaturesAreRecorded
    /\ QuorumCertsVerify
    /\ VotesStillCollected
    /\ TimeoutsAreHeard
    /\ EchoHasHonestTimeout
    /\ EchoNotMissed
    /\ TimeoutsAreCounted

\* TwoChainTimeoutCertificate::verify, "3. timeout.hqc_round == max(signed
\* round)", holds of every TC that is handed on.
TimeoutCertsVerify ==
    timeout_certificate # None =>
        \E v \in tc_signers(timeout_certificate) :
            /\ timeout_certificate.signatures[v] = timeout_certificate.hqc_round
            /\ \A w \in tc_signers(timeout_certificate) :
                  timeout_certificate.signatures[w] <= timeout_certificate.hqc_round

=============================================================================
