-------------------------- MODULE PendingVotesProofs --------------------------
(***************************************************************************)
(* The collectors of votes, timeouts and order votes, for every validator  *)
(* set within the fault bound, every set of ledger infos and every order   *)
(* of messages.                                                            *)
(*                                                                         *)
(* First what aggregating a quorum of unverified signatures yields, the    *)
(* facts the two collectors share; then that IInv of PendingVotes is       *)
(* inductive, and last that of PendingOrderVotes. The parts of the former  *)
(* about votes (VoteInv) and about timeouts (TimeoutInv) are shown         *)
(* separately: an operation treats its timeout in one of two ways,         *)
(* AddTimeout or IgnoreTimeout, whatever it does with the vote.            *)
(***************************************************************************)
EXTENDS PendingVotes, PendingOrderVotes, ValidatorVerifierProofs, FiniteSetTheorems

-----------------------------------------------------------------------------
(* Voting power.                                                           *)

\* A superset of a quorum is a quorum.
LEMMA CheckMonotone ==
    ASSUME NEW S \in SUBSET Validators, NEW T \in SUBSET Validators, S \subseteq T,
           check_voting_power(S, TRUE)
    PROVE  check_voting_power(T, TRUE)
<1>1. /\ sum_voting_power[S] \in Nat /\ sum_voting_power[T] \in Nat
      /\ sum_voting_power[S] <= sum_voting_power[T]
  BY VotingPowerAssumption
<1>2. quorum_voting_power \in Nat
  BY QuorumMoreThanTwoThirds, AggregatorAssumption
<1>3. QED
  BY <1>1, <1>2 DEF check_voting_power

\* Nobody is no quorum.
LEMMA EmptyIsNoQuorum == ~ check_voting_power({}, TRUE)
<1>1. sum_voting_power[{}] = 0
  BY VotingPowerAssumption
<1>2. quorum_voting_power \in Nat /\ quorum_voting_power > 0
  BY QuorumMoreThanTwoThirds, AggregatorAssumption
<1>3. QED
  BY <1>1, <1>2 DEF check_voting_power

-----------------------------------------------------------------------------
(* Sets of signatures.                                                     *)

LEMMA SignatureSets ==
    ASSUME NEW signatures \in Signatures
    PROVE  /\ voters(signatures) \in SUBSET Validators
           /\ valid_voters(signatures) \in SUBSET Validators
           /\ valid_voters(signatures) \subseteq voters(signatures)
           /\ invalid_voters(signatures) \subseteq voters(signatures)
           /\ voters(signatures) \ valid_voters(signatures) = invalid_voters(signatures)
BY DEF Signatures, voters, valid_voters, invalid_voters

\* filter_invalid_signatures keeps the valid signatures and no others.
LEMMA OnlyValidFacts ==
    ASSUME NEW signatures \in Signatures
    PROVE  /\ only_valid(signatures) \in Signatures
           /\ voters(only_valid(signatures)) = valid_voters(signatures)
           /\ valid_voters(only_valid(signatures)) = valid_voters(signatures)
           /\ invalid_voters(only_valid(signatures)) = {}
BY DEF Signatures, only_valid, voters, valid_voters, invalid_voters

\* Adding the signature of one author.
AddSignature(signatures, author, valid) ==
    [signatures EXCEPT ![author] = IF valid THEN "valid" ELSE "invalid"]

LEMMA AddSignatureFacts ==
    ASSUME NEW signatures \in Signatures, NEW author \in Validators, NEW valid \in BOOLEAN
    PROVE  LET new == AddSignature(signatures, author, valid)
           IN  /\ new \in Signatures
               /\ voters(new) = voters(signatures) \cup {author}
               /\ valid_voters(new) \subseteq valid_voters(signatures) \cup {author}
               /\ valid_voters(signatures) \subseteq valid_voters(new) \cup {author}
               /\ valid => author \in valid_voters(new)
               /\ invalid_voters(new) \subseteq invalid_voters(signatures) \cup {author}
               /\ valid => author \notin invalid_voters(new)
               /\ new[author] = IF valid THEN "valid" ELSE "invalid"
               /\ \A v \in Validators \ {author} : new[v] = signatures[v]
<1>1. CASE valid
  BY <1>1 DEF AddSignature, Signatures, voters, valid_voters, invalid_voters
<1>2. CASE ~ valid
  BY <1>2 DEF AddSignature, Signatures, voters, valid_voters, invalid_voters
<1>3. QED
  BY <1>1, <1>2

\* An aggregate with exactly one invalid signature does not verify.
LEMMA OneInvalidIsCaught ==
    ASSUME NEW signatures \in Signatures, NEW verifies \in MayVerify(signatures), verifies
    PROVE  Cardinality(invalid_voters(signatures)) # 1
<1>1. CASE invalid_voters(signatures) = {}
  BY <1>1, FS_EmptySet
<1>2. CASE invalid_voters(signatures) # {}
  <2>1. verifies = FALSE \/ verifies = (Cardinality(invalid_voters(signatures)) >= 2)
    BY <1>2, Zenon DEF MayVerify
  <2>2. Cardinality(invalid_voters(signatures)) >= 2
    BY <2>1, Zenon
  <2>3. QED
    BY <2>2
<1>3. QED
  BY <1>1, <1>2

-----------------------------------------------------------------------------
(* Aggregation.                                                            *)

\* aggregate_and_verify, called with a quorum of signatures, whether or not
\* the aggregate verifies: a certificate is signed by a quorum and does not
\* rest on a single invalid signature; without one, no valid signature is lost
\* and the valid ones are no quorum; and no valid author is blamed.
THEOREM AggregationIsSound ==
    ASSUME NEW signatures \in Signatures, check_voting_power(voters(signatures), TRUE),
           NEW verifies \in MayVerify(signatures)
    PROVE  LET aggregated == aggregate_and_verify(signatures, verifies)
           IN  /\ aggregated.signatures \in Signatures
               /\ aggregated.signers \in (SUBSET Validators) \cup {None}
               /\ aggregated.invalid \subseteq invalid_voters(signatures)
               /\ voters(aggregated.signatures) \subseteq voters(signatures)
               /\ invalid_voters(aggregated.signatures) \subseteq invalid_voters(signatures)
               /\ valid_voters(aggregated.signatures) = valid_voters(signatures)
               /\ aggregated.signers # None =>
                     /\ check_voting_power(aggregated.signers, TRUE)
                     /\ aggregated.signers \subseteq voters(signatures)
                     /\ Cardinality(aggregated.signers
                                       \ valid_voters(aggregated.signatures)) # 1
               /\ aggregated.signers = None =>
                     ~ check_voting_power(valid_voters(signatures), TRUE)
<1> DEFINE aggregated == aggregate_and_verify(signatures, verifies)
<1>1. CASE verifies
  <2>1. /\ aggregated.signers = voters(signatures) /\ aggregated.signatures = signatures
        /\ aggregated.invalid = {}
    BY <1>1 DEF aggregate_and_verify
  <2>2. voters(signatures) # None /\ voters(signatures) \in SUBSET Validators
    BY SignatureSets, AggregatorAssumption
  <2>3. Cardinality(voters(signatures) \ valid_voters(signatures)) # 1
    BY <1>1, OneInvalidIsCaught, SignatureSets
  <2> HIDE DEF aggregated
  <2>4. QED
    BY <2>1, <2>2, <2>3 DEF aggregated
<1>2. CASE ~ verifies
  <2>1. /\ aggregated.signers = IF check_voting_power(valid_voters(signatures), TRUE)
                                THEN valid_voters(signatures) ELSE None
        /\ aggregated.signatures = only_valid(signatures)
        /\ aggregated.invalid = invalid_voters(signatures)
    BY <1>2 DEF aggregate_and_verify
  <2>2. /\ valid_voters(signatures) # None /\ valid_voters(signatures) \in SUBSET Validators
        /\ valid_voters(signatures) \subseteq voters(signatures)
    BY SignatureSets, AggregatorAssumption
  <2>3. Cardinality(valid_voters(signatures) \ valid_voters(only_valid(signatures))) # 1
    <3>1. valid_voters(signatures) \ valid_voters(only_valid(signatures)) = {}
      BY OnlyValidFacts
    <3>2. QED
      BY <3>1, FS_EmptySet
  <2> HIDE DEF aggregated
  <2>4. QED
    BY <2>1, <2>2, <2>3, OnlyValidFacts DEF aggregated
<1>3. QED
  BY <1>1, <1>2

-----------------------------------------------------------------------------
(* Votes and timeouts.                                                     *)

VoteInv == SignaturesAreRecorded /\ QuorumCertsVerify /\ VotesStillCollected

EchoInv ==
    /\ partial_2chain_tc # None =>
          tc_signers(partial_2chain_tc) \cap Honest \subseteq heard_timeouts
    /\ EchoHasHonestTimeout
    /\ EchoNotMissed

TimeoutInv == TimeoutsAreHeard /\ EchoHasHonestTimeout /\ EchoNotMissed /\ TimeoutsAreCounted

-----------------------------------------------------------------------------
(* Operators of the model.                                                 *)

LEMMA HonestFacts == Honest \subseteq Validators /\ Byzantine \cap Honest = {}
BY ByzantineAssumption DEF Honest

\* The authors of the timeouts aggregated so far.
TimeoutSigners(maybe_tc) == IF maybe_tc = None THEN {} ELSE tc_signers(maybe_tc)

\* A timeout is added to those of the other authors, whichever round it signs.
LEMMA AddTimeoutFacts ==
    ASSUME NEW maybe_tc \in PartialTC \cup {None}, NEW author \in Validators,
           NEW hqc_round \in HqcRounds
    PROVE  /\ add_timeout(maybe_tc, author, hqc_round) \in PartialTC
           /\ tc_signers(add_timeout(maybe_tc, author, hqc_round))
                = TimeoutSigners(maybe_tc) \cup {author}
<1> DEFINE tc == IF maybe_tc # None
                 THEN maybe_tc
                 ELSE [hqc_round |-> hqc_round, signatures |-> [v \in Validators |-> None]]
           new == [tc.signatures EXCEPT ![author] = IF @ = None THEN hqc_round ELSE @]
           max == IF hqc_round > tc.hqc_round THEN hqc_round ELSE tc.hqc_round
<1>1. /\ tc.hqc_round \in HqcRounds
      /\ tc.signatures \in [Validators -> HqcRounds \cup {None}]
      /\ {v \in Validators : tc.signatures[v] # None} = TimeoutSigners(maybe_tc)
  BY DEF PartialTC, TimeoutSigners, tc_signers
<1>2. add_timeout(maybe_tc, author, hqc_round) = [hqc_round |-> max, signatures |-> new]
  BY DEF add_timeout
<1> HIDE DEF tc
<1>3. max \in HqcRounds
  BY <1>1
<1>4. /\ new \in [Validators -> HqcRounds \cup {None}]
      /\ new[author] # None
      /\ \A v \in Validators \ {author} : new[v] = tc.signatures[v]
  BY <1>1, PendingVotesAssumption
<1> HIDE DEF new, max
<1>5. tc_signers([hqc_round |-> max, signatures |-> new])
         = {v \in Validators : new[v] # None}
  BY DEF tc_signers
<1>6. {v \in Validators : new[v] # None} = TimeoutSigners(maybe_tc) \cup {author}
  BY <1>1, <1>4
<1>7. QED
  BY <1>2, <1>3, <1>4, <1>5, <1>6 DEF PartialTC

\* What a stored vote looks like.
LEMMA StoredVoteFacts ==
    ASSUME NEW digest \in Digests, NEW timeout
    PROVE  LET vote == [digest |-> digest, is_timeout |-> timeout # None]
           IN  /\ vote \in StoredVote /\ vote # None
               /\ vote.digest = digest
               /\ vote.is_timeout <=> timeout # None
<1> DEFINE vote == [digest |-> digest, is_timeout |-> timeout # None]
<1>1. (timeout # None) \in BOOLEAN
  BY Zenon
<1>2. vote \in StoredVote
  BY <1>1, Zenon DEF StoredVote
<1>3. vote # None
  BY <1>2, PendingVotesAssumption, Zenon
<1>4. vote.digest = digest /\ vote.is_timeout = (timeout # None)
  BY Zenon
<1>5. QED
  BY <1>2, <1>3, <1>4, Zenon

\* Storing a new vote: an author is recorded with one digest only, an honest
\* one with the digest it votes for.
LEMMA StoreVoteFacts ==
    ASSUME TypeOK, NEW author \in Validators, NEW digest \in Digests, NEW valid \in BOOLEAN,
           NEW timeout, VerifiedVote(author, digest, valid),
           is_new_vote(author, digest, timeout), StoreVote(author, digest, timeout)
    PROVE  /\ author_to_vote' \in [Validators -> StoredVote \cup {None}]
           /\ \A v \in Validators \ {author} : author_to_vote'[v] = author_to_vote[v]
           /\ author_to_vote'[author] # None
           /\ author_to_vote'[author].digest = digest
           /\ author_to_vote'[author].is_timeout <=> timeout # None
           /\ author_to_vote[author] # None => author_to_vote[author].digest = digest
           /\ author \in Honest => digest = honest_vote[author] /\ valid
<1> DEFINE vote == [digest |-> digest, is_timeout |-> timeout # None]
<1>1. /\ vote \in StoredVote /\ vote # None /\ vote.digest = digest
      /\ vote.is_timeout <=> timeout # None
  BY StoredVoteFacts, Zenon
<1>2. author_to_vote' = [author_to_vote EXCEPT ![author] = vote]
  BY DEF StoreVote
<1> HIDE DEF vote
<1>3. author_to_vote \in [Validators -> StoredVote \cup {None}]
  BY DEF TypeOK
<1>4. /\ author_to_vote' \in [Validators -> StoredVote \cup {None}]
      /\ author_to_vote'[author] = vote
      /\ \A v \in Validators \ {author} : author_to_vote'[v] = author_to_vote[v]
  BY <1>1, <1>2, <1>3
<1>5. /\ author_to_vote[author] # None => author_to_vote[author].digest = digest
      /\ author \in Honest => digest = honest_vote[author] /\ valid
  BY DEF is_new_vote, VerifiedVote
<1>6. QED
  BY <1>1, <1>4, <1>5, Zenon

-----------------------------------------------------------------------------
(* Timeouts.                                                               *)

LEMMA ReachesEchoHasHonest ==
    ASSUME NEW S \in SUBSET Validators, reaches_echo(S)
    PROVE  S \cap Honest # {}
BY WeakQuorumHasHonest, AggregatorAssumption DEF reaches_echo, check_voting_power

\* A timeout that is added.
LEMMA AddTimeoutStep ==
    ASSUME TypeOK, EchoInv, NEW author \in Validators, NEW hqc_round \in HqcRounds,
           AddTimeout(author, hqc_round)
    PROVE  /\ partial_2chain_tc' \in PartialTC
           /\ tc_signers(partial_2chain_tc') = TimeoutSigners(partial_2chain_tc) \cup {author}
           /\ timeout_certificate' \in PartialTC \cup {None}
           /\ echo_timeout' \in BOOLEAN
           /\ heard_timeouts' = heard_timeouts \cup ({author} \cap Honest)
           /\ EchoInv'
<1> DEFINE tc == add_timeout(partial_2chain_tc, author, hqc_round)
           quorum == check_voting_power(tc_signers(tc), TRUE)
<1>1. /\ partial_2chain_tc' = tc
      /\ timeout_certificate' = IF quorum THEN tc ELSE timeout_certificate
      /\ heard_timeouts' = heard_timeouts \cup ({author} \cap Honest)
  BY DEF AddTimeout
<1>2. echo_timeout' = (echo_timeout \/ (~ quorum /\ reaches_echo(tc_signers(tc))))
  BY Zenon DEF AddTimeout
<1>3. tc \in PartialTC /\ tc_signers(tc) = TimeoutSigners(partial_2chain_tc) \cup {author}
  BY AddTimeoutFacts DEF TypeOK
<1>4. tc # None
  BY <1>3, PendingVotesAssumption
<1> HIDE DEF tc
<1>5. echo_timeout' \in BOOLEAN
  BY <1>2, Zenon
<1>6. timeout_certificate' \in PartialTC \cup {None}
  BY <1>1, <1>3 DEF TypeOK
<1>7. tc_signers(tc) \cap Honest \subseteq heard_timeouts'
  BY <1>1, <1>3 DEF EchoInv, TimeoutSigners
<1>8. tc_signers(tc) \in SUBSET Validators
  BY DEF tc_signers
<1>9. EchoHasHonestTimeout'
  <2>1. CASE echo_timeout
    BY <1>1, <2>1 DEF EchoInv, EchoHasHonestTimeout
  <2>2. CASE reaches_echo(tc_signers(tc))
    BY <1>7, <1>8, <2>2, ReachesEchoHasHonest DEF EchoHasHonestTimeout
  <2>3. CASE ~ echo_timeout /\ ~ reaches_echo(tc_signers(tc))
    BY <1>2, <2>3, Zenon DEF EchoHasHonestTimeout
  <2>4. QED
    BY <2>1, <2>2, <2>3
<1>10. EchoNotMissed'
  <2>1. reaches_echo(tc_signers(tc)) /\ ~ quorum => echo_timeout'
    BY <1>2, Zenon
  <2>2. QED
    BY <1>1, <2>1 DEF EchoNotMissed, reaches_echo, check_voting_power
<1>11. EchoInv'
  BY <1>1, <1>7, <1>9, <1>10 DEF EchoInv
<1>12. QED
  BY <1>1, <1>3, <1>5, <1>6, <1>11

\* A timeout that is not looked at.
LEMMA IgnoreTimeoutStep ==
    ASSUME TypeOK, EchoInv, NEW author \in Validators, NEW timeout,
           IgnoreTimeout(author, timeout)
    PROVE  /\ UNCHANGED <<partial_2chain_tc, timeout_certificate, echo_timeout>>
           /\ heard_timeouts' = IF timeout = None
                                THEN heard_timeouts
                                ELSE heard_timeouts \cup ({author} \cap Honest)
           /\ EchoInv'
<1>1. /\ UNCHANGED <<partial_2chain_tc, timeout_certificate, echo_timeout>>
      /\ heard_timeouts' = IF timeout = None
                           THEN heard_timeouts
                           ELSE heard_timeouts \cup ({author} \cap Honest)
  BY DEF IgnoreTimeout
<1>2. heard_timeouts \subseteq heard_timeouts'
  BY <1>1
<1>3. EchoInv'
  BY <1>1, <1>2
  DEF EchoInv, EchoHasHonestTimeout, EchoNotMissed, reaches_echo, check_voting_power
<1>4. QED
  BY <1>1, <1>3

-----------------------------------------------------------------------------
(* Votes.                                                                  *)

\* The honest validators recorded for a digest after a new vote is stored.
LEMMA HonestVotersStep ==
    ASSUME NEW author \in Validators, NEW digest \in Digests,
           \A v \in Validators \ {author} : author_to_vote'[v] = author_to_vote[v],
           author_to_vote'[author].digest = digest,
           NEW d \in Digests
    PROVE  /\ d # digest => HonestVoters(d)' \subseteq HonestVoters(d)
           /\ HonestVoters(d)' \subseteq HonestVoters(d) \cup ({author} \cap Honest)
BY HonestFacts DEF HonestVoters

\* The vote is recorded, and not collected because there is a QC.
LEMMA CertifiedVoteStep ==
    ASSUME TypeOK, VoteInv, NEW author \in Validators, NEW digest \in Digests,
           \A v \in Validators \ {author} : author_to_vote'[v] = author_to_vote[v],
           author_to_vote'[author] # None, author_to_vote'[author].digest = digest,
           author_to_vote[author] # None => author_to_vote[author].digest = digest,
           author \in Honest => digest = honest_vote[author],
           enough_votes[digest] # None,
           UNCHANGED <<li_digest_to_votes, enough_votes, honest_vote>>
    PROVE  VoteInv'
<1>1. SignaturesAreRecorded'
  <2>1. \A d \in Digests : voters(li_digest_to_votes[d]) \subseteq Validators
    BY DEF voters
  <2>2. QED
    BY <2>1, HonestFacts DEF VoteInv, SignaturesAreRecorded, voters
<1>2. QuorumCertsVerify'
  BY DEF VoteInv, QuorumCertsVerify, check_voting_power, valid_voters
<1>3. VotesStillCollected'
  BY HonestVotersStep DEF VoteInv, VotesStillCollected, check_voting_power, valid_voters
<1>4. QED
  BY <1>1, <1>2, <1>3 DEF VoteInv

\* The vote is recorded and collected; new and signers are what becomes of the
\* signatures with it: the signatures and no QC, or what aggregation returns.
Collects(author, digest, valid, new, signers) ==
    LET signatures == AddSignature(li_digest_to_votes[digest], author, valid)
    IN  /\ \A v \in Validators \ {author} : author_to_vote'[v] = author_to_vote[v]
        /\ author_to_vote'[author] # None /\ author_to_vote'[author].digest = digest
        /\ author_to_vote[author] # None => author_to_vote[author].digest = digest
        /\ author \in Honest => digest = honest_vote[author] /\ valid
        /\ new \in Signatures
        /\ signers \in (SUBSET Validators) \cup {None}
        /\ voters(new) \subseteq voters(signatures)
        /\ invalid_voters(new) \subseteq invalid_voters(signatures)
        /\ valid_voters(new) = valid_voters(signatures)
        /\ signers # None => /\ check_voting_power(signers, TRUE)
                             /\ signers \subseteq voters(signatures)
                             /\ Cardinality(signers \ valid_voters(new)) # 1
        /\ signers = None => ~ check_voting_power(valid_voters(signatures), TRUE)
        /\ enough_votes[digest] = None
        /\ li_digest_to_votes' = [li_digest_to_votes EXCEPT ![digest] = new]
        /\ enough_votes' = [enough_votes EXCEPT ![digest] = signers]
        /\ UNCHANGED honest_vote

LEMMA CollectVoteStep ==
    ASSUME TypeOK, VoteInv, NEW author \in Validators, NEW digest \in Digests,
           NEW valid \in BOOLEAN, NEW new, NEW signers,
           Collects(author, digest, valid, new, signers)
    PROVE  /\ VoteInv'
           /\ li_digest_to_votes' \in [Digests -> Signatures]
           /\ enough_votes' \in [Digests -> (SUBSET Validators) \cup {None}]
           /\ invalid_voters(AddSignature(li_digest_to_votes[digest], author, valid))
                 \subseteq Byzantine
<1> DEFINE signatures == AddSignature(li_digest_to_votes[digest], author, valid)
<1>0. /\ \A v \in Validators \ {author} : author_to_vote'[v] = author_to_vote[v]
      /\ author_to_vote'[author] # None /\ author_to_vote'[author].digest = digest
      /\ author_to_vote[author] # None => author_to_vote[author].digest = digest
      /\ author \in Honest => digest = honest_vote[author] /\ valid
      /\ new \in Signatures /\ signers \in (SUBSET Validators) \cup {None}
      /\ voters(new) \subseteq voters(signatures)
      /\ invalid_voters(new) \subseteq invalid_voters(signatures)
      /\ valid_voters(new) = valid_voters(signatures)
      /\ signers # None => /\ check_voting_power(signers, TRUE)
                           /\ signers \subseteq voters(signatures)
                           /\ Cardinality(signers \ valid_voters(new)) # 1
      /\ signers = None => ~ check_voting_power(valid_voters(signatures), TRUE)
      /\ enough_votes[digest] = None
      /\ li_digest_to_votes' = [li_digest_to_votes EXCEPT ![digest] = new]
      /\ enough_votes' = [enough_votes EXCEPT ![digest] = signers]
      /\ UNCHANGED honest_vote
  BY DEF Collects
<1>1. /\ li_digest_to_votes \in [Digests -> Signatures]
      /\ enough_votes \in [Digests -> (SUBSET Validators) \cup {None}]
  BY DEF TypeOK
<1>2. /\ li_digest_to_votes' \in [Digests -> Signatures]
      /\ enough_votes' \in [Digests -> (SUBSET Validators) \cup {None}]
      /\ li_digest_to_votes'[digest] = new /\ enough_votes'[digest] = signers
      /\ \A d \in Digests \ {digest} : /\ li_digest_to_votes'[d] = li_digest_to_votes[d]
                                       /\ enough_votes'[d] = enough_votes[d]
  BY <1>0, <1>1
<1>3. /\ signatures \in Signatures
      /\ voters(signatures) = voters(li_digest_to_votes[digest]) \cup {author}
      /\ valid_voters(li_digest_to_votes[digest]) \subseteq valid_voters(signatures) \cup {author}
      /\ invalid_voters(signatures)
            \subseteq invalid_voters(li_digest_to_votes[digest]) \cup {author}
      /\ valid => author \in valid_voters(signatures) /\ author \notin invalid_voters(signatures)
  BY <1>1, AddSignatureFacts
<1> HIDE DEF signatures
\* What was known of the signatures holds with the new one.
<1>4. \A v \in voters(signatures) :
         /\ v \in Validators
         /\ author_to_vote'[v] # None /\ author_to_vote'[v].digest = digest
         /\ v \in Honest => v \in valid_voters(signatures) /\ honest_vote[v] = digest
  <2>1. SUFFICES ASSUME NEW v \in voters(signatures)
                 PROVE  /\ v \in Validators
                        /\ author_to_vote'[v] # None /\ author_to_vote'[v].digest = digest
                        /\ v \in Honest => /\ v \in valid_voters(signatures)
                                           /\ honest_vote[v] = digest
    OBVIOUS
  <2>2. CASE v = author
    BY <1>0, <1>3, <2>2
  <2>3. CASE v # author
    <3>1. v \in voters(li_digest_to_votes[digest]) /\ v \in Validators
      BY <1>3, <2>1, <2>3 DEF voters
    <3>2. /\ author_to_vote[v] # None /\ author_to_vote[v].digest = digest
          /\ v \in Honest => /\ li_digest_to_votes[digest][v] = "valid"
                             /\ honest_vote[v] = digest
      BY <3>1 DEF VoteInv, SignaturesAreRecorded
    <3>3. v \in Honest => v \in valid_voters(signatures)
      BY <1>3, <2>3, <3>1, <3>2 DEF valid_voters
    <3>4. QED
      BY <1>0, <2>3, <3>1, <3>2, <3>3
  <2>4. QED
    BY <2>2, <2>3
<1>5. invalid_voters(signatures) \subseteq Byzantine
  <2>1. /\ invalid_voters(signatures) \subseteq voters(signatures)
        /\ invalid_voters(signatures) \cap valid_voters(signatures) = {}
    BY <1>3, SignatureSets DEF invalid_voters, valid_voters
  <2>2. QED
    BY <1>4, <2>1 DEF Honest
<1>6. SignaturesAreRecorded'
  <2>1. SUFFICES ASSUME NEW d \in Digests, NEW v \in voters(li_digest_to_votes'[d])
                 PROVE  /\ author_to_vote'[v] # None
                        /\ author_to_vote'[v].digest = d
                        /\ v \in Honest => li_digest_to_votes'[d][v] = "valid"
    <3>1. \A v \in Honest : author_to_vote'[v] # None =>
             author_to_vote'[v].digest = honest_vote'[v]
      BY <1>0, HonestFacts DEF VoteInv, SignaturesAreRecorded
    <3>2. QED
      BY <1>0, <3>1, <2>1 DEF SignaturesAreRecorded, voters
  <2>2. CASE d = digest
    <3>1. v \in voters(signatures)
      BY <1>0, <1>2, <2>1, <2>2
    <3>2. v \in Honest => v \in valid_voters(new)
      BY <1>0, <1>4, <3>1
    <3>3. QED
      BY <1>0, <1>2, <1>4, <2>2, <3>1, <3>2 DEF valid_voters
  <2>3. CASE d # digest
    <3>1. li_digest_to_votes'[d] = li_digest_to_votes[d] /\ v \in Validators
      BY <1>2, <2>1, <2>3 DEF voters
    <3>2. /\ author_to_vote[v] # None /\ author_to_vote[v].digest = d
          /\ v \in Honest => li_digest_to_votes[d][v] = "valid"
      BY <2>1, <3>1 DEF VoteInv, SignaturesAreRecorded
    <3>3. v # author
      BY <1>0, <2>3, <3>2
    <3>4. QED
      BY <1>0, <3>1, <3>2, <3>3
  <2>4. QED
    BY <2>2, <2>3
<1>7. QuorumCertsVerify'
  <2>1. SUFFICES ASSUME NEW d \in Digests, enough_votes'[d] # None
                 PROVE  /\ check_voting_power(enough_votes'[d], TRUE)
                        /\ \A v \in enough_votes'[d] \cap Honest : honest_vote[v] = d
                        /\ Cardinality(enough_votes'[d]
                                          \ valid_voters(li_digest_to_votes'[d])) # 1
    BY <1>0 DEF QuorumCertsVerify, check_voting_power, valid_voters
  <2>2. CASE d = digest
    BY <1>0, <1>2, <1>4, <2>1, <2>2
  <2>3. CASE d # digest
    <3>1. enough_votes'[d] = enough_votes[d] /\ li_digest_to_votes'[d] = li_digest_to_votes[d]
      BY <1>2, <2>3
    <3>2. QED
      BY <2>1, <3>1 DEF VoteInv, QuorumCertsVerify
  <2>4. QED
    BY <2>2, <2>3
<1>8. VotesStillCollected'
  <2>1. SUFFICES ASSUME NEW d \in Digests, enough_votes'[d] = None
                 PROVE  /\ HonestVoters(d)' \subseteq valid_voters(li_digest_to_votes'[d])
                        /\ ~ check_voting_power(valid_voters(li_digest_to_votes'[d]), TRUE)
    BY <1>0 DEF VotesStillCollected, check_voting_power, valid_voters
  <2>2. CASE d = digest
    <3>1. HonestVoters(digest) \subseteq valid_voters(li_digest_to_votes[digest])
      BY <1>0 DEF VoteInv, VotesStillCollected
    <3>2. HonestVoters(digest)' \subseteq HonestVoters(digest) \cup ({author} \cap Honest)
      BY <1>0, HonestVotersStep
    <3>3. author \in HonestVoters(digest)' => author \in valid_voters(signatures)
      BY <1>0, <1>3 DEF HonestVoters
    <3>4. HonestVoters(digest)' \subseteq valid_voters(signatures)
      BY <1>0, <1>3, <3>1, <3>2, <3>3
    <3>5. QED
      BY <1>0, <1>2, <2>1, <2>2, <3>4
  <2>3. CASE d # digest
    <3>1. enough_votes'[d] = enough_votes[d] /\ li_digest_to_votes'[d] = li_digest_to_votes[d]
      BY <1>2, <2>3
    <3>2. HonestVoters(d)' \subseteq HonestVoters(d)
      BY <1>0, <2>3, HonestVotersStep
    <3>3. QED
      BY <2>1, <3>1, <3>2 DEF VoteInv, VotesStillCollected
  <2>4. QED
    BY <2>2, <2>3
<1>9. QED
  BY <1>2, <1>5, <1>6, <1>7, <1>8 DEF VoteInv, signatures

-----------------------------------------------------------------------------
(* Honest timeouts are counted, whatever becomes of the vote.              *)

LEMMA AddTimeoutCounts ==
    ASSUME TypeOK, TimeoutInv, NEW author \in Validators, NEW hqc_round \in HqcRounds,
           AddTimeout(author, hqc_round),
           \A v \in Validators \ {author} : author_to_vote'[v] = author_to_vote[v],
           \A d \in Digests : enough_votes[d] # None => enough_votes'[d] # None
    PROVE  TimeoutInv'
<1>1. EchoInv
  BY DEF TimeoutInv, TimeoutsAreHeard, EchoInv
<1>2. /\ partial_2chain_tc' \in PartialTC
      /\ tc_signers(partial_2chain_tc') = TimeoutSigners(partial_2chain_tc) \cup {author}
      /\ heard_timeouts' = heard_timeouts \cup ({author} \cap Honest)
      /\ EchoInv'
  BY <1>1, AddTimeoutStep
<1>3. TimeoutsAreHeard'
  BY <1>2, HonestFacts DEF EchoInv, TimeoutInv, TimeoutsAreHeard
<1>4. TimeoutsAreCounted'
  <2>1. partial_2chain_tc' # None
    BY <1>2, PendingVotesAssumption
  <2>2. CASE \E d \in Digests : enough_votes[d] # None
    BY <2>2 DEF TimeoutsAreCounted
  <2>3. CASE heard_timeouts = {} \/ heard_timeouts \subseteq TimeoutSigners(partial_2chain_tc)
    <3>1. heard_timeouts' \subseteq tc_signers(partial_2chain_tc')
      BY <1>2, <2>3
    <3>2. QED
      BY <2>1, <3>1 DEF TimeoutsAreCounted, tc_signers
  <2>4. QED
    BY <2>2, <2>3 DEF TimeoutInv, TimeoutsAreCounted, TimeoutSigners
<1>5. QED
  BY <1>2, <1>3, <1>4 DEF EchoInv, TimeoutInv

LEMMA IgnoreTimeoutCounts ==
    ASSUME TypeOK, TimeoutInv, NEW author \in Validators, NEW timeout,
           IgnoreTimeout(author, timeout),
           \A v \in Validators \ {author} : author_to_vote'[v] = author_to_vote[v],
           \/ author_to_vote'[author] = author_to_vote[author]
           \/ author_to_vote'[author].is_timeout => timeout # None,
           \A d \in Digests : enough_votes[d] # None => enough_votes'[d] # None,
           \/ timeout = None
           \/ author \in Honest => author \in heard_timeouts
           \/ \E d \in Digests : enough_votes'[d] # None
    PROVE  TimeoutInv'
<1>1. EchoInv
  BY DEF TimeoutInv, TimeoutsAreHeard, EchoInv
<1>2. /\ UNCHANGED partial_2chain_tc
      /\ heard_timeouts' = IF timeout = None
                           THEN heard_timeouts
                           ELSE heard_timeouts \cup ({author} \cap Honest)
      /\ EchoInv'
  BY <1>1, IgnoreTimeoutStep
<1>3. TimeoutsAreHeard'
  <2>1. \A v \in Honest :
           author_to_vote'[v] # None /\ author_to_vote'[v].is_timeout => v \in heard_timeouts'
    <3>1. SUFFICES ASSUME NEW v \in Honest, author_to_vote'[v] # None,
                          author_to_vote'[v].is_timeout
                   PROVE  v \in heard_timeouts'
      OBVIOUS
    <3>2. CASE author_to_vote'[v] = author_to_vote[v]
      BY <1>2, <3>1, <3>2 DEF TimeoutInv, TimeoutsAreHeard
    <3>3. CASE author_to_vote'[v] # author_to_vote[v]
      <4>1. v = author /\ timeout # None
        BY <3>1, <3>3, HonestFacts
      <4>2. QED
        BY <1>2, <4>1
    <3>4. QED
      BY <3>2, <3>3
  <2>2. QED
    BY <1>2, <2>1 DEF EchoInv, TimeoutsAreHeard
<1>4. TimeoutsAreCounted'
  <2>1. CASE \E d \in Digests : enough_votes'[d] # None
    BY <2>1 DEF TimeoutsAreCounted
  <2>2. CASE heard_timeouts' = heard_timeouts
    BY <1>2, <2>2 DEF TimeoutInv, TimeoutsAreCounted, tc_signers
  <2>3. QED
    BY <1>2, <2>1, <2>2
<1>5. QED
  BY <1>2, <1>3, <1>4 DEF EchoInv, TimeoutInv

-----------------------------------------------------------------------------
(* The operations.                                                         *)

Inv == TypeOK /\ VoteInv /\ TimeoutInv

\* VoteInv is about these variables only.
LEMMA VoteInvUnchanged ==
    ASSUME VoteInv,
           UNCHANGED <<li_digest_to_votes, enough_votes, author_to_vote, honest_vote>>
    PROVE  VoteInv'
<1>1. SignaturesAreRecorded'
  BY DEF VoteInv, SignaturesAreRecorded, voters
<1>2. QuorumCertsVerify'
  BY DEF VoteInv, QuorumCertsVerify, check_voting_power, valid_voters
<1>3. VotesStillCollected'
  BY DEF VoteInv, VotesStillCollected, check_voting_power, valid_voters, HonestVoters
<1>4. QED
  BY <1>1, <1>2, <1>3 DEF VoteInv

\* The types of what AddTimeout and IgnoreTimeout change.
TimeoutTypes ==
    /\ partial_2chain_tc \in PartialTC \cup {None}
    /\ echo_timeout \in BOOLEAN
    /\ timeout_certificate \in PartialTC \cup {None}
    /\ heard_timeouts \subseteq Honest

LEMMA TimeoutTypesStep ==
    ASSUME Inv, NEW author \in Validators, NEW timeout,
           \/ timeout \in HqcRounds /\ AddTimeout(author, timeout)
           \/ IgnoreTimeout(author, timeout)
    PROVE  TimeoutTypes'
<1>1. EchoInv
  BY DEF Inv, TimeoutInv, TimeoutsAreHeard, EchoInv
<1>2. CASE timeout \in HqcRounds /\ AddTimeout(author, timeout)
  <2>1. /\ partial_2chain_tc' \in PartialTC
        /\ timeout_certificate' \in PartialTC \cup {None}
        /\ echo_timeout' \in BOOLEAN
        /\ heard_timeouts' = heard_timeouts \cup ({author} \cap Honest)
    BY <1>1, <1>2, AddTimeoutStep DEF Inv
  <2>2. QED
    BY <2>1 DEF TimeoutTypes, Inv, TypeOK
<1>3. CASE IgnoreTimeout(author, timeout)
  BY <1>3 DEF IgnoreTimeout, TimeoutTypes, Inv, TypeOK
<1>4. QED
  BY <1>2, <1>3

LEMMA InsertRoundTimeoutStep ==
    ASSUME Inv, NEW author \in Validators, NEW hqc_round \in HqcRounds,
           InsertRoundTimeout(author, hqc_round)
    PROVE  Inv'
<1>1. /\ AddTimeout(author, hqc_round)
      /\ UNCHANGED <<li_digest_to_votes, enough_votes, author_to_vote,
                     pessimistic_verify_set, honest_vote>>
  BY DEF InsertRoundTimeout
<1>2. TypeOK'
  BY <1>1, TimeoutTypesStep DEF Inv, TypeOK, TimeoutTypes
<1>3. VoteInv'
  BY <1>1, VoteInvUnchanged DEF Inv
<1>4. TimeoutInv'
  BY <1>1, AddTimeoutCounts DEF Inv
<1>5. QED
  BY <1>2, <1>3, <1>4 DEF Inv

\* A refused vote of an honest author repeats one that was accepted, so its
\* timeout has been heard before.
LEMMA RefuseVoteStep ==
    ASSUME Inv, NEW author \in Validators, NEW digest \in Digests, NEW valid \in BOOLEAN,
           NEW timeout \in HqcRounds \cup {None}, RefuseVote(author, digest, valid, timeout)
    PROVE  Inv'
<1>1. /\ VerifiedVote(author, digest, valid)
      /\ ~ is_new_vote(author, digest, timeout)
      /\ IgnoreTimeout(author, timeout)
      /\ UNCHANGED <<li_digest_to_votes, enough_votes, author_to_vote,
                     pessimistic_verify_set, honest_vote>>
  BY DEF RefuseVote
<1>2. TypeOK'
  BY <1>1, TimeoutTypesStep DEF Inv, TypeOK, TimeoutTypes
<1>3. VoteInv'
  BY <1>1, VoteInvUnchanged DEF Inv
<1>4. timeout # None /\ author \in Honest => author \in heard_timeouts
  <2>1. SUFFICES ASSUME timeout # None, author \in Honest
                 PROVE  author \in heard_timeouts
    OBVIOUS
  <2>2. author_to_vote[author] # None
    BY <1>1 DEF is_new_vote
  <2>3. author_to_vote[author].digest = digest
    BY <1>1, <2>1, <2>2 DEF VerifiedVote, Inv, VoteInv, SignaturesAreRecorded
  <2>4. author_to_vote[author].is_timeout
    BY <1>1, <2>1, <2>2, <2>3, Zenon DEF is_new_vote
  <2>5. QED
    BY <2>1, <2>2, <2>4 DEF Inv, TimeoutInv, TimeoutsAreHeard
<1>5. TimeoutInv'
  BY <1>1, <1>4, IgnoreTimeoutCounts DEF Inv
<1>6. QED
  BY <1>2, <1>3, <1>5 DEF Inv

LEMMA InsertVoteCertifiedStep ==
    ASSUME Inv, NEW author \in Validators, NEW digest \in Digests, NEW valid \in BOOLEAN,
           NEW timeout \in HqcRounds \cup {None},
           InsertVoteCertified(author, digest, valid, timeout)
    PROVE  Inv'
<1>1. /\ VerifiedVote(author, digest, valid)
      /\ is_new_vote(author, digest, timeout)
      /\ enough_votes[digest] # None
      /\ StoreVote(author, digest, timeout)
      /\ IgnoreTimeout(author, timeout)
      /\ UNCHANGED <<li_digest_to_votes, enough_votes, pessimistic_verify_set, honest_vote>>
  BY DEF InsertVoteCertified
<1>2. /\ author_to_vote' \in [Validators -> StoredVote \cup {None}]
      /\ \A v \in Validators \ {author} : author_to_vote'[v] = author_to_vote[v]
      /\ author_to_vote'[author] # None
      /\ author_to_vote'[author].digest = digest
      /\ author_to_vote'[author].is_timeout <=> timeout # None
      /\ author_to_vote[author] # None => author_to_vote[author].digest = digest
      /\ author \in Honest => digest = honest_vote[author] /\ valid
  BY <1>1, StoreVoteFacts, Zenon DEF Inv
<1>3. TypeOK'
  BY <1>1, <1>2, TimeoutTypesStep DEF Inv, TypeOK, TimeoutTypes
<1>4. VoteInv'
  BY <1>1, <1>2, CertifiedVoteStep DEF Inv
<1>5. TimeoutInv'
  BY <1>1, <1>2, IgnoreTimeoutCounts DEF Inv
<1>6. QED
  BY <1>3, <1>4, <1>5 DEF Inv

LEMMA InsertVotePendingStep ==
    ASSUME Inv, NEW author \in Validators, NEW digest \in Digests, NEW valid \in BOOLEAN,
           NEW timeout \in HqcRounds \cup {None},
           InsertVotePending(author, digest, valid, timeout)
    PROVE  Inv'
<1> DEFINE signatures == AddSignature(li_digest_to_votes[digest], author, valid)
<1>1. /\ VerifiedVote(author, digest, valid)
      /\ is_new_vote(author, digest, timeout)
      /\ enough_votes[digest] = None
      /\ ~ check_voting_power(voters(signatures), TRUE)
      /\ StoreVote(author, digest, timeout)
      /\ li_digest_to_votes' = [li_digest_to_votes EXCEPT ![digest] = signatures]
      /\ IF timeout = None THEN IgnoreTimeout(author, timeout)
                           ELSE AddTimeout(author, timeout)
      /\ UNCHANGED <<enough_votes, pessimistic_verify_set, honest_vote>>
  BY DEF InsertVotePending, AddSignature
<1>2. /\ author_to_vote' \in [Validators -> StoredVote \cup {None}]
      /\ \A v \in Validators \ {author} : author_to_vote'[v] = author_to_vote[v]
      /\ author_to_vote'[author] # None
      /\ author_to_vote'[author].digest = digest
      /\ author_to_vote'[author].is_timeout <=> timeout # None
      /\ author_to_vote[author] # None => author_to_vote[author].digest = digest
      /\ author \in Honest => digest = honest_vote[author] /\ valid
  BY <1>1, StoreVoteFacts, Zenon DEF Inv
<1>3. li_digest_to_votes[digest] \in Signatures /\ signatures \in Signatures
  BY AddSignatureFacts DEF Inv, TypeOK
<1> HIDE DEF signatures
<1>4. ~ check_voting_power(valid_voters(signatures), TRUE)
  BY <1>1, <1>3, CheckMonotone, SignatureSets
<1>5. enough_votes' = [enough_votes EXCEPT ![digest] = None]
  BY <1>1 DEF Inv, TypeOK
<1>6. /\ VoteInv'
      /\ li_digest_to_votes' \in [Digests -> Signatures]
  <2>1. Collects(author, digest, valid, signatures, None)
    BY <1>1, <1>2, <1>3, <1>4, <1>5 DEF Collects, signatures
  <2>2. QED
    BY <2>1, CollectVoteStep DEF Inv
<1>7. TypeOK'
  BY <1>1, <1>2, <1>6, TimeoutTypesStep DEF Inv, TypeOK, TimeoutTypes
<1>8. TimeoutInv'
  <2>1. CASE timeout = None
    BY <1>1, <1>2, <2>1, IgnoreTimeoutCounts DEF Inv
  <2>2. CASE timeout # None
    BY <1>1, <1>2, <2>2, AddTimeoutCounts DEF Inv
  <2>3. QED
    BY <2>1, <2>2
<1>9. QED
  BY <1>6, <1>7, <1>8 DEF Inv

LEMMA InsertVoteQuorumStep ==
    ASSUME Inv, NEW author \in Validators, NEW digest \in Digests, NEW valid \in BOOLEAN,
           NEW timeout \in HqcRounds \cup {None},
           InsertVoteQuorum(author, digest, valid, timeout)
    PROVE  Inv'
<1> DEFINE signatures == AddSignature(li_digest_to_votes[digest], author, valid)
<1>1. /\ VerifiedVote(author, digest, valid)
      /\ is_new_vote(author, digest, timeout)
      /\ enough_votes[digest] = None
      /\ check_voting_power(voters(signatures), TRUE)
      /\ StoreVote(author, digest, timeout)
      /\ UNCHANGED honest_vote
  BY DEF InsertVoteQuorum, AddSignature
<1>2. PICK verifies \in MayVerify(signatures) :
         LET aggregated == aggregate_and_verify(signatures, verifies)
         IN  /\ enough_votes' = [enough_votes EXCEPT ![digest] = aggregated.signers]
             /\ li_digest_to_votes' = [li_digest_to_votes EXCEPT
                                          ![digest] = aggregated.signatures]
             /\ pessimistic_verify_set' = pessimistic_verify_set \cup aggregated.invalid
             /\ IF timeout = None \/ aggregated.signers # None
                THEN IgnoreTimeout(author, timeout)
                ELSE AddTimeout(author, timeout)
  BY DEF InsertVoteQuorum, AddSignature
<1> DEFINE aggregated == aggregate_and_verify(signatures, verifies)
<1>3. /\ author_to_vote' \in [Validators -> StoredVote \cup {None}]
      /\ \A v \in Validators \ {author} : author_to_vote'[v] = author_to_vote[v]
      /\ author_to_vote'[author] # None
      /\ author_to_vote'[author].digest = digest
      /\ author_to_vote'[author].is_timeout <=> timeout # None
      /\ author_to_vote[author] # None => author_to_vote[author].digest = digest
      /\ author \in Honest => digest = honest_vote[author] /\ valid
  BY <1>1, StoreVoteFacts, Zenon DEF Inv
<1>4. signatures \in Signatures
  BY AddSignatureFacts DEF Inv, TypeOK
<1> HIDE DEF signatures
<1>5. /\ aggregated.signatures \in Signatures
      /\ aggregated.signers \in (SUBSET Validators) \cup {None}
      /\ aggregated.invalid \subseteq invalid_voters(signatures)
      /\ voters(aggregated.signatures) \subseteq voters(signatures)
      /\ invalid_voters(aggregated.signatures) \subseteq invalid_voters(signatures)
      /\ valid_voters(aggregated.signatures) = valid_voters(signatures)
      /\ aggregated.signers # None =>
            /\ check_voting_power(aggregated.signers, TRUE)
            /\ aggregated.signers \subseteq voters(signatures)
            /\ Cardinality(aggregated.signers \ valid_voters(aggregated.signatures)) # 1
      /\ aggregated.signers = None => ~ check_voting_power(valid_voters(signatures), TRUE)
  BY <1>1, <1>4, AggregationIsSound
<1>6. /\ enough_votes' = [enough_votes EXCEPT ![digest] = aggregated.signers]
      /\ li_digest_to_votes' = [li_digest_to_votes EXCEPT ![digest] = aggregated.signatures]
      /\ pessimistic_verify_set' = pessimistic_verify_set \cup aggregated.invalid
      /\ IF timeout = None \/ aggregated.signers # None
         THEN IgnoreTimeout(author, timeout)
         ELSE AddTimeout(author, timeout)
  BY <1>2
<1> HIDE DEF aggregated
<1>7. /\ VoteInv'
      /\ li_digest_to_votes' \in [Digests -> Signatures]
      /\ enough_votes' \in [Digests -> (SUBSET Validators) \cup {None}]
      /\ invalid_voters(signatures) \subseteq Byzantine
  <2>1. Collects(author, digest, valid, aggregated.signatures, aggregated.signers)
    BY <1>1, <1>3, <1>5, <1>6 DEF Collects, signatures
  <2>2. QED
    BY <2>1, CollectVoteStep DEF Inv, signatures
<1>8. TypeOK'
  <2>1. TimeoutTypes'
    BY <1>6, TimeoutTypesStep
  <2>2. pessimistic_verify_set' \subseteq Byzantine
    BY <1>5, <1>6, <1>7 DEF Inv, TypeOK
  <2>3. QED
    BY <1>1, <1>3, <1>7, <2>1, <2>2 DEF Inv, TypeOK, TimeoutTypes
<1>9. TimeoutInv'
  <2>1. \A d \in Digests : enough_votes[d] # None => enough_votes'[d] # None
    BY <1>1, <1>6 DEF Inv, TypeOK
  <2>2. enough_votes'[digest] = aggregated.signers
    BY <1>6 DEF Inv, TypeOK
  <2>3. CASE timeout = None \/ aggregated.signers # None
    BY <1>3, <1>6, <2>1, <2>2, <2>3, IgnoreTimeoutCounts DEF Inv
  <2>4. CASE timeout # None /\ aggregated.signers = None
    BY <1>3, <1>6, <2>1, <2>4, AddTimeoutCounts DEF Inv
  <2>5. QED
    BY <2>3, <2>4
<1>10. QED
  BY <1>7, <1>8, <1>9 DEF Inv

LEMMA InvStep == Inv /\ [Next]_vars => Inv'
<1> SUFFICES ASSUME Inv, [Next]_vars
             PROVE  Inv'
  OBVIOUS
<1>1. CASE \E author \in Validators, hqc_round \in HqcRounds :
              InsertRoundTimeout(author, hqc_round)
  BY <1>1, InsertRoundTimeoutStep
<1>2. CASE \E author \in Validators, digest \in Digests, valid \in BOOLEAN,
              timeout \in HqcRounds \cup {None} :
              RefuseVote(author, digest, valid, timeout)
  BY <1>2, RefuseVoteStep
<1>3. CASE \E author \in Validators, digest \in Digests, valid \in BOOLEAN,
              timeout \in HqcRounds \cup {None} :
              InsertVoteCertified(author, digest, valid, timeout)
  BY <1>3, InsertVoteCertifiedStep
<1>4. CASE \E author \in Validators, digest \in Digests, valid \in BOOLEAN,
              timeout \in HqcRounds \cup {None} :
              InsertVotePending(author, digest, valid, timeout)
  BY <1>4, InsertVotePendingStep
<1>5. CASE \E author \in Validators, digest \in Digests, valid \in BOOLEAN,
              timeout \in HqcRounds \cup {None} :
              InsertVoteQuorum(author, digest, valid, timeout)
  BY <1>5, InsertVoteQuorumStep
<1>6. CASE UNCHANGED vars
  <2>1. UNCHANGED <<li_digest_to_votes, enough_votes, author_to_vote, partial_2chain_tc,
                    echo_timeout, timeout_certificate, honest_vote, heard_timeouts,
                    pessimistic_verify_set>>
    BY <1>6 DEF vars, votes_state
  <2>2. TypeOK' /\ VoteInv'
    BY <2>1, VoteInvUnchanged DEF Inv, TypeOK
  <2>3. TimeoutInv'
    BY <2>1
    DEF Inv, TimeoutInv, TimeoutsAreHeard, EchoHasHonestTimeout, EchoNotMissed,
        TimeoutsAreCounted, tc_signers, reaches_echo, check_voting_power
  <2>4. QED
    BY <2>2, <2>3 DEF Inv
<1>7. QED
  BY <1>1, <1>2, <1>3, <1>4, <1>5, <1>6 DEF Next

LEMMA InvInit == Init => Inv
<1> SUFFICES ASSUME Init
             PROVE  Inv
  OBVIOUS
<1> DEFINE empty == [v \in Validators |-> "none"]
<1>1. empty \in Signatures /\ voters(empty) = {} /\ valid_voters(empty) = {}
  BY DEF Signatures, voters, valid_voters
<1>2. echo_timeout \in BOOLEAN /\ ~ echo_timeout
  BY Zenon DEF Init
<1>3. /\ li_digest_to_votes = [d \in Digests |-> empty]
      /\ enough_votes = [d \in Digests |-> None]
      /\ author_to_vote = [v \in Validators |-> None]
      /\ partial_2chain_tc = None /\ timeout_certificate = None
      /\ pessimistic_verify_set \in SUBSET Byzantine
      /\ honest_vote \in [Honest -> Digests] /\ heard_timeouts = {}
  BY DEF Init
<1> HIDE DEF empty
<1>4. TypeOK
  BY <1>1, <1>2, <1>3 DEF TypeOK
<1>5. \A v \in Honest : author_to_vote[v] = None
  BY <1>3, HonestFacts
<1>6. \A d \in Digests : /\ voters(li_digest_to_votes[d]) = {}
                         /\ valid_voters(li_digest_to_votes[d]) = {}
                         /\ HonestVoters(d) = {} /\ enough_votes[d] = None
  BY <1>1, <1>3, <1>5 DEF HonestVoters
<1>7. VoteInv
  BY <1>5, <1>6, EmptyIsNoQuorum
  DEF VoteInv, SignaturesAreRecorded, QuorumCertsVerify, VotesStillCollected
<1>8. TimeoutInv
  BY <1>2, <1>3, <1>5
  DEF TimeoutInv, TimeoutsAreHeard, EchoHasHonestTimeout, EchoNotMissed, TimeoutsAreCounted
<1>9. QED
  BY <1>4, <1>7, <1>8 DEF Inv

-----------------------------------------------------------------------------
(* The theorems.                                                           *)

\* IInv holds in every reachable state of the collector, for every validator
\* set within the fault bound and every order of messages.
THEOREM InductiveInvariant == Spec => []IInv
<1>1. Inv => IInv
  BY DEF Inv, VoteInv, TimeoutInv, IInv
<1>2. QED
  BY <1>1, InvInit, InvStep, PTL DEF Spec

\* Every QC that PendingVotes hands on is signed by a quorum, includes an
\* honest validator only if it voted for that block, and does not rest on a
\* single invalid signature.
THEOREM CertificatesVerify == Spec => []QuorumCertsVerify
BY InductiveInvariant, PTL DEF IInv

\* The votes of an honest quorum always make a QC, however many invalid
\* signatures were aggregated with them.
THEOREM InvalidVotesDoNotBlock == Spec => []HonestQuorumCertifies
<1>1. IInv => HonestQuorumCertifies
  <2>1. SUFFICES ASSUME IInv, NEW d \in Digests, check_voting_power(HonestVoters(d), TRUE),
                        enough_votes[d] = None
                 PROVE  FALSE
    BY DEF HonestQuorumCertifies
  <2>2. /\ HonestVoters(d) \subseteq valid_voters(li_digest_to_votes[d])
        /\ ~ check_voting_power(valid_voters(li_digest_to_votes[d]), TRUE)
    BY <2>1 DEF IInv, VotesStillCollected
  <2>3. /\ HonestVoters(d) \in SUBSET Validators
        /\ valid_voters(li_digest_to_votes[d]) \in SUBSET Validators
    BY HonestFacts DEF HonestVoters, valid_voters
  <2>4. QED
    BY <2>1, <2>2, <2>3, CheckMonotone
<1>2. QED
  BY <1>1, InductiveInvariant, PTL

\* No author's voting power is counted for two ledger infos.
THEOREM PowerCountsOnce == Spec => []EachAuthorCountsOnce
<1>1. IInv => EachAuthorCountsOnce
  BY DEF IInv, SignaturesAreRecorded, EachAuthorCountsOnce
<1>2. QED
  BY <1>1, InductiveInvariant, PTL

\* A validator is only made to echo a timeout by an honest one.
THEOREM EchoIsJustified == Spec => []EchoHasHonestTimeout
BY InductiveInvariant, PTL DEF IInv

\* Enough timeouts for an echo are echoed unless they make a TC.
THEOREM EchoIsGiven == Spec => []EchoNotMissed
BY InductiveInvariant, PTL DEF IInv

\* The timeout of an honest validator that arrived is aggregated, unless there
\* is a QC.
THEOREM NoTimeoutIsLost == Spec => []TimeoutsAreCounted
BY InductiveInvariant, PTL DEF IInv


-----------------------------------------------------------------------------
(***************************************************************************)
(* Order votes over the rounds of an epoch, for every validator set within *)
(* the fault bound, every chain of certified blocks, every window and      *)
(* every order of messages, garbage collections and catch-ups:             *)
(* OrderVotesIInv is inductive.                                            *)
(***************************************************************************)

OrderVars == <<order_votes_state, pessimistic_verify_set>>

-----------------------------------------------------------------------------
(* Facts about constants and operators.                                    *)

LEMMA DigestFacts ==
    /\ CertifiedDigests \subseteq OrderDigests
    /\ \A d \in OrderDigests : LIRound[d] \in Nat
    /\ \A c, d \in CertifiedDigests : LIRound[c] = LIRound[d] => c = d
BY OrderVotesAssumption

LEMMA LaterFacts ==
    \A a, b \in Nat : Later(a, b) \in Nat /\ Later(a, b) >= a /\ Later(a, b) >= b
BY DEF Later

LEMMA OrderedByQCType == \A d \in OrderDigests : OrderedByQC(d) \in Nat
<1>1. SUFFICES ASSUME NEW d \in OrderDigests
               PROVE  OrderedByQC(d) \in Nat
  OBVIOUS
<1>2. CASE d \in CertifiedDigests /\ ParentDigest[d] # None
  <2>1. ParentDigest[d] \in OrderDigests
    BY <1>2, OrderVotesAssumption
  <2>2. QED
    BY <2>1, DigestFacts DEF OrderedByQC
<1>3. CASE ~ (d \in CertifiedDigests /\ ParentDigest[d] # None)
  BY <1>3 DEF OrderedByQC
<1>4. QED
  BY <1>2, <1>3

LEMMA StatusFacts ==
    /\ \A s \in OrderVoteStatus :
          /\ s # None /\ s.signatures \in Signatures
          /\ s.certificate \in (SUBSET Validators) \cup {None}
    /\ \A signatures \in Signatures, certificate \in (SUBSET Validators) \cup {None} :
          [signatures |-> signatures, certificate |-> certificate] \in OrderVoteStatus
BY OrderVotesAssumption DEF OrderVoteStatus

-----------------------------------------------------------------------------
(* What the entry of one digest has to satisfy, given what is ordered.     *)

\* The entry verifies whatever else happens.
EntrySound(d, entry) ==
    entry # None =>
        /\ d \in CertifiedDigests
        /\ invalid_voters(entry.signatures) \subseteq Byzantine
        /\ entry.certificate # None =>
              /\ check_voting_power(entry.certificate, TRUE)
              /\ Cardinality(entry.certificate \ valid_voters(entry.signatures)) # 1

\* The entry still holds what was heard for a block not yet ordered.
EntryCollects(entry, heard) ==
    /\ entry = None => heard = {}
    /\ entry # None =>
          /\ entry.certificate = None
          /\ heard \subseteq valid_voters(entry.signatures)
          /\ ~ check_voting_power(valid_voters(entry.signatures), TRUE)

\* OrderVotesIInv, entry by entry.
LEMMA IInvByEntry ==
    OrderVotesIInv <=>
        /\ OrderVotesTypeOK
        /\ \A d \in OrderDigests : EntrySound(d, order_votes[d])
        /\ \A d \in OrderDigests :
              LIRound[d] > highest_ordered_round /\ d \notin kept_back =>
                  EntryCollects(order_votes[d], heard_order_votes[d])
BY DEF OrderVotesIInv, EntriesAreSound, OrderCertsVerify, OrderVotesStillCollected,
       EntrySound, EntryCollects, has_enough_order_votes

\* The same of the next state.
LEMMA IInvByEntryNext ==
    ASSUME OrderVotesTypeOK',
           \A d \in OrderDigests : EntrySound(d, order_votes'[d]),
           \A d \in OrderDigests :
              LIRound[d] > highest_ordered_round' /\ d \notin kept_back' =>
                  EntryCollects(order_votes'[d], heard_order_votes'[d])
    PROVE  OrderVotesIInv'
BY DEF OrderVotesIInv, EntriesAreSound, OrderCertsVerify, OrderVotesStillCollected,
       EntrySound, EntryCollects, has_enough_order_votes, check_voting_power,
       valid_voters, invalid_voters

-----------------------------------------------------------------------------
(* Garbage collection.                                                     *)

\* An entry is kept or dropped, and one that is dropped is not above the
\* ordered round.
LEMMA VotesAfterFacts ==
    ASSUME NEW votes \in [OrderDigests -> OrderVoteStatus \cup {None}],
           NEW round, NEW ordered \in Nat
    PROVE  /\ VotesAfter(votes, round, ordered) \in [OrderDigests -> OrderVoteStatus \cup {None}]
           /\ \A d \in OrderDigests :
                 \/ VotesAfter(votes, round, ordered)[d] = votes[d]
                 \/ VotesAfter(votes, round, ordered)[d] = None /\ ~ (LIRound[d] > ordered)
BY DEF VotesAfter, garbage_collect

\* A step that may raise the ordered round and collect garbage up to it.
LEMMA AdvanceStep ==
    ASSUME OrderVotesIInv, OrderVotesTypeOK',
           NEW round, NEW ordered \in Nat, ordered >= highest_ordered_round,
           order_votes' = VotesAfter(order_votes, round, ordered),
           highest_ordered_round' = ordered,
           UNCHANGED <<heard_order_votes, kept_back>>
    PROVE  OrderVotesIInv'
<1>1. /\ order_votes \in [OrderDigests -> OrderVoteStatus \cup {None}]
      /\ highest_ordered_round \in Nat
  BY DEF OrderVotesIInv, OrderVotesTypeOK
<1>2. \A d \in OrderDigests :
         \/ order_votes'[d] = order_votes[d]
         \/ order_votes'[d] = None /\ ~ (LIRound[d] > ordered)
  BY <1>1, VotesAfterFacts
<1>3. \A d \in OrderDigests : EntrySound(d, order_votes'[d])
  BY <1>2, IInvByEntry DEF EntrySound
<1>4. \A d \in OrderDigests :
         LIRound[d] > highest_ordered_round' /\ d \notin kept_back' =>
             EntryCollects(order_votes'[d], heard_order_votes'[d])
  <2>1. SUFFICES ASSUME NEW d \in OrderDigests, LIRound[d] > highest_ordered_round',
                        d \notin kept_back'
                 PROVE  EntryCollects(order_votes'[d], heard_order_votes'[d])
    OBVIOUS
  <2>2. LIRound[d] > ordered /\ LIRound[d] > highest_ordered_round
    BY <1>1, <2>1, DigestFacts
  <2>3. order_votes'[d] = order_votes[d]
    BY <1>2, <2>2
  <2>4. QED
    BY <2>1, <2>2, <2>3, IInvByEntry
<1>5. QED
  BY <1>3, <1>4, IInvByEntryNext

-----------------------------------------------------------------------------
(* Inserting an order vote.                                                *)

\* The signatures with an accepted vote: of a certified block, with no honest
\* author among the invalid, and with everything heard before among the valid.
LEMMA AcceptedVote ==
    ASSUME OrderVotesIInv, NEW author \in Validators, NEW d \in OrderDigests,
           NEW valid \in BOOLEAN, NEW qc_valid \in BOOLEAN,
           VerifiedOrderVote(author, d, valid, qc_valid), accepts(d, qc_valid)
    PROVE  /\ WithSignature(author, d, valid) \in Signatures
           /\ d \in CertifiedDigests
           /\ LIRound[d] > highest_ordered_round
           /\ invalid_voters(WithSignature(author, d, valid)) \subseteq Byzantine
           /\ d \notin kept_back =>
                 heard_order_votes[d] \cup ({author} \cap Honest)
                     \subseteq valid_voters(WithSignature(author, d, valid))
<1> DEFINE old == IF order_votes[d] = None THEN [v \in Validators |-> "none"]
                                           ELSE order_votes[d].signatures
           signatures == AddSignature(old, author, valid)
<1>1. WithSignature(author, d, valid) = signatures
  BY DEF WithSignature, AddSignature
<1>2. /\ order_votes[d] \in OrderVoteStatus \cup {None}
      /\ order_votes[d] # None => order_votes[d].signatures \in Signatures
  BY StatusFacts DEF OrderVotesIInv, OrderVotesTypeOK
<1>3. old \in Signatures
  BY <1>2 DEF Signatures
<1>4. order_votes[d] = None => invalid_voters(old) = {} /\ valid_voters(old) = {}
  BY DEF invalid_voters, valid_voters
<1>5. order_votes[d] # None => old = order_votes[d].signatures
  OBVIOUS
<1> HIDE DEF old
<1>6. EntrySound(d, order_votes[d])
  BY IInvByEntry
<1>7. invalid_voters(old) \subseteq Byzantine
  BY <1>4, <1>5, <1>6 DEF EntrySound
<1>8. /\ signatures \in Signatures
      /\ valid_voters(old) \subseteq valid_voters(signatures) \cup {author}
      /\ valid => author \in valid_voters(signatures) /\ author \notin invalid_voters(signatures)
      /\ invalid_voters(signatures) \subseteq invalid_voters(old) \cup {author}
  BY <1>3, AddSignatureFacts
<1> HIDE DEF signatures
<1>9. author \in Honest => valid /\ qc_valid
  BY DEF VerifiedOrderVote
<1>10. d \in CertifiedDigests /\ LIRound[d] > highest_ordered_round
  BY <1>6 DEF EntrySound, VerifiedOrderVote, accepts
<1>11. invalid_voters(signatures) \subseteq Byzantine
  <2>1. author \notin Honest => author \in Byzantine
    BY DEF Honest
  <2>2. QED
    BY <1>7, <1>8, <1>9, <2>1
<1>12. ASSUME d \notin kept_back
       PROVE  heard_order_votes[d] \cup ({author} \cap Honest) \subseteq valid_voters(signatures)
  <2>1. EntryCollects(order_votes[d], heard_order_votes[d])
    BY <1>10, <1>12, IInvByEntry
  <2>2. heard_order_votes[d] \subseteq valid_voters(old)
    BY <1>5, <2>1 DEF EntryCollects
  <2>3. heard_order_votes[d] \subseteq Honest
    BY DEF OrderVotesIInv, OrderVotesTypeOK
  <2>4. QED
    BY <1>8, <1>9, <2>2, <2>3
<1>13. QED
  BY <1>1, <1>8, <1>10, <1>11, <1>12

\* The votes with a new entry for d that is sound; garbage may be collected
\* up to an ordered round, if a block becomes ordered.
LEMMA EntryStep ==
    ASSUME OrderVotesIInv, OrderVotesTypeOK', NEW d \in OrderDigests,
           NEW signatures \in Signatures,
           NEW certificate \in (SUBSET Validators) \cup {None},
           EntrySound(d, [signatures |-> signatures, certificate |-> certificate]),
           NEW round, NEW ordered \in Nat,
           highest_ordered_round' >= ordered, highest_ordered_round' >= highest_ordered_round,
           \/ order_votes' = WithEntry(d, signatures, certificate)
           \/ order_votes' = VotesAfter(WithEntry(d, signatures, certificate), round, ordered),
           kept_back \subseteq kept_back',
           \A c \in OrderDigests \ {d} : heard_order_votes'[c] = heard_order_votes[c],
           \/ highest_ordered_round' >= LIRound[d]
           \/ d \in kept_back'
           \/ /\ order_votes' = WithEntry(d, signatures, certificate)
              /\ EntryCollects([signatures |-> signatures, certificate |-> certificate],
                               heard_order_votes'[d])
    PROVE  OrderVotesIInv'
<1> DEFINE entry == [signatures |-> signatures, certificate |-> certificate]
           votes == WithEntry(d, signatures, certificate)
<1>1. /\ order_votes \in [OrderDigests -> OrderVoteStatus \cup {None}]
      /\ highest_ordered_round \in Nat /\ highest_ordered_round' \in Nat
  BY DEF OrderVotesIInv, OrderVotesTypeOK
<1>2. entry \in OrderVoteStatus
  BY StatusFacts
<1>3. /\ votes \in [OrderDigests -> OrderVoteStatus \cup {None}]
      /\ votes[d] = entry
      /\ \A c \in OrderDigests \ {d} : votes[c] = order_votes[c]
  BY <1>1, <1>2 DEF WithEntry
<1> HIDE DEF entry, votes
<1>4. \A c \in OrderDigests :
         \/ order_votes'[c] = votes[c]
         \/ order_votes'[c] = None /\ ~ (LIRound[c] > ordered)
  BY <1>3, VotesAfterFacts DEF votes
<1>5. \A c \in OrderDigests : EntrySound(c, order_votes'[c])
  <2>1. \A c \in OrderDigests : EntrySound(c, votes[c])
    BY <1>3, IInvByEntry DEF entry
  <2>2. QED
    BY <1>4, <2>1 DEF EntrySound
<1>6. \A c \in OrderDigests :
         LIRound[c] > highest_ordered_round' /\ c \notin kept_back' =>
             EntryCollects(order_votes'[c], heard_order_votes'[c])
  <2>1. SUFFICES ASSUME NEW c \in OrderDigests, LIRound[c] > highest_ordered_round',
                        c \notin kept_back'
                 PROVE  EntryCollects(order_votes'[c], heard_order_votes'[c])
    OBVIOUS
  <2>2. LIRound[c] > ordered /\ LIRound[c] > highest_ordered_round
    BY <1>1, <2>1, DigestFacts
  <2>3. order_votes'[c] = votes[c]
    BY <1>4, <2>2
  <2>4. CASE c = d
    <3>1. ~ (highest_ordered_round' >= LIRound[d])
      BY <1>1, <2>1, <2>4, DigestFacts
    <3>2. EntryCollects(entry, heard_order_votes'[d])
      BY <2>1, <2>4, <3>1 DEF entry
    <3>3. QED
      BY <1>3, <2>3, <2>4, <3>2
  <2>5. CASE c # d
    <3>1. EntryCollects(order_votes[c], heard_order_votes[c])
      BY <2>1, <2>2, IInvByEntry
    <3>2. QED
      BY <1>3, <2>3, <2>5, <3>1
  <2>6. QED
    BY <2>4, <2>5
<1>7. QED
  BY <1>5, <1>6, IInvByEntryNext

\* What Hear records.
LEMMA HearFacts ==
    ASSUME OrderVotesIInv, NEW author, NEW d \in OrderDigests, Hear(author, d)
    PROVE  /\ heard_order_votes' \in [OrderDigests -> SUBSET Honest]
           /\ heard_order_votes'[d] = heard_order_votes[d] \cup ({author} \cap Honest)
           /\ \A c \in OrderDigests \ {d} : heard_order_votes'[c] = heard_order_votes[c]
BY DEF Hear, OrderVotesIInv, OrderVotesTypeOK

\* Too few signatures yet.
LEMMA InsertPendingStep ==
    ASSUME OrderVotesIInv, NEW author \in Validators, NEW d \in OrderDigests,
           NEW valid \in BOOLEAN, NEW qc_valid \in BOOLEAN,
           InsertOrderVotePending(author, d, valid, qc_valid)
    PROVE  OrderVotesIInv'
<1> DEFINE signatures == WithSignature(author, d, valid)
           entry == [signatures |-> signatures, certificate |-> None]
<1>1. /\ VerifiedOrderVote(author, d, valid, qc_valid) /\ accepts(d, qc_valid)
      /\ ~ enough_power(signatures)
      /\ order_votes' = WithEntry(d, signatures, None)
      /\ Hear(author, d)
      /\ UNCHANGED <<blocks_stored, qcs_stored, highest_ordered_round, current_round,
                     kept_back, pessimistic_verify_set>>
  BY DEF InsertOrderVotePending
<1>2. /\ signatures \in Signatures /\ d \in CertifiedDigests
      /\ invalid_voters(signatures) \subseteq Byzantine
      /\ d \notin kept_back =>
            heard_order_votes[d] \cup ({author} \cap Honest) \subseteq valid_voters(signatures)
  BY <1>1, AcceptedVote
<1> HIDE DEF signatures
<1>3. ~ check_voting_power(valid_voters(signatures), TRUE)
  <2>1. ~ check_voting_power(voters(signatures), TRUE)
    BY <1>1 DEF enough_power
  <2>2. QED
    BY <1>2, <2>1, SignatureSets, CheckMonotone
<1>4. entry \in OrderVoteStatus /\ entry.certificate = None /\ entry.signatures = signatures
  BY <1>2, StatusFacts
<1>5. EntrySound(d, entry)
  BY <1>2, <1>4 DEF EntrySound
<1>6. d \in kept_back' \/ EntryCollects(entry, heard_order_votes'[d])
  BY <1>1, <1>2, <1>3, <1>4, HearFacts, StatusFacts DEF EntryCollects
<1>7. highest_ordered_round \in Nat /\ highest_ordered_round' = highest_ordered_round
  BY <1>1 DEF OrderVotesIInv, OrderVotesTypeOK
<1>8. OrderVotesTypeOK'
  <2>1. order_votes' \in [OrderDigests -> OrderVoteStatus \cup {None}]
    BY <1>1, <1>4 DEF WithEntry, OrderVotesIInv, OrderVotesTypeOK
  <2>2. heard_order_votes' \in [OrderDigests -> SUBSET Honest]
    BY <1>1, HearFacts
  <2>3. QED
    BY <1>1, <2>1, <2>2 DEF OrderVotesIInv, OrderVotesTypeOK
<1>9. QED
  BY <1>1, <1>2, <1>5, <1>6, <1>7, <1>8, HearFacts, EntryStep

\* A quorum of signatures: they are aggregated, and if that makes a
\* certificate, it is kept back or orders the block.
LEMMA InsertQuorumStep ==
    ASSUME OrderVotesIInv, NEW author \in Validators, NEW d \in OrderDigests,
           NEW valid \in BOOLEAN, NEW qc_valid \in BOOLEAN,
           InsertOrderVoteQuorum(author, d, valid, qc_valid)
    PROVE  OrderVotesIInv'
<1> DEFINE signatures == WithSignature(author, d, valid)
<1>1. /\ VerifiedOrderVote(author, d, valid, qc_valid) /\ accepts(d, qc_valid)
      /\ enough_power(signatures)
      /\ Hear(author, d)
      /\ UNCHANGED blocks_stored
  BY DEF InsertOrderVoteQuorum
<1>2. /\ signatures \in Signatures /\ d \in CertifiedDigests
      /\ invalid_voters(signatures) \subseteq Byzantine
      /\ d \notin kept_back =>
            heard_order_votes[d] \cup ({author} \cap Honest) \subseteq valid_voters(signatures)
  BY <1>1, AcceptedVote
<1>3. PICK verifies \in MayVerify(signatures) :
         LET aggregated == aggregate_and_verify(signatures, verifies)
             votes == WithEntry(d, aggregated.signatures, aggregated.signers)
         IN  /\ pessimistic_verify_set' = pessimistic_verify_set \cup aggregated.invalid
             /\ IF aggregated.signers # None
                THEN KeepBack(d, votes) \/ NewOrderedCert(d, votes)
                ELSE /\ order_votes' = votes
                     /\ UNCHANGED <<qcs_stored, highest_ordered_round, current_round, kept_back>>
  BY DEF InsertOrderVoteQuorum
<1> HIDE DEF signatures
<1>4. check_voting_power(voters(signatures), TRUE)
  BY <1>1 DEF enough_power
<1> DEFINE aggregated == aggregate_and_verify(signatures, verifies)
           kept == aggregated.signatures
           signers == aggregated.signers
           entry == [signatures |-> kept, certificate |-> signers]
           votes == WithEntry(d, kept, signers)
<1>5. /\ kept \in Signatures
      /\ signers \in (SUBSET Validators) \cup {None}
      /\ aggregated.invalid \subseteq Byzantine
      /\ invalid_voters(kept) \subseteq Byzantine
      /\ valid_voters(kept) = valid_voters(signatures)
      /\ signers # None => /\ check_voting_power(signers, TRUE)
                           /\ Cardinality(signers \ valid_voters(kept)) # 1
      /\ signers = None => ~ check_voting_power(valid_voters(signatures), TRUE)
  BY <1>2, <1>4, AggregationIsSound
<1>6. /\ pessimistic_verify_set' = pessimistic_verify_set \cup aggregated.invalid
      /\ signers # None => KeepBack(d, votes) \/ NewOrderedCert(d, votes)
      /\ signers = None =>
            /\ order_votes' = votes
            /\ UNCHANGED <<qcs_stored, highest_ordered_round, current_round, kept_back>>
  BY <1>3, Zenon
<1> HIDE DEF aggregated
<1>7. entry \in OrderVoteStatus /\ entry.certificate = signers /\ entry.signatures = kept
  BY <1>5, StatusFacts
<1>8. EntrySound(d, entry)
  BY <1>2, <1>5, <1>7 DEF EntrySound
<1>9. votes \in [OrderDigests -> OrderVoteStatus \cup {None}]
  BY <1>7 DEF WithEntry, OrderVotesIInv, OrderVotesTypeOK
<1>10. pessimistic_verify_set' \subseteq Byzantine /\ blocks_stored' \subseteq CertifiedDigests
  BY <1>1, <1>5, <1>6 DEF OrderVotesIInv, OrderVotesTypeOK
<1>11. heard_order_votes' \in [OrderDigests -> SUBSET Honest]
  BY <1>1, HearFacts
<1>12. /\ qcs_stored \subseteq CertifiedDigests /\ kept_back \subseteq OrderDigests
       /\ highest_ordered_round \in Nat /\ current_round \in Nat
  BY DEF OrderVotesIInv, OrderVotesTypeOK
<1>13. \A c \in OrderDigests \ {d} : heard_order_votes'[c] = heard_order_votes[c]
  BY <1>1, HearFacts
<1> HIDE DEF kept, signers, votes, entry
<1>14. CASE signers = None
  <2>1. d \in kept_back' \/ EntryCollects(entry, heard_order_votes'[d])
    BY <1>1, <1>2, <1>5, <1>6, <1>7, <1>14, HearFacts, StatusFacts DEF EntryCollects
  <2>2. OrderVotesTypeOK'
    BY <1>6, <1>9, <1>10, <1>11, <1>12, <1>14 DEF OrderVotesTypeOK
  <2>3. highest_ordered_round' = highest_ordered_round /\ kept_back' = kept_back
        /\ order_votes' = votes
    BY <1>6, <1>14
  <2>4. QED
    BY <1>5, <1>8, <1>12, <1>13, <2>1, <2>2, <2>3, EntryStep DEF entry, votes
<1>15. CASE signers # None /\ KeepBack(d, votes)
  <2>1. /\ order_votes' = votes /\ kept_back' = kept_back \cup {d}
        /\ UNCHANGED <<qcs_stored, highest_ordered_round, current_round>>
    BY <1>15 DEF KeepBack
  <2>2. OrderVotesTypeOK'
    BY <1>9, <1>10, <1>11, <1>12, <2>1 DEF OrderVotesTypeOK
  <2>3. /\ d \in kept_back' /\ kept_back \subseteq kept_back'
        /\ highest_ordered_round' >= highest_ordered_round
        /\ highest_ordered_round' \in Nat
    BY <1>12, <2>1
  <2>4. QED
    BY <1>5, <1>8, <1>12, <1>13, <2>1, <2>2, <2>3, EntryStep DEF entry, votes
<1>16. CASE signers # None /\ NewOrderedCert(d, votes)
  <2> DEFINE byQC == IF d \in qcs_stored THEN 0 ELSE OrderedByQC(d)
             started == IF d \in qcs_stored THEN 0 ELSE LIRound[d] + 1
             ordered == Later(highest_ordered_round, byQC)
             round == Later(current_round, started)
  <2>1. /\ qcs_stored' = qcs_stored \cup {d}
        /\ current_round' = round
        /\ order_votes' = VotesAfter(votes, round, ordered)
        /\ highest_ordered_round' = Later(ordered, LIRound[d])
        /\ UNCHANGED kept_back
    BY <1>16 DEF NewOrderedCert
  <2>2. LIRound[d] \in Nat /\ OrderedByQC(d) \in Nat
    BY DigestFacts, OrderedByQCType
  <2>3. ordered \in Nat /\ ordered >= highest_ordered_round /\ round \in Nat
    <3>1. byQC \in Nat /\ started \in Nat
      BY <2>2
    <3> HIDE DEF byQC, started
    <3>2. QED
      BY <1>12, <3>1, LaterFacts
  <2> HIDE DEF ordered, round
  <2>4. /\ highest_ordered_round' \in Nat
        /\ highest_ordered_round' >= ordered /\ highest_ordered_round' >= LIRound[d]
    BY <2>1, <2>2, <2>3, LaterFacts
  <2>5. highest_ordered_round' >= highest_ordered_round
    BY <1>12, <2>3, <2>4
  <2>6. order_votes' \in [OrderDigests -> OrderVoteStatus \cup {None}]
    BY <1>9, <2>1, <2>3, VotesAfterFacts
  <2>7. OrderVotesTypeOK'
    BY <1>2, <1>10, <1>11, <1>12, <2>1, <2>3, <2>4, <2>6 DEF OrderVotesTypeOK
  <2>8. QED
    BY <1>5, <1>8, <1>13, <2>1, <2>3, <2>4, <2>5, <2>7, EntryStep DEF entry, votes
<1>17. QED
  BY <1>6, <1>14, <1>15, <1>16

-----------------------------------------------------------------------------
(* The rest of the round manager.                                          *)

\* A block, a certificate or a catch-up.
LEMMA OtherSteps ==
    ASSUME OrderVotesIInv, NEW d \in CertifiedDigests,
           ReceiveBlock(d) \/ NewQC(d) \/ SyncUp(d) \/ NewTC(d)
    PROVE  OrderVotesIInv'
<1>1. /\ order_votes \in [OrderDigests -> OrderVoteStatus \cup {None}]
      /\ blocks_stored \subseteq CertifiedDigests /\ qcs_stored \subseteq CertifiedDigests
      /\ highest_ordered_round \in Nat /\ current_round \in Nat
      /\ heard_order_votes \in [OrderDigests -> SUBSET Honest]
      /\ kept_back \subseteq OrderDigests
      /\ pessimistic_verify_set \subseteq Byzantine
  BY DEF OrderVotesIInv, OrderVotesTypeOK
<1>2. d \in OrderDigests /\ LIRound[d] \in Nat /\ LIRound[d] + 1 \in Nat
      /\ OrderedByQC(d) \in Nat
  BY DigestFacts, OrderedByQCType
<1> DEFINE round == Later(current_round, LIRound[d] + 1)
<1>3. round \in Nat
  BY <1>1, <1>2, LaterFacts
<1>4. CASE ReceiveBlock(d)
  <2>1. /\ UNCHANGED <<order_votes, qcs_stored, highest_ordered_round, current_round,
                       heard_order_votes, kept_back, pessimistic_verify_set>>
        /\ blocks_stored' = blocks_stored \cup {d}
    BY <1>4 DEF ReceiveBlock
  <2>2. OrderVotesTypeOK'
    BY <1>1, <2>1 DEF OrderVotesTypeOK
  <2>3. QED
    BY <2>1, <2>2, IInvByEntry, IInvByEntryNext
<1>5. CASE NewQC(d)
  <2> DEFINE ordered == Later(highest_ordered_round, OrderedByQC(d))
  <2>1. /\ qcs_stored' = qcs_stored \cup {d}
        /\ highest_ordered_round' = ordered /\ current_round' = round
        /\ order_votes' = VotesAfter(order_votes, round, ordered)
        /\ UNCHANGED <<blocks_stored, heard_order_votes, kept_back, pessimistic_verify_set>>
    BY <1>5 DEF NewQC
  <2>2. ordered \in Nat /\ ordered >= highest_ordered_round
    BY <1>1, <1>2, LaterFacts
  <2> HIDE DEF round, ordered
  <2>3. order_votes' \in [OrderDigests -> OrderVoteStatus \cup {None}]
    BY <1>1, <2>1, <2>2, VotesAfterFacts
  <2>4. OrderVotesTypeOK'
    BY <1>1, <1>3, <2>1, <2>2, <2>3 DEF OrderVotesTypeOK
  <2>5. QED
    BY <2>1, <2>2, <2>4, AdvanceStep
<1>6. CASE SyncUp(d)
  <2> DEFINE ordered == Later(highest_ordered_round, LIRound[d])
             fetched == {c \in CertifiedDigests : LIRound[c] <= LIRound[d]}
  <2>1. /\ blocks_stored' = blocks_stored \cup fetched
        /\ qcs_stored' = qcs_stored \cup fetched
        /\ highest_ordered_round' = ordered /\ current_round' = round
        /\ order_votes' = VotesAfter(order_votes, round, ordered)
        /\ UNCHANGED <<heard_order_votes, kept_back, pessimistic_verify_set>>
    BY <1>6 DEF SyncUp
  <2>2. ordered \in Nat /\ ordered >= highest_ordered_round
    BY <1>1, <1>2, LaterFacts
  <2>3. fetched \subseteq CertifiedDigests
    OBVIOUS
  <2> HIDE DEF round, ordered, fetched
  <2>4. order_votes' \in [OrderDigests -> OrderVoteStatus \cup {None}]
    BY <1>1, <2>1, <2>2, VotesAfterFacts
  <2>5. OrderVotesTypeOK'
    BY <1>1, <1>3, <2>1, <2>2, <2>3, <2>4 DEF OrderVotesTypeOK
  <2>6. QED
    BY <2>1, <2>2, <2>5, AdvanceStep
<1>7. CASE NewTC(d)
  <2>1. /\ current_round' = round
        /\ order_votes' = VotesAfter(order_votes, round, highest_ordered_round)
        /\ UNCHANGED <<blocks_stored, qcs_stored, highest_ordered_round,
                       heard_order_votes, kept_back, pessimistic_verify_set>>
    BY <1>7 DEF NewTC
  <2> HIDE DEF round
  <2>2. order_votes' \in [OrderDigests -> OrderVoteStatus \cup {None}]
    BY <1>1, <2>1, VotesAfterFacts
  <2>3. OrderVotesTypeOK'
    BY <1>1, <1>3, <2>1, <2>2 DEF OrderVotesTypeOK
  <2>4. highest_ordered_round >= highest_ordered_round
    BY <1>1
  <2>5. QED
    BY <1>1, <2>1, <2>3, <2>4, AdvanceStep
<1>8. QED
  BY <1>4, <1>5, <1>6, <1>7

-----------------------------------------------------------------------------
(* The theorems.                                                           *)

\* The collector's invariant: its entries are for certified blocks, its
\* certificates verify, and what honest validators voted for is not lost
\* before the block is ordered.
THEOREM OrderVotesInvariant == OrderVotesSpec => []OrderVotesIInv
<1>1. OrderVotesInit => OrderVotesIInv
  <2>1. SUFFICES ASSUME OrderVotesInit PROVE OrderVotesIInv
    OBVIOUS
  <2>2. OrderVotesTypeOK
    BY <2>1 DEF OrderVotesInit, OrderVotesTypeOK
  <2>3. \A d \in OrderDigests : order_votes[d] = None /\ heard_order_votes[d] = {}
    BY <2>1 DEF OrderVotesInit
  <2>4. QED
    BY <2>2, <2>3, IInvByEntry DEF EntrySound, EntryCollects
<1>2. OrderVotesIInv /\ [OrderVotesNext]_OrderVars => OrderVotesIInv'
  <2>1. SUFFICES ASSUME OrderVotesIInv, [OrderVotesNext]_OrderVars
                 PROVE  OrderVotesIInv'
    OBVIOUS
  <2>2. ASSUME UNCHANGED OrderVars
        PROVE  OrderVotesIInv'
    <3>1. /\ UNCHANGED <<order_votes, blocks_stored, qcs_stored, highest_ordered_round,
                         current_round, heard_order_votes, kept_back>>
          /\ UNCHANGED pessimistic_verify_set
      BY <2>2 DEF OrderVars, order_votes_state
    <3>2. OrderVotesTypeOK'
      BY <2>1, <3>1 DEF OrderVotesIInv, OrderVotesTypeOK
    <3>3. QED
      BY <2>1, <3>1, <3>2, IInvByEntry, IInvByEntryNext
  <2>3. ASSUME NEW author \in Validators, NEW d \in OrderDigests,
               NEW valid \in BOOLEAN, NEW qc_valid \in BOOLEAN,
               \/ IgnoreOrderVote(author, d, valid, qc_valid)
               \/ InsertOrderVotePending(author, d, valid, qc_valid)
               \/ InsertOrderVoteQuorum(author, d, valid, qc_valid)
        PROVE  OrderVotesIInv'
    <3>1. CASE IgnoreOrderVote(author, d, valid, qc_valid)
      <4>1. UNCHANGED OrderVars
        BY <3>1 DEF IgnoreOrderVote, OrderVars
      <4>2. QED
        BY <2>2, <4>1
    <3>2. CASE InsertOrderVotePending(author, d, valid, qc_valid)
      BY <2>1, <3>2, InsertPendingStep
    <3>3. CASE InsertOrderVoteQuorum(author, d, valid, qc_valid)
      BY <2>1, <3>3, InsertQuorumStep
    <3>4. QED
      BY <2>3, <3>1, <3>2, <3>3
  <2>4. ASSUME NEW d \in CertifiedDigests,
               ReceiveBlock(d) \/ NewQC(d) \/ SyncUp(d) \/ NewTC(d)
        PROVE  OrderVotesIInv'
    BY <2>1, <2>4, OtherSteps
  <2>5. QED
    BY <2>1, <2>2, <2>3, <2>4, Zenon DEF OrderVotesNext
<1>3. QED
  BY <1>1, <1>2, PTL DEF OrderVotesSpec, OrderVars

\* Every order certificate has a quorum of signers, is for a certified block,
\* and its aggregate verifies.
THEOREM OrderCertificatesVerify == OrderVotesSpec => []OrderCertsVerify
<1>1. OrderVotesIInv => OrderCertsVerify
  BY DEF OrderVotesIInv
<1>2. QED
  BY <1>1, OrderVotesInvariant, PTL

\* Only one ledger info of a round is ever collected for, as only one block of
\* a round is certified: what Byzantine validators send takes no more memory.
THEOREM MemoryIsBounded == OrderVotesSpec => []OneEntryPerRound
<1>1. OrderVotesIInv => OneEntryPerRound
  BY DigestFacts DEF OrderVotesIInv, EntriesAreSound, OneEntryPerRound
<1>2. QED
  BY <1>1, OrderVotesInvariant, PTL

\* An honest quorum's order votes get the block ordered, or its certificate is
\* kept back, whatever was garbage collected and fetched in between.
THEOREM QuorumIsNotLost == OrderVotesSpec => []HonestQuorumOrders
<1>1. OrderVotesIInv => HonestQuorumOrders
  <2>1. SUFFICES ASSUME OrderVotesIInv, NEW d \in OrderDigests,
                        check_voting_power(heard_order_votes[d], TRUE),
                        ~ (highest_ordered_round >= LIRound[d]), d \notin kept_back
                 PROVE  FALSE
    BY DEF HonestQuorumOrders
  <2>2. LIRound[d] > highest_ordered_round
    BY <2>1, DigestFacts DEF OrderVotesIInv, OrderVotesTypeOK
  <2>3. EntryCollects(order_votes[d], heard_order_votes[d])
    BY <2>1, <2>2, IInvByEntry
  <2>4. heard_order_votes[d] # {}
    BY <2>1, EmptyIsNoQuorum
  <2>5. /\ order_votes[d] # None
        /\ heard_order_votes[d] \subseteq valid_voters(order_votes[d].signatures)
        /\ ~ check_voting_power(valid_voters(order_votes[d].signatures), TRUE)
    BY <2>3, <2>4 DEF EntryCollects
  <2>6. order_votes[d].signatures \in Signatures
    BY <2>1, <2>5, StatusFacts DEF OrderVotesIInv, OrderVotesTypeOK
  <2>7. /\ valid_voters(order_votes[d].signatures) \in SUBSET Validators
        /\ heard_order_votes[d] \in SUBSET Validators
    BY <2>5, <2>6, SignatureSets
  <2>8. QED
    BY <2>1, <2>5, <2>7, CheckMonotone
<1>2. QED
  BY <1>1, OrderVotesInvariant, PTL


=============================================================================
