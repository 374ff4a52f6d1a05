-------------------------- MODULE PendingOrderVotes --------------------------
(***************************************************************************)
(* The order votes that one validator collects over the rounds of an epoch *)
(* (consensus/src/pending_order_votes.rs) and the round manager around it: *)
(* the window of rounds it listens to, the garbage collection when a round *)
(* begins, and what becomes of an order certificate.  The block store is   *)
(* seen through the blocks and QCs it holds and what is ordered.           *)
(*                                                                         *)
(* Honest validators order-vote for certified blocks only, with their QC.  *)
(* Byzantine ones send any order vote, with any signature, and a QC that   *)
(* need not verify: it is looked at only in the first vote for a block.    *)
(***************************************************************************)
EXTENDS SignatureAggregator

CONSTANTS OrderDigests,      \* ledger infos order-voted for
          CertifiedDigests,  \* the ones whose block has a QC that verifies
          LIRound,           \* the round of each
          ParentDigest,      \* the parent of each certified block, or None
          OrderVoteWindow    \* 100 in the code

\* OrderVoteStatus: the signatures, and the signers of the certificate if it
\* has been formed.
OrderVoteStatus ==
    [signatures : Signatures, certificate : (SUBSET Validators) \cup {None}]

ASSUME OrderVotesAssumption ==
    /\ None \notin OrderVoteStatus
    /\ CertifiedDigests \subseteq OrderDigests /\ None \notin OrderDigests
    /\ LIRound \in [OrderDigests -> Nat \ {0}]
    /\ ParentDigest \in [CertifiedDigests -> CertifiedDigests \cup {None}]
    /\ OrderVoteWindow \in Nat
    \* TwoChain!UniqueCertifiedBlock
    /\ \A c, d \in CertifiedDigests : LIRound[c] = LIRound[d] => c = d

VARIABLES
    order_votes,            \* per digest None, or [signatures, certificate]
    blocks_stored,          \* the block store: blocks,
    qcs_stored,             \*   QCs
    highest_ordered_round,  \*   and the round of the last ordered block
    current_round,
    heard_order_votes,      \* honest authors whose vote for a digest was in range
    kept_back               \* certificates that could not be inserted

order_votes_state == <<order_votes, blocks_stored, qcs_stored, highest_ordered_round,
                       current_round, heard_order_votes, kept_back>>

\* PendingOrderVotes::new().  Other collectors of the epoch may have caught
\* authors.
OrderVotesInit ==
    /\ order_votes = [d \in OrderDigests |-> None]
    /\ blocks_stored = {} /\ qcs_stored = {}
    /\ highest_ordered_round = 0
    /\ current_round = 1
    /\ heard_order_votes = [d \in OrderDigests |-> {}]
    /\ kept_back = {}
    /\ pessimistic_verify_set \in SUBSET Byzantine

-----------------------------------------------------------------------------
(* The collector.                                                          *)

Later(a, b) == IF a > b THEN a ELSE b

has_enough_order_votes(d) == order_votes[d] # None /\ order_votes[d].certificate # None

\* Mutant: the votes of the next round go as well.
garbage_collect_one_more(votes, round) ==
    [d \in OrderDigests |-> IF LIRound[d] > round + 1 THEN votes[d] ELSE None]

garbage_collect(votes, round) ==
    [d \in OrderDigests |-> IF LIRound[d] > round THEN votes[d] ELSE None]

\* RoundState::process_certificates, and process_new_round_event if the
\* certificates start a round: the votes that are kept.
VotesAfter(votes, round, ordered) ==
    IF round > current_round THEN garbage_collect(votes, ordered) ELSE votes

\* Mutant: an f + 1 is enough.
enough_power_weak(signatures) == check_voting_power(voters(signatures), FALSE)

enough_power(signatures) == check_voting_power(voters(signatures), TRUE)

\* What OrderVoteMsg::verify_order_vote lets through.
VerifiedOrderVote(author, d, valid, qc_valid) ==
    /\ qc_valid => d \in CertifiedDigests
    /\ author \in Honest => valid /\ qc_valid
    /\ PassesOptimisticVerify(author, valid)

\* Mutant: the QC is not verified.
accepts_any_qc(d, qc_valid) ==
    /\ ~has_enough_order_votes(d)
    /\ LIRound[d] > highest_ordered_round
    /\ LIRound[d] < highest_ordered_round + OrderVoteWindow

\* process_order_vote_msg up to insert_order_vote.
accepts(d, qc_valid) ==
    /\ ~has_enough_order_votes(d)
    /\ LIRound[d] > highest_ordered_round
    /\ LIRound[d] < highest_ordered_round + OrderVoteWindow
    /\ order_votes[d] = None => qc_valid

\* The signatures with this one.
WithSignature(author, d, valid) ==
    [(IF order_votes[d] = None THEN [v \in Validators |-> "none"]
                               ELSE order_votes[d].signatures)
        EXCEPT ![author] = IF valid THEN "valid" ELSE "invalid"]

WithEntry(d, signatures, certificate) ==
    [order_votes EXCEPT ![d] = [signatures |-> signatures, certificate |-> certificate]]

Hear(author, d) ==
    heard_order_votes' = [heard_order_votes EXCEPT ![d] = @ \cup ({author} \cap Honest)]

\* There is a certificate already, the round is out of range or the QC does
\* not verify.
IgnoreOrderVote(author, d, valid, qc_valid) ==
    /\ VerifiedOrderVote(author, d, valid, qc_valid)
    /\ ~accepts(d, qc_valid)
    /\ UNCHANGED <<order_votes_state, pessimistic_verify_set>>

InsertOrderVotePending(author, d, valid, qc_valid) ==
    LET signatures == WithSignature(author, d, valid)
    IN  /\ VerifiedOrderVote(author, d, valid, qc_valid)
        /\ accepts(d, qc_valid)
        /\ ~enough_power(signatures)
        /\ order_votes' = WithEntry(d, signatures, None)
        /\ Hear(author, d)
        /\ UNCHANGED <<blocks_stored, qcs_stored, highest_ordered_round, current_round,
                       kept_back, pessimistic_verify_set>>

\* The certificate stays with the votes, but is not inserted: its block is not
\* there, or its QC cannot be saved.
KeepBack(d, votes) ==
    /\ d \notin qcs_stored
    /\ order_votes' = votes
    /\ kept_back' = kept_back \cup {d}
    /\ UNCHANGED <<qcs_stored, highest_ordered_round, current_round>>

\* The round ordered by the QC of d: its parent's, if it is the one before.
OrderedByQC(d) ==
    IF d \in CertifiedDigests /\ ParentDigest[d] # None
       /\ LIRound[ParentDigest[d]] + 1 = LIRound[d]
    THEN LIRound[ParentDigest[d]] ELSE 0

\* new_ordered_cert: the QC, if it is new, then whatever round it starts, then
\* the certificate.
NewOrderedCert(d, votes) ==
    LET ordered == Later(highest_ordered_round, IF d \in qcs_stored THEN 0 ELSE OrderedByQC(d))
        round == Later(current_round, IF d \in qcs_stored THEN 0 ELSE LIRound[d] + 1)
    IN  /\ d \in blocks_stored
        /\ qcs_stored' = qcs_stored \cup {d}
        /\ current_round' = round
        /\ order_votes' = VotesAfter(votes, round, ordered)
        /\ highest_ordered_round' = Later(ordered, LIRound[d])
        /\ UNCHANGED kept_back

InsertOrderVoteQuorum(author, d, valid, qc_valid) ==
    LET signatures == WithSignature(author, d, valid)
    IN  /\ VerifiedOrderVote(author, d, valid, qc_valid)
        /\ accepts(d, qc_valid)
        /\ enough_power(signatures)
        /\ \E verifies \in MayVerify(signatures) :
              LET aggregated == aggregate_and_verify(signatures, verifies)
                  votes == WithEntry(d, aggregated.signatures, aggregated.signers)
              IN  /\ pessimistic_verify_set' = pessimistic_verify_set \cup aggregated.invalid
                  /\ IF aggregated.signers # None
                     THEN KeepBack(d, votes) \/ NewOrderedCert(d, votes)
                     ELSE /\ order_votes' = votes
                          /\ UNCHANGED <<qcs_stored, highest_ordered_round, current_round,
                                         kept_back>>
        /\ Hear(author, d)
        /\ UNCHANGED blocks_stored

-----------------------------------------------------------------------------
(* What else the round manager does meanwhile.                             *)

\* A proposal: its parent's QC is there.
ReceiveBlock(d) ==
    /\ LIRound[d] > highest_ordered_round
    /\ ParentDigest[d] \in qcs_stored \cup {None}
    /\ blocks_stored' = blocks_stored \cup {d}
    /\ UNCHANGED <<order_votes, qcs_stored, highest_ordered_round, current_round,
                   heard_order_votes, kept_back, pessimistic_verify_set>>

\* A QC for a block that is there, from votes or a later proposal.
NewQC(d) ==
    LET ordered == Later(highest_ordered_round, OrderedByQC(d))
        round == Later(current_round, LIRound[d] + 1)
    IN  /\ d \in blocks_stored \ qcs_stored
        /\ LIRound[d] >= highest_ordered_round
        /\ qcs_stored' = qcs_stored \cup {d}
        /\ highest_ordered_round' = ordered
        /\ current_round' = round
        /\ order_votes' = VotesAfter(order_votes, round, ordered)
        /\ UNCHANGED <<blocks_stored, heard_order_votes, kept_back, pessimistic_verify_set>>

\* sync_up with a peer that has ordered d: everything up to it is fetched.
SyncUp(d) ==
    LET fetched == {c \in CertifiedDigests : LIRound[c] <= LIRound[d]}
        round == Later(current_round, LIRound[d] + 1)
        ordered == Later(highest_ordered_round, LIRound[d])
    IN  /\ LIRound[d] > highest_ordered_round
        /\ blocks_stored' = blocks_stored \cup fetched
        /\ qcs_stored' = qcs_stored \cup fetched
        /\ highest_ordered_round' = ordered
        /\ current_round' = round
        /\ order_votes' = VotesAfter(order_votes, round, ordered)
        /\ UNCHANGED <<heard_order_votes, kept_back, pessimistic_verify_set>>

\* A TC for the round of a block that few have received.
NewTC(d) ==
    LET round == Later(current_round, LIRound[d] + 1)
    IN  /\ current_round' = round
        /\ order_votes' = VotesAfter(order_votes, round, highest_ordered_round)
        /\ UNCHANGED <<blocks_stored, qcs_stored, highest_ordered_round,
                       heard_order_votes, kept_back, pessimistic_verify_set>>

OrderVotesNext ==
    \/ \E author \in Validators, d \in OrderDigests, valid, qc_valid \in BOOLEAN :
          \/ IgnoreOrderVote(author, d, valid, qc_valid)
          \/ InsertOrderVotePending(author, d, valid, qc_valid)
          \/ InsertOrderVoteQuorum(author, d, valid, qc_valid)
    \/ \E d \in CertifiedDigests : ReceiveBlock(d) \/ NewQC(d) \/ SyncUp(d) \/ NewTC(d)

OrderVotesSpec ==
    OrderVotesInit /\ [][OrderVotesNext]_<<order_votes_state, pessimistic_verify_set>>

-----------------------------------------------------------------------------
(* Properties.                                                             *)

OrderVotesTypeOK ==
    /\ order_votes \in [OrderDigests -> OrderVoteStatus \cup {None}]
    /\ blocks_stored \subseteq CertifiedDigests
    /\ qcs_stored \subseteq CertifiedDigests
    /\ highest_ordered_round \in Nat
    /\ current_round \in Nat
    /\ heard_order_votes \in [OrderDigests -> SUBSET Honest]
    /\ kept_back \subseteq OrderDigests
    /\ pessimistic_verify_set \subseteq Byzantine

\* Every order certificate verifies and is for a block that is certified,
\* although the QC of most order votes is never looked at.
OrderCertsVerify ==
    \A d \in OrderDigests : has_enough_order_votes(d) =>
        LET signers == order_votes[d].certificate
        IN  /\ check_voting_power(signers, TRUE)
            /\ d \in CertifiedDigests
            /\ Cardinality(signers \ valid_voters(order_votes[d].signatures)) # 1

\* Byzantine validators cannot fill the memory: there are votes for one ledger
\* info of a round only, although nothing limits how many an author sends.
OneEntryPerRound ==
    \A c, d \in OrderDigests :
        order_votes[c] # None /\ order_votes[d] # None /\ LIRound[c] = LIRound[d] => c = d

\* When the order votes of an honest quorum have come in, whatever was
\* collected, forgotten and ordered in between, the block is ordered; only a
\* certificate made before its block came, or whose QC could not be saved, is
\* left to a later SyncInfo (new_qc_from_order_vote_msg).
HonestQuorumOrders ==
    \A d \in OrderDigests :
        check_voting_power(heard_order_votes[d], TRUE) =>
            highest_ordered_round >= LIRound[d] \/ d \in kept_back

\* Votes are kept for certified blocks only, and an honest author's signature
\* is not among the invalid ones.
EntriesAreSound ==
    \A d \in OrderDigests : order_votes[d] # None =>
        /\ d \in CertifiedDigests
        /\ invalid_voters(order_votes[d].signatures) \subseteq Byzantine

\* As long as a block is neither ordered nor its certificate kept back, every
\* honest vote that came for it is still collected, and the valid ones are no
\* quorum: garbage collection has not touched them.
OrderVotesStillCollected ==
    \A d \in OrderDigests :
        LIRound[d] > highest_ordered_round /\ d \notin kept_back =>
            /\ order_votes[d] = None => heard_order_votes[d] = {}
            /\ order_votes[d] # None =>
                  /\ order_votes[d].certificate = None
                  /\ heard_order_votes[d] \subseteq valid_voters(order_votes[d].signatures)
                  /\ ~check_voting_power(valid_voters(order_votes[d].signatures), TRUE)

\* The invariant module PendingVotesProofs shows to be inductive.
OrderVotesIInv ==
    /\ OrderVotesTypeOK
    /\ EntriesAreSound
    /\ OrderCertsVerify
    /\ OrderVotesStillCollected

=============================================================================
