------------------------------- MODULE TwoChain -------------------------------
(***************************************************************************)
(* One epoch of AptosBFT with the 2-chain rules and order votes, as a      *)
(* network of validators sees it.  Honest validators sign only what their  *)
(* SafetyRules lets through; the module records everything they ever       *)
(* signed.  Signed messages may be delayed, duplicated, reordered or lost: *)
(* a certificate is available as soon as enough signatures for it exist,   *)
(* and nobody is obliged to use it.  Byzantine validators sign everything, *)
(* so a certificate only needs the signatures of the honest part of a      *)
(* quorum.  A restart changes nothing here: the state of this module is    *)
(* what the code persists before it releases a signature (module           *)
(* SafetyRules models that write).                                         *)
(***************************************************************************)
EXTENDS ValidatorVerifier, TwoChainRules

CONSTANTS Blocks,      \* every block anybody may ever propose
          Genesis,     \* the epoch's genesis block
          BlockRound,  \* the round of a block
          Parent,      \* the block certified by the QC inside a block
          Ancestors,   \* a block and all its ancestors
          None         \* Option::None

\* An epoch has validators.
ASSUME ValidatorsAssumption == Validators # {}

\* Blocks form a tree that hangs from genesis, the only block of round 0.
ASSUME BlocksAssumption ==
    /\ Genesis \in Blocks
    /\ None \notin Blocks
    /\ BlockRound \in [Blocks -> Round]
    /\ Parent \in [Blocks -> Blocks]
    /\ Ancestors \in [Blocks -> SUBSET Blocks]
    /\ Parent[Genesis] = Genesis
    /\ \A b \in Blocks : BlockRound[b] = 0 <=> b = Genesis
    /\ \A b \in Blocks \ {Genesis} : Ancestors[b] = {b} \cup Ancestors[Parent[b]]
    /\ Ancestors[Genesis] = {Genesis}

VARIABLES
    safety_data,  \* [Honest -> SafetyData]
    votes,        \* the honest validators that signed a vote for a block
    timeouts,     \* the ones that signed a TimeoutSigningRepr
    order_votes   \* the ones that signed an order vote for a block

vars == <<safety_data, votes, timeouts, order_votes>>

SafetyData == [last_voted_round : Round, preferred_round : Round,
               one_chain_round : Round, highest_timeout_round : Round,
               last_vote : Blocks \cup {None}]

InitialSafetyData ==
    [last_voted_round |-> 0, preferred_round |-> 0, one_chain_round |-> 0,
     highest_timeout_round |-> 0, last_vote |-> None]

Init ==
    /\ safety_data = [v \in Honest |-> InitialSafetyData]
    /\ votes = [b \in Blocks |-> {}]
    /\ timeouts = [t \in Timeout |-> {}]
    /\ order_votes = [b \in Blocks |-> {}]

-----------------------------------------------------------------------------
(* Certificates.                                                           *)

\* A certificate that the honest validators in S signed can be put
\* together: the Byzantine ones add their signatures.
QuorumSigned(S) == check_voting_power(S \cup Byzantine, TRUE)

\* QuorumCert::verify for the QC of block b: the genesis block needs no
\* signatures, any other block those of a quorum.
Certified(b) == b = Genesis \/ QuorumSigned(votes[b])

\* The honest validators that signed a timeout of the round with a QC not
\* above hqc_round.
TimeoutSigners(round, hqc_round) ==
    UNION {timeouts[[round |-> round, hqc_round |-> h]] : h \in 0 .. hqc_round}

\* TwoChainTimeoutCertificate::verify: a QC of the highest round is carried,
\* a quorum signed the round, and the carried QC's round is the maximum of
\* the rounds that were signed.
TimeoutCertified(tc) ==
    /\ QuorumSigned(TimeoutSigners(tc.round, tc.hqc_round))
    /\ timeouts[tc] # {} \/ Byzantine # {}
    /\ \E b \in Blocks : BlockRound[b] = tc.hqc_round /\ Certified(b)

\* What can be passed as an optional timeout certificate and survives
\* verify_tc: None, or a certificate that verifies.
VerifiedTC == {NoTC} \cup {tc \in Timeout : TimeoutCertified(tc)}

\* verify_proposal: the QC in the block verifies and the block is well
\* formed (Block::verify_well_formed, the rounds of it).
verify_proposal(b) ==
    /\ b # Genesis
    /\ Certified(Parent[b])
    /\ BlockRound[Parent[b]] < BlockRound[b]

-----------------------------------------------------------------------------
(* The three signing operations of an honest validator.  A request that    *)
(* fails a check, and a repeated request that is answered with the vote    *)
(* signed before, change nothing here; hence the order of the checks, which *)
(* decides the error a caller sees, does not show.  A caller may pass any  *)
(* TC that verifies, or none; the TC is only read by the safety rule, so a *)
(* signature is possible if there is one that the rule accepts.            *)

\* The certificates, or none, with which a vote for b passes safe_to_vote.
TCsToVote(b) ==
    {tc \in VerifiedTC : safe_to_vote(BlockRound[b], BlockRound[Parent[b]], tc)}

\* The ones with which v's timeout passes safe_to_timeout.
TCsToTimeout(v, round, qc) ==
    {tc \in VerifiedTC :
        safe_to_timeout(round, BlockRound[qc], tc, safety_data[v])}

\* Mutant: locks on the round of the proposed block instead of its QC's.
ConstructAndSignVoteLocksProposal(v, b) ==
    LET sd == safety_data[v]
    IN  /\ BlockRound[b] > sd.last_voted_round
        /\ sd.last_vote # None => BlockRound[sd.last_vote] # BlockRound[b]
        /\ verify_proposal(b)
        /\ TCsToVote(b) # {}
        /\ safety_data' = [safety_data EXCEPT ![v] =
              observe_qc([sd EXCEPT !.last_voted_round = BlockRound[b],
                                    !.last_vote = b],
                         BlockRound[b], BlockRound[Parent[b]])]
        /\ votes' = [votes EXCEPT ![b] = @ \cup {v}]
        /\ UNCHANGED <<timeouts, order_votes>>

ConstructAndSignVote(v, b) ==
    LET sd == safety_data[v]
    IN  /\ BlockRound[b] > sd.last_voted_round
        /\ sd.last_vote # None => BlockRound[sd.last_vote] # BlockRound[b]
        /\ verify_proposal(b)
        /\ TCsToVote(b) # {}
        /\ safety_data' = [safety_data EXCEPT ![v] =
              observe_qc([sd EXCEPT !.last_voted_round = BlockRound[b],
                                    !.last_vote = b],
                         BlockRound[Parent[b]], BlockRound[Parent[Parent[b]]])]
        /\ votes' = [votes EXCEPT ![b] = @ \cup {v}]
        /\ UNCHANGED <<timeouts, order_votes>>

\* qc is the block certified by the QC the timeout carries.
SignTimeoutWithQC(v, round, qc) ==
    LET sd == safety_data[v]
        hqc_round == BlockRound[qc]
    IN  /\ round >= sd.last_voted_round
        /\ hqc_round < round
        /\ Certified(qc)
        /\ TCsToTimeout(v, round, qc) # {}
        /\ safety_data' = [safety_data EXCEPT ![v] =
              update_highest_timeout_round(
                  [sd EXCEPT !.last_voted_round = MaxRound(round, @)], round)]
        /\ timeouts' = [timeouts EXCEPT
              ![[round |-> round, hqc_round |-> hqc_round]] = @ \cup {v}]
        /\ UNCHANGED <<votes, order_votes>>

ConstructAndSignOrderVote(v, b) ==
    LET sd == observe_qc(safety_data[v], BlockRound[b], BlockRound[Parent[b]])
    IN  /\ Certified(b)
        /\ safe_for_order_vote(BlockRound[b], sd)
        /\ safety_data' = [safety_data EXCEPT ![v] = sd]
        /\ order_votes' = [order_votes EXCEPT ![b] = @ \cup {v}]
        /\ UNCHANGED <<votes, timeouts>>

Next ==
    \/ \E v \in Honest, b \in Blocks : ConstructAndSignVote(v, b)
    \/ \E v \in Honest, round \in Round, qc \in Blocks :
          SignTimeoutWithQC(v, round, qc)
    \/ \E v \in Honest, b \in Blocks : ConstructAndSignOrderVote(v, b)

Spec == Init /\ [][Next]_vars

-----------------------------------------------------------------------------
(* What the network orders.                                                *)

\* The QC of a child in the next round carries b as its commit_info.
OrderedByQC(b) ==
    \E c \in Blocks \ {Genesis} :
        /\ Parent[c] = b
        /\ commits_parent(BlockRound[b], BlockRound[c])
        /\ Certified(c)

\* A quorum of order votes for b.
OrderedByVotes(b) == QuorumSigned(order_votes[b])

Ordered(b) == OrderedByQC(b) \/ OrderedByVotes(b)

CertifiedBlocks == {b \in Blocks : Certified(b)}
OrderedBlocks == {b \in Blocks : Ordered(b)}

-----------------------------------------------------------------------------
(* Properties.                                                             *)

\* Every persisted round is a u64 and every signature is about a block or a
\* round of the epoch.
TypeOK ==
    /\ safety_data \in [Honest -> SafetyData]
    /\ votes \in [Blocks -> SUBSET Honest]
    /\ timeouts \in [Timeout -> SUBSET Honest]
    /\ order_votes \in [Blocks -> SUBSET Honest]

\* Two ordered blocks are on one chain: whichever way the signatures of the
\* 2-chain commit rule and of the order votes were collected, no two
\* validators hand conflicting blocks to execution.
Agreement ==
    \A b1, b2 \in OrderedBlocks :
        b1 \in Ancestors[b2] \/ b2 \in Ancestors[b1]

\* At most one block per round is certified: two QCs of one round certify
\* the same block, which is what lets a timeout sign a round, not a QC.
UniqueCertifiedBlock ==
    \A b1, b2 \in CertifiedBlocks :
        BlockRound[b1] = BlockRound[b2] => b1 = b2

\* An ordered block is locked in: every certified block of its round or of a
\* later one extends it, so no later QC can ever leave the ordered chain.
CertifiedExtendsOrdered ==
    \A b \in OrderedBlocks, c \in CertifiedBlocks :
        BlockRound[c] >= BlockRound[b] => b \in Ancestors[c]

\* Rounds that a QC or a TC proves to have ended.
EndedRounds ==
    {BlockRound[b] : b \in CertifiedBlocks}
        \cup {tc.round : tc \in VerifiedTC}

\* No honest validator is ever locked out: with the certificates that exist,
\* each of them can sign a timeout of the round after the highest certified
\* one, so a new timeout certificate can always be formed.  (A round beyond
\* the last u64 does not exist; there next_round returns an error.)
TimeoutAlwaysPossible ==
    \A r \in EndedRounds \ {U64Max} :
        (\A s \in EndedRounds : s <= r) =>
            \A v \in Honest : \E qc \in CertifiedBlocks, tc \in VerifiedTC :
                /\ BlockRound[qc] <= r
                /\ safe_to_timeout(r + 1, BlockRound[qc], tc, safety_data[v])
                /\ r + 1 >= safety_data[v].last_voted_round

\* Persisted rounds never go back: a vote overwrites last_voted_round, and a
\* QC or a timeout that arrives late must not lower what is remembered.
SafetyDataNeverRegresses ==
    [][\A v \in Honest :
         /\ safety_data'[v].last_voted_round >= safety_data[v].last_voted_round
         /\ safety_data'[v].one_chain_round >= safety_data[v].one_chain_round
         /\ safety_data'[v].preferred_round >= safety_data[v].preferred_round
         /\ safety_data'[v].highest_timeout_round
                >= safety_data[v].highest_timeout_round]_vars

-----------------------------------------------------------------------------
(* The inductive invariant behind Agreement: what the persisted rounds say *)
(* about the signatures released so far.                                   *)

\* last_voted_round covers every vote and timeout, highest_timeout_round
\* every timeout.
RoundsCoverSignatures ==
    \A v \in Honest :
        /\ \A b \in Blocks :
              v \in votes[b] => BlockRound[b] <= safety_data[v].last_voted_round
        /\ \A t \in Timeout : v \in timeouts[t] =>
              /\ t.round <= safety_data[v].last_voted_round
              /\ t.round <= safety_data[v].highest_timeout_round

\* An honest validator votes for at most one block of a round.
VotesOncePerRound ==
    \A v \in Honest, b1, b2 \in Blocks :
        v \in votes[b1] /\ v \in votes[b2] /\ BlockRound[b1] = BlockRound[b2]
            => b1 = b2

\* one_chain_round covers the QC of every block voted for, and the QC of
\* every block order-voted for; it is itself the round of a QC.
OneChainCoversQCs ==
    \A v \in Honest :
        /\ \A b \in Blocks : v \in votes[b] =>
              BlockRound[Parent[b]] <= safety_data[v].one_chain_round
        /\ \A b \in Blocks : v \in order_votes[b] =>
              BlockRound[b] <= safety_data[v].one_chain_round
        /\ \E b \in CertifiedBlocks :
              BlockRound[b] = safety_data[v].one_chain_round

\* A timeout of the round of a vote, or of a later round, carries a QC at
\* least as high as the one in the block voted for ...
TimeoutCarriesVotedQC ==
    \A v \in Honest, b \in Blocks, t \in Timeout :
        v \in votes[b] /\ v \in timeouts[t] /\ t.round >= BlockRound[b]
            => t.hqc_round >= BlockRound[Parent[b]]

\* ... and at least as high as the QC of a block order-voted for.
TimeoutCarriesOrderVotedQC ==
    \A v \in Honest, b \in Blocks, t \in Timeout :
        v \in order_votes[b] /\ v \in timeouts[t] /\ t.round >= BlockRound[b]
            => t.hqc_round >= BlockRound[b]

\* A block gets an honest vote only if its parent is certified in an earlier
\* round: the round before, or one that a TC allows to extend.
VotesAreJustified ==
    \A b \in Blocks : votes[b] # {} =>
        /\ b # Genesis
        /\ Certified(Parent[b])
        /\ BlockRound[Parent[b]] < BlockRound[b]
        /\ \/ BlockRound[b] = BlockRound[Parent[b]] + 1
           \/ \E tc \in Timeout :
                 /\ TimeoutCertified(tc)
                 /\ BlockRound[b] = tc.round + 1
                 /\ BlockRound[Parent[b]] >= tc.hqc_round

\* Order votes are for certified blocks after genesis.
OrderVotesAreJustified ==
    \A b \in Blocks : order_votes[b] # {} => b # Genesis /\ Certified(b)

\* Nobody signs in a round before the one before it has ended.
RoundsFollowCertificates ==
    \A v \in Honest : \E r \in EndedRounds :
        safety_data[v].last_voted_round <= r + 1

IInv ==
    /\ TypeOK
    /\ RoundsCoverSignatures
    /\ VotesOncePerRound
    /\ OneChainCoversQCs
    /\ TimeoutCarriesVotedQC
    /\ TimeoutCarriesOrderVotedQC
    /\ VotesAreJustified
    /\ OrderVotesAreJustified
    /\ RoundsFollowCertificates

=============================================================================
