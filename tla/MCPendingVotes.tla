---------------------------- MODULE MCPendingVotes ----------------------------
(***************************************************************************)
(* The two collectors of a validator, which share nothing but the authors  *)
(* that the verifier has caught: a behaviour follows one of them, with the *)
(* other one idle.  Five validators with voting powers 3, 1, 1 and 1, 1    *)
(* for the Byzantine pair (total 7, quorum 5, f = 2), or four with equal   *)
(* power.                                                                  *)
(***************************************************************************)
EXTENDS PendingVotes, PendingOrderVotes, FiniteSetsExt, TLC

CONSTANTS v1, v2, v3, b1, b2, d1, d2, o1, o2, x2, Collectors

MCPair == {b1, b2}
MCFive == {v1, v2, v3, b1, b2}
MCWeight == v1 :> 3 @@ v2 :> 1 @@ v3 :> 1 @@ b1 :> 1 @@ b2 :> 1
MCSumStake == [S \in SUBSET MCFive |-> MapThenSumSet(LAMBDA v : MCWeight[v], S)]

MCOne == {b1}
MCFour == {v1, v2, v3, b1}
MCSumEqual == [S \in SUBSET MCFour |-> Cardinality(S)]

MCSymmetry == Permutations({v2, v3}) \cup Permutations({b1, b2})
                  \cup Permutations({d1, d2})

\* Blocks of rounds 1 and 2, and one of round 2 that is not certified.
MCLIRound == o1 :> 1 @@ o2 :> 2 @@ x2 :> 2
MCParentDigest == o1 :> None @@ o2 :> o1

VARIABLE collector

MCInit ==
    /\ collector \in Collectors
    /\ Init
    /\ OrderVotesInit
    /\ collector = "order_votes" => \A v, w \in Honest : honest_vote[v] = honest_vote[w]

MCNext ==
    /\ UNCHANGED collector
    /\ \/ collector = "votes" /\ Next /\ UNCHANGED order_votes_state
       \/ collector = "order_votes" /\ OrderVotesNext /\ UNCHANGED votes_state

MCSpec == MCInit /\ [][MCNext]_<<collector, vars, order_votes_state>>

=============================================================================
