------------------------------ MODULE MCTwoChain ------------------------------
(***************************************************************************)
(* Small instances of TwoChain: four validators, one of them Byzantine,    *)
(* and one of two block trees.                                             *)
(*   - "chain": a1 <- a2 in rounds 1 and 2, and c3 of round 3 that forks   *)
(*     from genesis: the 2-chain commit of a1 against a late fork;         *)
(*   - "fork": a1 <- a2 and the forks e1 and c2 in the same rounds, and a  *)
(*     block w1 that is not well formed: order votes against forks.        *)
(***************************************************************************)
EXTENDS TwoChain, FiniteSetsExt, TLC

CONSTANTS v1, v2, v3, b1

MCVoters == {v1, v2, v3, b1}
MCByzantine == {b1}

\* Equal stake.
MCSumEqual == [S \in SUBSET MCVoters |-> Cardinality(S)]

\* Unequal stake: total 7, quorum 5, at most 2 Byzantine.
MCWeight == v1 :> 3 @@ v2 :> 1 @@ v3 :> 1 @@ b1 :> 2
MCSumStake == [S \in SUBSET MCVoters |-> MapThenSumSet(LAMBDA v : MCWeight[v], S)]

\* The block trees as tables of rounds and parents.
ChainRound == "g" :> 0 @@ "a1" :> 1 @@ "a2" :> 2 @@ "c3" :> 3
ChainParent == "g" :> "g" @@ "a1" :> "g" @@ "a2" :> "a1" @@ "c3" :> "g"
ForkRound == "g" :> 0 @@ "a1" :> 1 @@ "e1" :> 1 @@ "w1" :> 1
                 @@ "a2" :> 2 @@ "c2" :> 2
ForkParent == "g" :> "g" @@ "a1" :> "g" @@ "e1" :> "g" @@ "w1" :> "a1"
                 @@ "a2" :> "a1" @@ "c2" :> "g"

\* Ancestors by iterating the parent as often as there are blocks.
AncestorsOf(parent) ==
    LET n == Cardinality(DOMAIN parent)
        up[i \in 0 .. n] ==
            [b \in DOMAIN parent |->
                IF i = 0 THEN {b} ELSE {b} \cup up[i - 1][parent[b]]]
    IN  up[n]

ChainBlocks == DOMAIN ChainRound
ForkBlocks == DOMAIN ForkRound
ChainAncestors == AncestorsOf(ChainParent)
ForkAncestors == AncestorsOf(ForkParent)

\* Honest validators with the same stake are interchangeable.
MCSymmetry == Permutations({v1, v2, v3})
MCStakeSymmetry == Permutations({v2, v3})

=============================================================================
