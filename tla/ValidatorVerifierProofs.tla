----------------------- MODULE ValidatorVerifierProofs -----------------------
(***************************************************************************)
(* What the voting-power thresholds guarantee, for every distribution of   *)
(* stake within the fault bound.                                           *)
(***************************************************************************)
EXTENDS ValidatorVerifier, TLAPS

\* The threshold of ValidatorVerifier::new is more than two thirds.
LEMMA QuorumMoreThanTwoThirds ==
    ASSUME Validators # {}
    PROVE  /\ total_voting_power \in Nat
           /\ quorum_voting_power \in Nat
           /\ 3 * quorum_voting_power > 2 * total_voting_power
<1>1. total_voting_power \in Nat
  BY VotingPowerAssumption DEF total_voting_power
<1>2. \A t \in Nat : /\ (t * 2) \div 3 + 1 \in Nat
                     /\ 3 * ((t * 2) \div 3 + 1) > 2 * t
  OBVIOUS
<1>3. QED
  BY <1>1, <1>2 DEF quorum_voting_power

\* Two sets of signers that both pass check_voting_power share an honest
\* validator: the fact every certificate of consensus rests on.
THEOREM QuorumIntersection ==
    ASSUME NEW S \in SUBSET Validators, NEW T \in SUBSET Validators,
           check_voting_power(S, TRUE), check_voting_power(T, TRUE),
           Validators # {}
    PROVE  \E v \in Honest : v \in S /\ v \in T
<1> DEFINE p(U) == sum_voting_power[U]
<1>1. /\ p(S) \in Nat /\ p(T) \in Nat /\ p(S \cup T) \in Nat
      /\ p(S \cap T) \in Nat /\ p(Byzantine) \in Nat
      /\ p(S \cup T) <= total_voting_power
      /\ p(S \cup T) + p(S \cap T) = p(S) + p(T)
  BY VotingPowerAssumption, ByzantineAssumption DEF total_voting_power
<1>2. p(S) >= quorum_voting_power /\ p(T) >= quorum_voting_power
  BY DEF check_voting_power
<1>3. p(Byzantine) <= total_voting_power - quorum_voting_power
  BY FaultAssumption
<1>4. p(S \cap T) > p(Byzantine)
  BY <1>1, <1>2, <1>3, QuorumMoreThanTwoThirds
<1>5. ~ (S \cap T \subseteq Byzantine)
  <2>1. SUFFICES ASSUME S \cap T \subseteq Byzantine
                 PROVE  FALSE
    OBVIOUS
  <2>2. p(S \cap T) <= p(Byzantine)
    BY <2>1, VotingPowerAssumption, ByzantineAssumption
  <2>3. QED
    BY <1>1, <1>4, <2>2
<1>6. QED
  BY <1>5 DEF Honest

\* A set that passes the f + 1 check (check_super_majority = false), the one
\* that makes a validator join a timeout, contains an honest validator.
THEOREM WeakQuorumHasHonest ==
    ASSUME NEW S \in SUBSET Validators, check_voting_power(S, FALSE),
           Validators # {}
    PROVE  S \cap Honest # {}
<1>1. SUFFICES ASSUME S \subseteq Byzantine
               PROVE  FALSE
  BY DEF Honest
<1>2. sum_voting_power[S] <= sum_voting_power[Byzantine]
  BY <1>1, VotingPowerAssumption, ByzantineAssumption
<1>3. /\ sum_voting_power[S] \in Nat
      /\ sum_voting_power[Byzantine] \in Nat
  BY VotingPowerAssumption, ByzantineAssumption
<1>4. sum_voting_power[S] >= total_voting_power - quorum_voting_power + 1
  BY DEF check_voting_power
<1>5. QED
  BY <1>2, <1>3, <1>4, FaultAssumption, QuorumMoreThanTwoThirds

=============================================================================
