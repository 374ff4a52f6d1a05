-------------------------- MODULE ValidatorVerifier --------------------------
(***************************************************************************)
(* The voting-power arithmetic of types/src/validator_verifier.rs: the     *)
(* total voting power of a validator set, the power a certificate needs    *)
(* and the check an aggregated signature has to pass.                      *)
(*                                                                         *)
(* sum_voting_power is the function that gives every set of validators the *)
(* sum of its members' voting powers.  It is a constant so that the        *)
(* theorems hold for every distribution of stake; the MC modules define it *)
(* by summing concrete weights.                                            *)
(***************************************************************************)
EXTENDS Integers

CONSTANTS Validators,         \* the validators of the epoch
          Byzantine,          \* the ones that may sign anything
          sum_voting_power    \* [SUBSET Validators -> Nat]

\* Byzantine validators are validators.
ASSUME ByzantineAssumption == Byzantine \subseteq Validators

\* Summing voting powers is additive: a validator counts once, and the sum
\* starts from 0.
ASSUME VotingPowerAssumption ==
    /\ sum_voting_power \in [SUBSET Validators -> Nat]
    /\ sum_voting_power[{}] = 0
    /\ \A S, T \in SUBSET Validators :
          sum_voting_power[S \cup T] + sum_voting_power[S \cap T]
              = sum_voting_power[S] + sum_voting_power[T]
    /\ \A S, T \in SUBSET Validators :
          S \subseteq T => sum_voting_power[S] <= sum_voting_power[T]

Honest == Validators \ Byzantine

total_voting_power == sum_voting_power[Validators]

\* Mutant: two thirds, without the + 1.
quorum_voting_power_two_thirds ==
    IF Validators = {} THEN 0 ELSE (total_voting_power * 2) \div 3

\* ValidatorVerifier::new: more than two thirds of the power, or nothing at
\* all when the set is empty.
quorum_voting_power ==
    IF Validators = {} THEN 0 ELSE (total_voting_power * 2) \div 3 + 1

\* check_voting_power for a set of known authors: a quorum if
\* check_super_majority, else just too much power for the faulty ones alone.
check_voting_power(authors, check_super_majority) ==
    LET target == IF check_super_majority
                  THEN quorum_voting_power
                  ELSE total_voting_power - quorum_voting_power + 1
    IN  sum_voting_power[authors] >= target

\* The sets of signers whose aggregated signature verifies.
Quorums == {S \in SUBSET Validators : check_voting_power(S, TRUE)}

\* The fault bound the protocol is designed for: the Byzantine validators
\* hold at most f units, where quorum = total - f.
ASSUME FaultAssumption ==
    sum_voting_power[Byzantine] <= total_voting_power - quorum_voting_power

=============================================================================
