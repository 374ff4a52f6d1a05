---------------------------- MODULE TwoChainRules ----------------------------
(***************************************************************************)
(* The decision rules of consensus/safety-rules: pure functions of the     *)
(* rounds a validator has persisted (its SafetyData) and of the rounds in  *)
(* the certificates it is shown.  The modules TwoChain (a network of       *)
(* validators) and SafetyRules (one validator in detail) both build their  *)
(* actions from these operators.                                           *)
(***************************************************************************)
EXTENDS Integers

CONSTANT U64Max   \* the largest round: u64::MAX in the code

\* The model keeps rounds in the range of their type.
ASSUME U64MaxAssumption == U64Max \in Nat \ {0}

Round == 0 .. U64Max

\* What a validator signs when it times out (TimeoutSigningRepr), and what
\* the rules read of a timeout certificate.  TwoChainTimeout::verify, which
\* both pass, demands a QC from an earlier round.
Timeout ==
    {t \in [round : Round, hqc_round : Round] : t.hqc_round < t.round}

\* No timeout certificate: maybe_tc.map_or(0, ..) reads both rounds as 0.
NoTC == [round |-> 0, hqc_round |-> 0]

\* `round == next_round(r)?`: false when the checked addition overflows.
is_next_round(round, r) == r < U64Max /\ round = r + 1

\* Mutant: the timeout certificate's QC round is not compared.
safe_to_vote_any_qc(round, qc_round, tc) ==
    /\ qc_round < U64Max
    /\ is_next_round(round, qc_round) \/ is_next_round(round, tc.round)

(***************************************************************************)
(* safe_to_vote.  next_round(qc_round) is evaluated first and its overflow *)
(* is an error whatever the timeout certificate says.                      *)
(***************************************************************************)
safe_to_vote(round, qc_round, tc) ==
    /\ qc_round < U64Max
    /\ \/ is_next_round(round, qc_round)
       \/ is_next_round(round, tc.round) /\ qc_round >= tc.hqc_round

safe_to_timeout(round, qc_round, tc, safety_data) ==
    /\ qc_round < U64Max
    /\ is_next_round(round, qc_round) \/ is_next_round(round, tc.round)
    /\ qc_round >= safety_data.one_chain_round

\* Mutant: off by one, an order vote in the round that was timed out.
safe_for_order_vote_off_by_one(round, safety_data) ==
    round >= safety_data.highest_timeout_round

safe_for_order_vote(round, safety_data) ==
    round > safety_data.highest_timeout_round

\* The larger of two rounds.
MaxRound(r, s) == IF r > s THEN r ELSE s

\* Mutant: the round of the last QC seen, not the highest.
observe_qc_last(safety_data, one_chain, two_chain) ==
    [safety_data EXCEPT !.one_chain_round = one_chain,
                        !.preferred_round = two_chain]

\* Mutant: the round after the certified one is remembered.
observe_qc_next(safety_data, one_chain, two_chain) ==
    [safety_data EXCEPT !.one_chain_round = MaxRound(one_chain + 1, @),
                        !.preferred_round = MaxRound(two_chain, @)]

\* Mutant: only the 2-chain round is remembered.
observe_qc_two_chain_only(safety_data, one_chain, two_chain) ==
    [safety_data EXCEPT !.preferred_round = MaxRound(two_chain, @)]

\* observe_qc: remember the highest certified round, and the highest round
\* of the parent of a certified block.
observe_qc(safety_data, one_chain, two_chain) ==
    [safety_data EXCEPT
        !.one_chain_round = MaxRound(one_chain, @),
        !.preferred_round = MaxRound(two_chain, @)]

update_highest_timeout_round(safety_data, round) ==
    [safety_data EXCEPT !.highest_timeout_round = MaxRound(round, @)]

\* construct_ledger_info_2chain: a vote for a block of round block1 commits
\* the block its QC certifies (of round block0) iff this holds.
commits_parent(block0, block1) == is_next_round(block1, block0) /\ block0 > 0

=============================================================================
