---------------------------- MODULE MCSafetyRules ----------------------------
(***************************************************************************)
(* One validator through two epochs of two rounds, with a key rotation     *)
(* between them and two blocks that compete for a round, one of them its   *)
(* own proposal and the other in need of a timeout certificate.            *)
(***************************************************************************)
EXTENDS SafetyRules

\* Its key changes with epoch 2.
MCExpectedKey == [e \in Epochs |-> IF e = 1 THEN "k1" ELSE "k2"]

MCBlock(epoch, round, qc_round, qc_parent_round, author, id) ==
    [epoch |-> epoch, round |-> round, qc_round |-> qc_round,
     qc_parent_round |-> qc_parent_round, author |-> author, id |-> id]

MCProposals ==
    {MCBlock(1, 1, 0, 0, None, "a"),
     MCBlock(1, 2, 1, 0, "me", "c"), MCBlock(1, 2, 0, 0, None, "d"),
     MCBlock(2, 1, 0, 0, None, "e")}

=============================================================================
