----------------------------- MODULE MCBlockSTM -----------------------------
(***************************************************************************)
(* Blocks for BlockSTM: small programs whose write sets depend on what they*)
(* read, so that every incarnation may write other keys than the last.     *)
(***************************************************************************)
EXTENDS BlockSTM, TLC

CONSTANTS x, y, m

MCBase == (x :> 0) @@ (y :> 0) @@ (m :> 0)

\* "data": a writer of x, one that writes x or y depending on x, and a reader of
\* both.  "module": the first transaction publishes the module that the last
\* one executes, and the one between them depends on neither.  "cut" and
\* "regress": as "data", where the block ends after the first transaction and
\* the epilogue is executed in place of the second.
MCReadKeys(b, t) ==
    CASE b = "module" -> IF t = 2 THEN <<m>> ELSE <<>>
      [] t = 0 -> <<>>
      [] t = 1 -> <<x>>
      [] OTHER -> <<y, x>>

MCOutput(b, t, in) ==
    CASE b = "module" -> (CASE t = 0 -> m :> 1
                            [] t = 1 -> EmptyFunction
                            [] OTHER -> y :> in[m])
      [] t = 0 -> x :> 1
      [] t = 1 -> IF in[x] = 0 THEN x :> 2 ELSE y :> 3
      [] OTHER -> x :> in[x] + in[y]

MCSkipsRest(b) == IF b \in {"cut", "regress"} THEN {0} ELSE {}
MCEpilogueKeys(b) == CASE b = "cut" -> {x} [] b = "regress" -> {y} [] OTHER -> {}

=============================================================================
