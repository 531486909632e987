------------------------------ MODULE MCDebounce ------------------------------
(* The instance of Debounce for TLC. *)
EXTENDS Debounce

CONSTANTS add1, add2, add3, add4, t1, t2, t3

\* One transaction makes two calls, two others one each.
MCTxOf == [c \in Calls |-> CASE c = add3 -> t2 [] c = add4 -> t3 [] OTHER -> t1]
MCModesOf ==
  [c \in Calls |-> CASE c = add1 -> {"keep", "merge"}
                     [] c = add2 -> {"replace", "merge"}
                     [] OTHER  -> {"plain", "replace", "mergeKeep"}]
=============================================================================
