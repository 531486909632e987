------------------------------- MODULE PermCounter -------------------------------
(***************************************************************************)
(* jv's permCounter, which Permutations counts with: a digit for each      *)
(* column, the last one fastest.  most is the largest index of each        *)
(* column, -1 when the column is empty, and its digit then stays 0.        *)
(***************************************************************************)
EXTENDS Integers, Sequences

\* Mutant: the digits after the one that grows are kept.
IncrKeeping(digits, most) ==
  LET below == {i \in DOMAIN digits : digits[i] < most[i]} IN
  IF below = {} THEN <<>>
  ELSE LET last == CHOOSE i \in below : \A j \in below : j <= i IN
       [digits EXCEPT ![last] = @ + 1]

\* The empty sequence when there is no next one.
Incr(digits, most) ==
  LET below == {i \in DOMAIN digits : digits[i] < most[i]} IN
  IF below = {} THEN <<>>
  ELSE LET last == CHOOSE i \in below : \A j \in below : j <= i IN
       [i \in DOMAIN digits |-> IF i = last THEN digits[i] + 1
                                ELSE IF i > last THEN 0 ELSE digits[i]]
=============================================================================
