-------------------------------- MODULE Sums --------------------------------
(***************************************************************************)
(* The sum of a function over a finite set, as the number of units its     *)
(* members have: a sum that needs no recursion, so that what a step adds to *)
(* it or takes from it can be proved.                                      *)
(***************************************************************************)
EXTENDS Integers, FiniteSets

\* The units of each x in S, f[x] of them, told apart by a number.
Units(f, S) == UNION {{x} \X (1..f[x]) : x \in S}

SumOver(f, S) == Cardinality(Units(f, S))
=============================================================================
