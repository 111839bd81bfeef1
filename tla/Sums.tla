--------------------------------- MODULE Sums --------------------------------
(***************************************************************************)
(* Sums of natural numbers over a finite set, by counting: SumOver(f, S)   *)
(* is the number of pairs <<x, i>> with x in S and i in 1..f[x].  Stated   *)
(* this way, and not as a fold, so that facts about sums follow from facts *)
(* about cardinalities.                                                    *)
(***************************************************************************)
EXTENDS Integers, FiniteSets

Tally(f, S)   == UNION {{x} \X (1..f[x]) : x \in S}
SumOver(f, S) == Cardinality(Tally(f, S))

\* The sum of integers: what is above zero, less what is below.
NetSum(f, S) ==
    SumOver([x \in S |-> IF f[x] > 0 THEN f[x] ELSE 0], S)
  - SumOver([x \in S |-> IF f[x] < 0 THEN -f[x] ELSE 0], S)
==============================================================================
