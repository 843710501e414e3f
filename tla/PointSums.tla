------------------------------ MODULE PointSums ------------------------------
(***************************************************************************)
(* Sums of points over a member's rows, as a recursive function so that    *)
(* facts about them can be proved as well as evaluated.                    *)
(***************************************************************************)
EXTENDS Integers

\* PartialSums(g)[n] is g[1] + ... + g[n].

PartialSums(g) ==
  LET s[i \in Nat] == IF i = 0 THEN 0 ELSE s[i - 1] + g[i] IN s

\* The sum of the first n terms of g, which is what _sum returns for n rows.
SumTo(g, n) == PartialSums(g)[n]
=============================================================================
