------------------------------- MODULE MCPayout -------------------------------
(* Small instances of Payout. *)
EXTENDS Payout, TLC

CONSTANTS m1, m2, b1, b2, q1, q2, r1, r2, low, high

\* One row prices a point at half a kobo with threshold 1, the other at a little
\* under that (which rounds a single point down to nothing) with threshold 2.
MCMinimumPoints == [t \in Terms |-> IF t = low THEN 1 ELSE 2]
MCConversionRate == [t \in Terms |-> IF t = low THEN 50 ELSE 49]
MCCarryoverCredit == [m \in Members |-> 1]

Symmetric == Permutations(Members) \cup Permutations(Batches)
             \cup Permutations(Requests) \cup Permutations(References)
===============================================================================
