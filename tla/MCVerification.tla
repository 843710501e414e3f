---------------------------- MODULE MCVerification ----------------------------
(* Small instances of Verification: two referred members and a milestone of   *)
(* two, so that one approval reaches one threshold and two reach the other.   *)
EXTENDS Verification, TLC

CONSTANTS m1, m2, v1, v2, d1, r1, r2

\* One request at a time; or decisions over each other and over claims or submissions.
OverlappingHandlers == {{}, {"CLAIM", "DECIDE"}, {"SUBMIT", "DECIDE"}}

\* The reward rules come and go where requests do not overlap; where they do, the
\* milestones stay in force.
RulesChangeSerially == overlap # {} => milestones = Thresholds

Symmetry == Permutations({m1, m2}) \cup Permutations({v1, v2}) \cup Permutations({r1, r2})
===============================================================================
