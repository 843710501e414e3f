---------------------------- MODULE MCEdgeGovernance ----------------------------
(* Small instances of EdgeGovernance: between two releases one ward is re-pointed, *)
(* and one has an edge that is inferred in the one and sourced in the other.       *)
EXTENDS EdgeGovernance

CONSTANTS w1, w2, m1, A, B, names, r1, r2

E(c, b) == [constituency |-> c, basis |-> b]

TwoReleases ==
     r1 :> (w1 :> E(A, names) @@ w2 :> E(B, None))
  @@ r2 :> (w1 :> E(B, names) @@ w2 :> E(B, names))
===============================================================================
