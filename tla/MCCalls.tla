-------------------------------- MODULE MCCalls --------------------------------
(* Small instances of Calls. *)
EXTENDS Calls, TLC

CONSTANTS u1, u2, q1, q2, w1

Symmetric == Permutations(Users) \cup Permutations(Requests)
===============================================================================
