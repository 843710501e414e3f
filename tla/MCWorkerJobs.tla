---------------------------- MODULE MCWorkerJobs ----------------------------
(* Small instances of WorkerJobs. *)
EXTENDS WorkerJobs, TLC

CONSTANTS j1, j2, r1, r2

Symmetric == Permutations(Jobs) \cup Permutations(Runners)
===============================================================================
