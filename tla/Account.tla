------------------------------- MODULE Account --------------------------------
(***************************************************************************)
(* What the money-out paths promise a member, whatever the rows behind it: *)
(* points are earned, committed against what was earned, and then either   *)
(* released or paid.  A balance carried over from the platform's earlier   *)
(* ledger may start out committed beyond what has been earned here; until  *)
(* earnings cover it, nothing more is committed and nothing is paid.       *)
(***************************************************************************)
EXTENDS Integers

CONSTANT Members

VARIABLES
  earned,     \* points in the authoritative ledger
  committed,  \* points some reservation holds, those already paid included
  paid        \* points discharged by a payment

vars == <<earned, committed, paid>>

Init ==
  /\ earned = [m \in Members |-> 0]
  /\ committed \in [Members -> Nat]
  /\ paid = [m \in Members |-> 0]

Earn ==
  /\ earned' \in [Members -> Nat]
  /\ \A m \in Members : earned'[m] >= earned[m]
  /\ UNCHANGED <<committed, paid>>

\* One batch may commit points of several members at once.
Commit ==
  /\ committed' \in [Members -> Nat]
  /\ \A m \in Members :
       \/ committed'[m] = committed[m]
       \/ committed[m] < committed'[m] /\ committed'[m] <= earned[m]
  /\ UNCHANGED <<earned, paid>>

Release ==
  /\ committed' \in [Members -> Nat]
  /\ \A m \in Members : paid[m] <= committed'[m] /\ committed'[m] <= committed[m]
  /\ UNCHANGED <<earned, paid>>

Pay ==
  /\ paid' \in [Members -> Nat]
  /\ \A m \in Members :
       \/ paid'[m] = paid[m]
       \/ /\ paid[m] < paid'[m]
          /\ paid'[m] <= committed[m] /\ committed[m] <= earned[m]
  /\ UNCHANGED <<earned, committed>>

Next == Earn \/ Commit \/ Release \/ Pay

Spec == Init /\ [][Next]_vars

-------------------------------------------------------------------------------
TypeOK ==
  /\ earned \in [Members -> Nat]
  /\ committed \in [Members -> Nat]
  /\ paid \in [Members -> Nat]

\* Payments never exceed earnings, and a payment was committed first.
Solvent == \A m \in Members : paid[m] <= earned[m] /\ paid[m] <= committed[m]
===============================================================================
