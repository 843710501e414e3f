---------------------------- MODULE AccountProofs ----------------------------
(* Whatever keeps Account!Spec never pays a member more than was earned. *)
EXTENDS Account, TLAPS

Inv == TypeOK /\ Solvent

\* A payment is bounded by the commitment that earnings cover; a release never
\* frees points that were paid.
LEMMA NextInv == Inv /\ [Next]_vars => Inv'
<1> SUFFICES ASSUME Inv, [Next]_vars PROVE Inv'
  OBVIOUS
<1> USE DEF Inv, TypeOK, Solvent
<1>1. CASE Earn
  BY <1>1 DEF Earn
<1>2. CASE Commit
  <2>1. \A m \in Members : committed'[m] >= committed[m]
    BY <1>2 DEF Commit
  <2> QED BY <1>2, <2>1 DEF Commit
<1>3. CASE Release
  BY <1>3 DEF Release
<1>4. CASE Pay
  BY <1>4 DEF Pay
<1>5. CASE UNCHANGED vars
  BY <1>5 DEF vars
<1> QED BY <1>1, <1>2, <1>3, <1>4, <1>5 DEF Next

\* The account is solvent in every reachable state, for any set of members.
THEOREM AccountSolvent == Spec => [](TypeOK /\ Solvent)
<1>1. Init => Inv
  BY DEF Init, Inv, TypeOK, Solvent
<1>2. Inv => TypeOK /\ Solvent
  BY DEF Inv
<1> QED BY <1>1, <1>2, NextInv, PTL DEF Spec
===============================================================================
