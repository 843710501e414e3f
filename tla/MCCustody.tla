------------------------------- MODULE MCCustody -------------------------------
(* Small instances of Custody: one document and one asset; no handler touches *)
(* the rows or the objects of two.                                            *)
EXTENDS Custody

CONSTANTS d1, a1
===============================================================================
