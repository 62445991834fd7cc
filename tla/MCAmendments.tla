---------------------------- MODULE MCAmendments ----------------------------
(* A small instance of Amendments: a flag ledger is every third one.       *)
EXTENDS Amendments, TLC
=============================================================================
