--------------------------- MODULE MCReconciliation ---------------------------
(* Small instances of Reconciliation for TLC.                               *)
EXTENDS Reconciliation
=============================================================================
