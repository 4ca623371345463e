-------------------------- MODULE MCInferenceBroker --------------------------
(* Small instances of InferenceBroker for TLC.                              *)
EXTENDS InferenceBroker, TLC

Symmetry == Permutations(Tasks) \cup Permutations(Brokers)
=============================================================================
