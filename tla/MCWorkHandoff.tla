--------------------------- MODULE MCWorkHandoff ---------------------------
(***************************************************************************)
(* Small instances of WorkHandoff: callers, request IDs and contracts are  *)
(* interchangeable.                                                        *)
(***************************************************************************)
EXTENDS WorkHandoff, TLC

Symmetry == Permutations(Calls) \cup Permutations(Ids) \cup Permutations(Payloads)
=============================================================================
