------------------------- MODULE MCDispatchRecovery -------------------------
(* DispatchRecovery on small instances; the issues are interchangeable. *)
EXTENDS DispatchRecovery, TLC

Symmetric == Permutations(Issues)
=============================================================================
