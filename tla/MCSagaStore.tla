---------------------------- MODULE MCSagaStore ----------------------------
(* SagaStore on a small instance: owners and stores are interchangeable, so  *)
(* TLC identifies the states that differ only by a permutation of them.      *)
EXTENDS SagaStore, TLC

Symmetric == Permutations(Owners) \cup Permutations(Stores)
=============================================================================
