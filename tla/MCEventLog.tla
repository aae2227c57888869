---------------------------- MODULE MCEventLog ----------------------------
(* EventLog on a small instance; the connections are interchangeable. *)
EXTENDS EventLog, TLC

Symmetric == Permutations(Clients)
=============================================================================
