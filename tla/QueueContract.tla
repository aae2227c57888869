--------------------------- MODULE QueueContract ---------------------------
(***************************************************************************)
(* What queue/__init__.py promises of every backend: a task waits, is held *)
(* by one host, and is gone once acknowledged or given up; a task that is  *)
(* given back waits again.  Nothing is gone that nobody held.              *)
(***************************************************************************)
CONSTANTS Tasks, Hosts

VARIABLE task       \* task |-> "new", "waiting", "gone", or the host that holds it

ContractInit == task = [t \in Tasks |-> "new"]

Move(t, from, to) == task[t] \in from /\ task' = [task EXCEPT ![t] = to]

ContractNext ==
    \E t \in Tasks :
        \/ Move(t, {"new"}, "waiting")
        \/ \E h \in Hosts : Move(t, {"waiting"}, h)
        \/ Move(t, Hosts, "gone")
        \/ Move(t, Hosts, "waiting")

ContractSpec == ContractInit /\ [][ContractNext]_task
=============================================================================
