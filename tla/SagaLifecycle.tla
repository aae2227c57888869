--------------------------- MODULE SagaLifecycle ---------------------------
(***************************************************************************)
(* What the task saga store promises its callers: a table of sagas whose   *)
(* every operation is one atomic step.  A saga is seeded, leased, renewed  *)
(* and finished; a lease is taken over only once it has lapsed, it is only *)
(* ever extended, and a finished saga never changes again.                 *)
(*                                                                         *)
(* SagaStore, where an operation is a read followed by a conditional write *)
(* that other connections may come between, implements this module.        *)
(***************************************************************************)
EXTENDS Integers

CONSTANTS Tasks,      \* task ids: the primary key of the table
          Owners,     \* lease owners, "worker-<issue>-tick-<tick>"
          NoOwner,    \* the owner of a saga that was never leased
          Times       \* the expiries a lease can have

VARIABLES now,        \* the wall clock
          saga        \* [Tasks -> [state, owner, expires]]

vars == <<now, saga>>

Unleased == {"planned", "dispatched"}
Finished == {"completed", "failed", "compensated", "quarantined"}

Init == /\ now = 1
        /\ saga = [t \in Tasks |-> [state |-> "absent", owner |-> NoOwner, expires |-> 0]]

Seed(t, state) ==
    /\ saga[t].state \in Unleased \cup {"absent"}
    /\ state \in Unleased
    /\ saga' = [saga EXCEPT ![t].state = state]
    /\ UNCHANGED now

Acquire(t, o, until) ==
    /\ saga[t].state \in Unleased \cup {"running"}
    /\ saga[t].expires <= now
    /\ until > saga[t].expires
    /\ saga' = [saga EXCEPT ![t] = [state |-> "running", owner |-> o, expires |-> until]]
    /\ UNCHANGED now

Renew(t, until) ==
    /\ saga[t].state = "running"
    /\ until > saga[t].expires
    /\ saga' = [saga EXCEPT ![t].expires = until]
    /\ UNCHANGED now

Finish(t, state) ==
    /\ saga[t].state \in Unleased \cup {"running"}
    /\ state \in Finished
    /\ saga' = [saga EXCEPT ![t].state = state]
    /\ UNCHANGED now

Tick == now' = now + 1 /\ UNCHANGED saga

Next == \/ Tick
        \/ \E t \in Tasks :
              \/ \E state \in Unleased : Seed(t, state)
              \/ \E state \in Finished : Finish(t, state)
              \/ \E o \in Owners, until \in Times : Acquire(t, o, until)
              \/ \E until \in Times : Renew(t, until)

Spec == Init /\ [][Next]_vars
=============================================================================
