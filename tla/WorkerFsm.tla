----------------------------- MODULE WorkerFsm -----------------------------
(***************************************************************************)
(* What the session store promises of the sessions it keeps                *)
(* (worker_state.py): a session is born dispatched, moves along the edges  *)
(* of one table, and never leaves merged or abandoned.  WorkerSession, in  *)
(* which a transition is a read, a check and a write with crashes between  *)
(* them, implements this module.                                           *)
(***************************************************************************)
EXTENDS Sequences, Naturals

CONSTANT MaxSessions    \* bound: sessions ever created

VARIABLE state          \* the state of each session, in the order of creation

States == {"dispatched", "running", "awaiting_critic", "revising", "merged", "abandoned"}
Terminal == {"merged", "abandoned"}
Active == {"running", "revising"}

Allowed == {<<"dispatched", "running">>, <<"dispatched", "abandoned">>,
            <<"running", "awaiting_critic">>, <<"running", "abandoned">>,
            <<"awaiting_critic", "revising">>, <<"awaiting_critic", "merged">>,
            <<"awaiting_critic", "abandoned">>,
            <<"revising", "awaiting_critic">>, <<"revising", "abandoned">>}

is_allowed(src, dst) == <<src, dst>> \in Allowed
allowed_next(src) == {edge[2] : edge \in {e \in Allowed : e[1] = src}}

Init == state = <<>>

Create == /\ Len(state) < MaxSessions
          /\ state' = Append(state, "dispatched")

Move(s) == \E dst \in allowed_next(state[s]) : state' = [state EXCEPT ![s] = dst]

Next == Create \/ \E s \in DOMAIN state : Move(s)

Spec == Init /\ [][Next]_state
=============================================================================
