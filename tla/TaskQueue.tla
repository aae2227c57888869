----------------------------- MODULE TaskQueue -----------------------------
(***************************************************************************)
(* The two task queues of queue/: InMemoryQueue, a deque and a dictionary  *)
(* under a condition, and SQLiteQueue, a table under a lock.  An operation *)
(* is a step, as its lock makes it.  The loop builds one and closes it;    *)
(* its hosts are those the protocol is written for: they settle a task     *)
(* once, and leave it if the call raised.                                  *)
(*                                                                         *)
(* A call of SQLiteQueue may raise QueueUnavailable before its statement,  *)
(* or between the statement and the commit.  SQLite then rolls back, or    *)
(* the transaction stays open and goes with the next commit or with the    *)
(* process; only calls that fail too come between, and they tell nobody    *)
(* anything.  So whether a call that raised took effect is chosen when it  *)
(* raises.                                                                 *)
(***************************************************************************)
EXTENDS Naturals, Sequences, FiniteSets, SequencesExt

CONSTANTS
    NumTasks,       \* bound: tasks pushed
    QueueHosts,     \* who pops
    MaxAttempts,    \* bound: deliveries of a task
    MaxQueueDeaths  \* bound: deaths of the process

Ids == 1..NumTasks

\* The hosts have names of their own.
ASSUME QueueAssumption ==
    /\ {NumTasks, MaxAttempts, MaxQueueDeaths} \subseteq Nat
    /\ QueueHosts \cap {"none", "new", "waiting", "gone"} = {}

VARIABLES
    backend,    \* "memory" or "sqlite"
    pushed,     \* tasks pushed so far: the id of the next is pushed + 1, the order of the rows
    waiting,    \* the waiting tasks, in the order of the deque or of the rows
    inflight,   \* task |-> the host in its row or in the dictionary, for what is in flight
    attempts,
    holding,    \* host |-> tasks it works on
    firsts,     \* history: the order of the first deliveries
    finished,   \* history: tasks acknowledged or given up
    queueDeaths

queueVars == <<backend, pushed, waiting, inflight, attempts, holding, firsts, finished, queueDeaths>>

QueueInit ==
    /\ backend \in {"memory", "sqlite"}
    /\ pushed = 0 /\ waiting = <<>> /\ inflight = [t \in Ids |-> "none"] /\ attempts = [t \in Ids |-> 0]
    /\ holding = [h \in QueueHosts |-> {}] /\ firsts = <<>>
    /\ finished = {} /\ queueDeaths = 0

\* Its caller has the id of the task, or the error of a push that left a row.
push ==
    /\ pushed < NumTasks /\ pushed' = pushed + 1
    /\ waiting' = Append(waiting, pushed + 1)
    /\ UNCHANGED <<backend, inflight, attempts, holding, firsts, finished, queueDeaths>>

\* A mutant: the task is left among the waiting.
TakenKeeps(t) == waiting

Taken(t) ==
    IF Contains(waiting, t)
    THEN RemoveAt(waiting, CHOOSE k \in DOMAIN waiting : waiting[k] = t) ELSE waiting

Mark(h, t) ==
    /\ waiting' = Taken(t)
    /\ inflight' = [inflight EXCEPT ![t] = h]
    /\ attempts' = [attempts EXCEPT ![t] = @ + 1]
    /\ UNCHANGED <<backend, pushed, finished, queueDeaths>>

Deliver(h, t) ==
    /\ Mark(h, t)
    /\ holding' = [holding EXCEPT ![h] = @ \cup {t}]
    /\ firsts' = IF attempts[t] = 0 THEN Append(firsts, t) ELSE firsts

\* A mutant: the youngest first.
FirstWaitingLast == Last(waiting)

FirstWaiting == Head(waiting)

\* The oldest that waits; nothing, when the time is up.  A pop that raised may
\* have marked it for a host that never gets it.
pop_blocking(h) ==
    /\ waiting # <<>> /\ attempts[FirstWaiting] < MaxAttempts
    /\ \/ Deliver(h, FirstWaiting)
       \/ backend = "sqlite" /\ Mark(h, FirstWaiting) /\ UNCHANGED <<holding, firsts>>

\* The dictionary forgets what is in flight; the DELETE takes the row in any
\* state.
Gone(t) ==
    /\ inflight' = [inflight EXCEPT ![t] = "none"]
    /\ waiting' = IF backend = "sqlite" THEN Taken(t) ELSE waiting

Settles(h, t) ==
    /\ t \in holding[h] /\ holding' = [holding EXCEPT ![h] = @ \ {t}]
    /\ UNCHANGED <<backend, pushed, attempts, firsts, queueDeaths>>

ack(h, t) == Settles(h, t) /\ Gone(t) /\ finished' = finished \cup {t}

\* A mutant: to the end of the line, as if it were new.
BackLast(t) == Append(waiting, t)

\* A mutant: it is forgotten.
BackLost(t) == waiting

\* A row keeps its place: after the older ones, before the younger.
Place(t) == CHOOSE k \in 1..(Len(waiting) + 1) : \A j \in DOMAIN waiting : waiting[j] < t <=> j < k

\* To the head of the deque; to its place among the rows.
Back(t) == InsertAt(waiting, IF backend = "memory" THEN 1 ELSE Place(t), t)

nack(h, t) ==
    /\ Settles(h, t)
    /\ inflight' = [inflight EXCEPT ![t] = "none"]
    /\ waiting' = Back(t) /\ UNCHANGED finished

\* nack without requeue.
giveUp(h, t) ==
    Settles(h, t) /\ Gone(t) /\ finished' = finished \cup {t}

\* An ack or a nack raised and did nothing: the row stays in flight.
SettleFails(h, t) ==
    /\ backend = "sqlite" /\ Settles(h, t)
    /\ UNCHANGED <<waiting, inflight, finished>>

\* The table outlives the process; its tasks in flight stay so.
Crashes ==
    /\ backend = "sqlite" /\ queueDeaths < MaxQueueDeaths /\ queueDeaths' = queueDeaths + 1
    /\ holding' = [h \in QueueHosts |-> {}]
    /\ UNCHANGED <<backend, pushed, waiting, inflight, attempts, firsts, finished>>

QueueNext ==
    \/ push \/ Crashes
    \/ \E h \in QueueHosts :
         \/ pop_blocking(h)
         \/ \E t \in Ids : ack(h, t) \/ nack(h, t) \/ giveUp(h, t) \/ SettleFails(h, t)

QueueSpec == QueueInit /\ [][QueueNext]_queueVars

-----------------------------------------------------------------------------
(* Properties.                                                             *)

\* What waits is not in flight, and waits once.
QueueTypeOK ==
    /\ IsInjective(waiting) /\ ToSet(waiting) \subseteq 1..pushed
    /\ \A t \in ToSet(waiting) : inflight[t] = "none"
    /\ pushed \in 0..NumTasks

\* One host at most works on a task.
OneHostPerTask == \A t \in Ids : Cardinality({h \in QueueHosts : t \in holding[h]}) <= 1

\* Tasks are given out, the first time, in the order they were pushed, whatever
\* is given back in between (queue/sqlite.py "pop returns the oldest").
FirstTriesInOrder == \A i, j \in DOMAIN firsts : i < j => firsts[i] < firsts[j]

\* What was pushed and neither acknowledged nor given up is in the table,
\* through any death of the process and call that raises (queue/sqlite.py
\* "durability across crashes").
NothingForgotten ==
    \A t \in 1..pushed : t \notin finished => inflight[t] # "none" \/ Contains(waiting, t)

\* What was given back goes before what was never tried.
BackGoesFirst ==
    \A i, j \in DOMAIN waiting : i < j /\ attempts[waiting[i]] = 0 => attempts[waiting[j]] = 0

\* A task as the protocol sees it.
Seen(t) ==
    IF t > pushed THEN "new"
    ELSE IF inflight[t] # "none" THEN inflight[t]
    ELSE IF Contains(waiting, t) THEN "waiting" ELSE "gone"

Contract == INSTANCE QueueContract WITH
    Tasks <- Ids, Hosts <- QueueHosts, task <- [t \in Ids |-> Seen(t)]

\* Both queues do what every backend promises, for hosts that settle a task
\* once.
ImplementsContract == Contract!ContractSpec

\* What either backend promises its hosts.
QueueInv ==
    /\ QueueTypeOK
    /\ OneHostPerTask
    /\ FirstTriesInOrder
    /\ NothingForgotten
    /\ BackGoesFirst
=============================================================================
