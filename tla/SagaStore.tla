----------------------------- MODULE SagaStore -----------------------------
(***************************************************************************)
(* SqliteTaskSagaStore (tasks/store.py): the durable table of task sagas.  *)
(*                                                                         *)
(* A store instance is one SQLite connection with a re-entrant lock, so at *)
(* most one operation of an instance is under way; op[s] is that operation.*)
(* Several instances are open on one file at once: the tick's, the stale-  *)
(* lease sweep's, the operator's `forge-loop recover`.  Each mutation is a *)
(* SELECT whose result is checked, then ONE conditional UPDATE or UPSERT;  *)
(* another connection may write between the two.  The action named after   *)
(* the method is its SELECT and its checks, the ...Write action its        *)
(* conditional write.  An exception leaves the table as it was: a check    *)
(* that raises is a guard that is false, and a write that finds no row to  *)
(* change (rowcount # 1) is Conflict.                                      *)
(***************************************************************************)
EXTENDS Integers

CONSTANTS Tasks,       \* task ids
          Owners,      \* lease owners
          Stores,      \* open store instances
          Kinds,       \* compensation kinds
          CompSets,    \* the sets of compensations a saga is created with
          Reasons,     \* terminal reasons
          NoReason,    \* terminal_reason IS NULL
          NoOwner,     \* lease_owner IS NULL
          LeaseTTLs,   \* lease lengths a caller asks for
          MaxLag,      \* bound on the wait between a caller's clock reading and its SELECT
          MaxTime      \* bound on the clock

ASSUME SagaStoreAssumption ==
    /\ CompSets \subseteq SUBSET Kinds
    /\ NoOwner \notin Owners
    /\ LeaseTTLs \subseteq Nat
    /\ MaxLag \in Nat
    /\ MaxTime \in Nat \ {0}

VARIABLES now,         \* datetime.now(UTC): it never goes back
          saga,        \* the table: one row per task id
          op,          \* the operation each store instance has under way
          promised     \* history: the expiry each owner was last granted

vars == <<now, saga, op, promised>>

-----------------------------------------------------------------------------
(* Rows.  lease_expires_at IS NULL is the time 0, before any clock reading; *)
(* last_heartbeat_at is set exactly when the other two lease columns are.   *)

Terminal == {"completed", "failed", "compensated", "quarantined"}
TaskState == {"planned", "dispatched", "running"} \cup Terminal

Row == [state   : TaskState \cup {"absent"},
        owner   : Owners \cup {NoOwner},
        expires : Nat,
        beat    : Nat,
        comps   : SUBSET Kinds,
        reason  : Reasons \cup {NoReason}]

FreshRow(state, comps) ==
    [state |-> state, owner |-> NoOwner, expires |-> 0, beat |-> 0,
     comps |-> comps, reason |-> NoReason]

Mutable(row) == row.state \notin Terminal \cup {"absent"}     \* _require_mutable
SameLease(r1, r2) == /\ r1.owner = r2.owner
                     /\ r1.expires = r2.expires
                     /\ r1.beat = r2.beat
NullLease(row) == row.owner = NoOwner /\ row.expires = 0 /\ row.beat = 0

Stale(row) == Mutable(row) /\ row.expires # 0 /\ row.expires <= now   \* list_stale

-----------------------------------------------------------------------------
(* Operations under way. *)

(* The expiries a caller can ask for. *)
Expiries == {at + ttl : at \in 1 .. MaxTime, ttl \in LeaseTTLs}

Idle == [kind |-> "idle"]
LeaseCall == [kind : {"acquire", "heartbeat"}, task : Tasks, owner : Owners,
              at : 1 .. MaxTime, until : Expiries, seen : Nat]
PutCall == [kind : {"put"}, task : Tasks, row : Row]

Begin(s, call) == op[s] = Idle /\ op' = [op EXCEPT ![s] = call]
Return(s) == op' = [op EXCEPT ![s] = Idle]

(* create: INSERT, refused by the primary key when the row exists. *)
Create(s, t, comps) ==
    /\ op[s] = Idle
    /\ saga[t].state = "absent"
    /\ saga' = [saga EXCEPT ![t] = FreshRow("planned", comps)]
    /\ UNCHANGED <<now, op, promised>>

(* The caller reads the clock and then waits for the instance's lock. *)
CallTimes == {at \in 1 .. now : now - at <= MaxLag}

(* acquire_lease up to its UPDATE. *)
AcquireLease(s, t, o, at, ttl) ==
    /\ ttl > 0
    /\ Mutable(saga[t])
    /\ saga[t].expires <= at
    /\ Begin(s, [kind |-> "acquire", task |-> t, owner |-> o,
                 at |-> at, until |-> at + ttl, seen |-> saga[t].expires])
    /\ UNCHANGED <<now, saga, promised>>

(* heartbeat up to its UPDATE. *)
Heartbeat(s, t, o, at, ttl) ==
    /\ Mutable(saga[t])
    /\ saga[t].owner = o
    /\ saga[t].expires # 0
    /\ at < saga[t].expires
    /\ at + ttl > saga[t].expires
    /\ Begin(s, [kind |-> "heartbeat", task |-> t, owner |-> o,
                 at |-> at, until |-> at + ttl, seen |-> saga[t].expires])
    /\ UNCHANGED <<now, saga, promised>>

(* mark_completed, mark_compensated, mark_quarantined: put a copy of the    *)
(* row just read, with the new state, the lease columns carried over.       *)
MarkTerminal(s, t, state, reason) ==
    /\ Mutable(saga[t])
    /\ Begin(s, [kind |-> "put", task |-> t,
                 row |-> [saga[t] EXCEPT !.state = state, !.reason = reason]])
    /\ UNCHANGED <<now, saga, promised>>

(* Mutant: the compensation is appended as one element, not unpacked. *)
MarkFailedNested(s, t, reason, more) ==
    /\ Mutable(saga[t])
    /\ Begin(s, [kind |-> "put", task |-> t,
                 row |-> [saga[t] EXCEPT !.state = "failed", !.reason = reason,
                                         !.comps = @ \cup {more}]])
    /\ UNCHANGED <<now, saga, promised>>

(* mark_failed: the compensations it writes may not be empty. *)
MarkFailed(s, t, reason, more) ==
    /\ Mutable(saga[t])
    /\ saga[t].comps \cup more # {}
    /\ Begin(s, [kind |-> "put", task |-> t,
                 row |-> [saga[t] EXCEPT !.state = "failed", !.reason = reason,
                                         !.comps = @ \cup more]])
    /\ UNCHANGED <<now, saga, promised>>

(* The fallback seeding of dispatch.py: a put of a DISPATCHED row after a   *)
(* get that found none.                                                     *)
PutDispatched(s, t, comps) ==
    /\ saga[t].state = "absent"
    /\ Begin(s, [kind |-> "put", task |-> t, row |-> FreshRow("dispatched", comps)])
    /\ UNCHANGED <<now, saga, promised>>

-----------------------------------------------------------------------------
(* The conditional writes: the WHERE clause of each statement. *)

(* Mutant: the UPDATE trusts the expiry check made on the row read before it. *)
AcquireWhereUnchecked(row, c) == Mutable(row)

AcquireWhere(row, c) == Mutable(row) /\ row.expires <= c.at

(* Mutant: the UPDATE matches the owner but not the expiry that was read. *)
HeartbeatWhereOwner(row, c) == Mutable(row) /\ row.owner = c.owner

HeartbeatWhere(row, c) ==
    /\ Mutable(row)
    /\ row.owner = c.owner
    /\ row.expires = c.seen
    /\ c.at < row.expires
    /\ row.expires < c.until

(* Mutants: the UPSERT without its lease comparison, without its terminal guard. *)
PutWhereAnyLease(row, new) == row.state \notin Terminal
PutWhereAnyState(row, new) == row.state = "absent" \/ NullLease(row) \/ SameLease(row, new)

(* The UPSERT of put: insert, or update a live row whose lease is the one   *)
(* the caller read, or rewrite only the terminal reason of an equal row.    *)
PutWhere(row, new) ==
    \/ row.state = "absent"
    \/ /\ row.state \notin Terminal
       /\ NullLease(row) \/ SameLease(row, new)
    \/ row = new
    \/ /\ new.reason # NoReason
       /\ new = [row EXCEPT !.reason = new.reason]

GrantLease(c) ==
    /\ saga' = [saga EXCEPT ![c.task].state = "running",
                            ![c.task].owner = c.owner,
                            ![c.task].expires = c.until,
                            ![c.task].beat = c.at]
    /\ promised' = [promised EXCEPT ![c.task][c.owner] = c.until]

AcquireWrite(s) ==
    /\ op[s].kind = "acquire"
    /\ AcquireWhere(saga[op[s].task], op[s])
    /\ GrantLease(op[s])
    /\ Return(s)
    /\ UNCHANGED now

HeartbeatWrite(s) ==
    /\ op[s].kind = "heartbeat"
    /\ HeartbeatWhere(saga[op[s].task], op[s])
    /\ GrantLease(op[s])
    /\ Return(s)
    /\ UNCHANGED now

PutWrite(s) ==
    /\ op[s].kind = "put"
    /\ PutWhere(saga[op[s].task], op[s].row)
    /\ saga' = [saga EXCEPT ![op[s].task] = op[s].row]
    /\ Return(s)
    /\ UNCHANGED <<now, promised>>

Conflict(s) ==
    /\ \/ op[s].kind = "acquire" /\ ~AcquireWhere(saga[op[s].task], op[s])
       \/ op[s].kind = "heartbeat" /\ ~HeartbeatWhere(saga[op[s].task], op[s])
       \/ op[s].kind = "put" /\ ~PutWhere(saga[op[s].task], op[s].row)
    /\ Return(s)
    /\ UNCHANGED <<now, saga, promised>>

-----------------------------------------------------------------------------
Tick == now < MaxTime /\ now' = now + 1 /\ UNCHANGED <<saga, op, promised>>

Init == /\ now = 1
        /\ saga = [t \in Tasks |-> FreshRow("absent", {})]
        /\ op = [s \in Stores |-> Idle]
        /\ promised = [t \in Tasks |-> [o \in Owners |-> 0]]

Call(s, t) ==
    \/ \E comps \in CompSets : Create(s, t, comps) \/ PutDispatched(s, t, comps)
    \/ \E o \in Owners, at \in CallTimes, ttl \in LeaseTTLs :
          AcquireLease(s, t, o, at, ttl) \/ Heartbeat(s, t, o, at, ttl)
    \/ \E state \in Terminal \ {"failed"}, reason \in Reasons : MarkTerminal(s, t, state, reason)
    \/ \E reason \in Reasons, more \in CompSets : MarkFailed(s, t, reason, more)

Write(s) == AcquireWrite(s) \/ HeartbeatWrite(s) \/ PutWrite(s) \/ Conflict(s)

Next == \/ Tick
        \/ \E s \in Stores : Write(s) \/ \E t \in Tasks : Call(s, t)

Spec == Init /\ [][Next]_vars

-----------------------------------------------------------------------------
(* Properties. *)

TypeOK ==
    /\ now \in 1 .. MaxTime
    /\ saga \in [Tasks -> Row]
    /\ op \in [Stores -> {Idle} \cup LeaseCall \cup PutCall]
    /\ promised \in [Tasks -> [Owners -> Nat]]

Holds(o, t) == promised[t][o] > now

(* Two owners never both hold an unexpired lease on one task, although every *)
(* store decides from a row that may have changed by the time it writes      *)
(* (acquire_lease and heartbeat, tasks/store.py).                            *)
OneHolder ==
    \A t \in Tasks, o1, o2 \in Owners : Holds(o1, t) /\ Holds(o2, t) => o1 = o2

(* A holder is not evicted: as long as a granted lease runs, the row still   *)
(* names its owner and no expiry before the one granted, whatever another    *)
(* connection writes in between, a put of an older copy of the row included. *)
HolderIsRecorded ==
    \A t \in Tasks, o \in Owners :
        Holds(o, t) => saga[t].owner = o /\ saga[t].expires >= promised[t][o]

(* Once a saga is terminal no step of any store changes its row, except to   *)
(* record another terminal reason (put, _is_terminal_audit_update).          *)
TerminalFinal ==
    [][\A t \in Tasks : saga[t].state \in Terminal =>
          saga'[t] = [saga[t] EXCEPT !.reason = saga'[t].reason]]_vars

(* A lease is never shortened nor erased: an older expiry never replaces a   *)
(* newer one, so a stale copy of a row is never written back.                *)
LeaseOnlyGrows ==
    [][\A t \in Tasks : saga'[t].expires >= saga[t].expires]_vars

(* A saga's state, owner and expiry behave as if each operation were atomic. *)
View(row) == [state |-> row.state, owner |-> row.owner, expires |-> row.expires]

Lifecycle == INSTANCE SagaLifecycle WITH
    Times <- Expiries,
    saga <- [t \in Tasks |-> View(saga[t])]

ImplementsLifecycle == Lifecycle!Spec

-----------------------------------------------------------------------------
(* The inductive invariant: what a pending write still knows of the row it   *)
(* read, whatever the other stores have done to the row since.               *)

(* A lease is recorded in full or not at all, and with it the state running. *)
RowSound(row) ==
    /\ (row.expires = 0) <=> (row.owner = NoOwner)
    /\ row.expires = 0 => row.beat = 0
    /\ row.state = "running" => row.expires # 0
    /\ row.state \in {"absent", "planned", "dispatched"} => row.expires = 0

LeaseCallSound(c) ==
    c.kind \in {"acquire", "heartbeat"} =>
        /\ c.at <= now /\ c.at < c.until
        /\ c.seen < c.until
        /\ c.seen <= saga[c.task].expires
        /\ saga[c.task].state # "absent"

PutCallSound(c) ==
    c.kind = "put" =>
        /\ c.row.state \in Terminal \cup {"dispatched"}
        /\ c.row.state = "dispatched" => c.row.expires = 0
        /\ c.row.state \in Terminal => saga[c.task].state # "absent"
        /\ c.row.expires <= saga[c.task].expires
        /\ RowSound(c.row)

CallSound(c) == LeaseCallSound(c) /\ PutCallSound(c)

StoreInv ==
    /\ TypeOK
    /\ \A t \in Tasks : RowSound(saga[t])
    /\ \A s \in Stores : CallSound(op[s])
    /\ HolderIsRecorded
=============================================================================
