-------------------------- MODULE SagaStoreProofs --------------------------
(***************************************************************************)
(* Proofs about SagaStore, for every set of tasks, owners, stores and      *)
(* compensations, every set of lease lengths and every bound on the clock. *)
(*                                                                         *)
(* StoreInv is inductive.  OneHolder alone is not: that a conditional      *)
(* write grants no second lease rests on the row still recording the first *)
(* (HolderIsRecorded), and that a put does not erase it rests on what the  *)
(* copy it writes can be (CallSound).                                      *)
(***************************************************************************)
EXTENDS SagaStore, TLAPS

(* The initial table satisfies the invariant. *)
LEMMA InitStoreInv == Init => StoreInv
<1> SUFFICES ASSUME Init PROVE StoreInv
  OBVIOUS
<1> USE SagaStoreAssumption DEF Init, FreshRow, Idle
<1>1. TypeOK
  BY DEF TypeOK, Row, TaskState, Terminal
<1>2. \A t \in Tasks : RowSound(saga[t])
  BY DEF RowSound
<1>3. \A s \in Stores : CallSound(op[s])
  BY DEF CallSound, LeaseCallSound, PutCallSound
<1>4. HolderIsRecorded
  BY DEF HolderIsRecorded, Holds
<1> QED BY <1>1, <1>2, <1>3, <1>4 DEF StoreInv

(* What a step that only starts or ends an operation has to show. *)
LEMMA CallStoreInv ==
    ASSUME StoreInv, NEW s \in Stores,
           op' \in [Stores -> {Idle} \cup LeaseCall \cup PutCall],
           \A s2 \in Stores \ {s} : op'[s2] = op[s2],
           CallSound(op[s])',
           UNCHANGED <<now, saga, promised>>
    PROVE  StoreInv'
<1>1. TypeOK'
  BY DEF StoreInv, TypeOK
<1>2. (\A t \in Tasks : RowSound(saga[t]))'
  BY DEF StoreInv, RowSound
<1>3. (\A s2 \in Stores : CallSound(op[s2]))'
  <2> SUFFICES ASSUME NEW s2 \in Stores PROVE CallSound(op[s2])'
    OBVIOUS
  <2>1. CASE s2 = s
    BY <2>1
  <2>2. CASE s2 # s
    <3>1. op'[s2] = op[s2] /\ CallSound(op[s2])
      BY <2>2 DEF StoreInv
    <3> QED BY <3>1 DEF CallSound, LeaseCallSound, PutCallSound, RowSound
  <2> QED BY <2>1, <2>2
<1>4. HolderIsRecorded'
  BY DEF StoreInv, HolderIsRecorded, Holds
<1> QED BY <1>1, <1>2, <1>3, <1>4 DEF StoreInv

(* What a step that writes one row, and ends at most one operation, has to  *)
(* show: the calls the other stores have under way stay sound because a row *)
(* never loses its lease and is never deleted.                              *)
LEMMA WriteStoreInv ==
    ASSUME StoreInv, NEW t \in Tasks,
           saga' \in [Tasks -> Row], RowSound(saga[t])',
           \A t2 \in Tasks \ {t} : saga'[t2] = saga[t2],
           saga'[t].expires >= saga[t].expires,
           saga[t].state # "absent" => saga'[t].state # "absent",
           promised' \in [Tasks -> [Owners -> Nat]], HolderIsRecorded',
           op' \in [Stores -> {Idle} \cup LeaseCall \cup PutCall],
           \A s \in Stores : op'[s] = op[s] \/ op'[s] = Idle,
           now' = now
    PROVE  StoreInv'
<1>1. TypeOK'
  BY DEF StoreInv, TypeOK
<1>2. (\A t2 \in Tasks : RowSound(saga[t2]))'
  <2> SUFFICES ASSUME NEW t2 \in Tasks PROVE RowSound(saga[t2])'
    OBVIOUS
  <2>1. CASE t2 = t
    BY <2>1
  <2>2. CASE t2 # t
    BY <2>2 DEF StoreInv, RowSound
  <2> QED BY <2>1, <2>2
<1>3. (\A s \in Stores : CallSound(op[s]))'
  <2> SUFFICES ASSUME NEW s \in Stores PROVE CallSound(op[s])'
    OBVIOUS
  <2>1. CASE op'[s] = Idle
    BY <2>1 DEF Idle, CallSound, LeaseCallSound, PutCallSound
  <2>2. CASE op'[s] = op[s]
    <3>1. CallSound(op[s]) /\ op[s] \in {Idle} \cup LeaseCall \cup PutCall
      BY DEF StoreInv, TypeOK
    <3>2. \A t2 \in Tasks : /\ saga[t2] \in Row /\ saga'[t2] \in Row
                            /\ saga'[t2].expires >= saga[t2].expires
                            /\ saga[t2].state # "absent" => saga'[t2].state # "absent"
      <4> SUFFICES ASSUME NEW t2 \in Tasks
                   PROVE  /\ saga[t2] \in Row /\ saga'[t2] \in Row
                          /\ saga'[t2].expires >= saga[t2].expires
                          /\ saga[t2].state # "absent" => saga'[t2].state # "absent"
        OBVIOUS
      <4>1. saga[t2] \in Row /\ saga'[t2] \in Row
        BY DEF StoreInv, TypeOK
      <4>2. CASE t2 = t
        BY <4>1, <4>2
      <4>3. CASE t2 # t
        BY <4>1, <4>3 DEF Row
      <4> QED BY <4>2, <4>3
    <3>3. LeaseCallSound(op[s])'
      BY <2>2, <3>1, <3>2 DEF CallSound, LeaseCallSound, LeaseCall, PutCall, Idle, Row
    <3>4. PutCallSound(op[s])'
      BY <2>2, <3>1, <3>2 DEF CallSound, PutCallSound, LeaseCall, PutCall, Idle, Row, RowSound
    <3> QED BY <3>3, <3>4 DEF CallSound
  <2> QED BY <2>1, <2>2
<1> QED BY <1>1, <1>2, <1>3 DEF StoreInv

-----------------------------------------------------------------------------
(* The conditional writes. *)

(* A granted lease is recorded, and every other unexpired promise with it:   *)
(* there is none, or it is one of the same owner that the new one replaces.  *)
LEMMA GrantStoreInv ==
    ASSUME StoreInv, NEW s \in Stores, op[s] \in LeaseCall,
           saga[op[s].task].state \notin Terminal,
           \A o \in Owners : Holds(o, op[s].task) => o = op[s].owner,
           op[s].until > saga[op[s].task].expires,
           GrantLease(op[s]), Return(s), UNCHANGED now
    PROVE  StoreInv'
<1> USE SagaStoreAssumption
<1>c. PICK c \in LeaseCall : c = op[s]
  OBVIOUS
<1>t. PICK t \in Tasks : t = c.task
  BY DEF LeaseCall
<1> USE <1>c, <1>t
<1>1. /\ c.task \in Tasks /\ c.owner \in Owners /\ c.until \in Expiries
      /\ c.at \in 1 .. MaxTime /\ c.at <= now /\ c.seen <= saga[t].expires
      /\ c.kind \in {"acquire", "heartbeat"} /\ saga[t].state # "absent"
  BY DEF LeaseCall, StoreInv, CallSound, LeaseCallSound
<1>2. c.until \in Nat
  BY <1>1 DEF Expiries
<1>3. /\ saga[t] \in Row
      /\ saga' = [saga EXCEPT ![t] = [saga[t] EXCEPT !.state = "running", !.owner = c.owner,
                                                     !.expires = c.until, !.beat = c.at]]
  BY <1>1 DEF GrantLease, StoreInv, TypeOK
<1>4. /\ saga' \in [Tasks -> Row]
      /\ saga'[t].owner = c.owner /\ saga'[t].expires = c.until /\ saga'[t].state = "running"
      /\ \A t2 \in Tasks \ {t} : saga'[t2] = saga[t2]
  <2> DEFINE row == [saga[t] EXCEPT !.state = "running", !.owner = c.owner,
                                    !.expires = c.until, !.beat = c.at]
  <2>0. c.owner \in Owners \cup {NoOwner} /\ c.until \in Nat /\ c.at \in Nat
        /\ "running" \in TaskState \cup {"absent"} /\ saga[t] \in Row
    BY <1>1, <1>2, <1>3 DEF TaskState
  <2>1. row \in Row
    BY <2>0 DEF Row
  <2>3. row.owner = c.owner /\ row.expires = c.until /\ row.state = "running"
    BY <2>0 DEF Row
  <2>2. saga' = [saga EXCEPT ![t] = row] /\ saga \in [Tasks -> Row]
    BY <1>3 DEF StoreInv, TypeOK
  <2> HIDE DEF row
  <2> QED BY <2>1, <2>2, <2>3
<1>5. RowSound(saga[t])'
  BY <1>1, <1>2, <1>3, <1>4 DEF RowSound, Row, StoreInv
<1>6. promised' \in [Tasks -> [Owners -> Nat]]
  BY <1>1, <1>2 DEF GrantLease, StoreInv, TypeOK
<1>7. HolderIsRecorded'
  <2> SUFFICES ASSUME NEW t2 \in Tasks, NEW o \in Owners, Holds(o, t2)'
               PROVE  saga'[t2].owner = o /\ saga'[t2].expires >= promised'[t2][o]
    BY DEF HolderIsRecorded
  <2>0. promised' = [promised EXCEPT ![t][c.owner] = c.until]
        /\ promised \in [Tasks -> [Owners -> Nat]]
    BY <1>1 DEF GrantLease, StoreInv, TypeOK
  <2>1. CASE t2 # t
    <3>1. promised'[t2] = promised[t2] /\ saga'[t2] = saga[t2]
      BY <1>4, <2>0, <2>1
    <3> QED BY <1>1, <3>1 DEF StoreInv, HolderIsRecorded, Holds
  <2>2. CASE t2 = t /\ o = c.owner
    <3>1. promised'[t2][o] = c.until
      BY <2>0, <2>2
    <3> QED BY <1>2, <1>4, <2>2, <3>1
  <2>3. CASE t2 = t /\ o # c.owner
    <3>1. promised'[t2][o] = promised[t2][o]
      BY <2>0, <2>3
    <3> QED BY <2>3, <1>1, <1>4, <3>1 DEF StoreInv, HolderIsRecorded, Holds
  <2> QED BY <2>1, <2>2, <2>3
<1>8. /\ op' \in [Stores -> {Idle} \cup LeaseCall \cup PutCall]
      /\ \A s2 \in Stores : op'[s2] = op[s2] \/ op'[s2] = Idle
  BY DEF Return, StoreInv, TypeOK
<1>9. saga'[t].expires >= saga[t].expires
  BY <1>2, <1>3, <1>4 DEF Row
<1> QED BY <1>1, <1>4, <1>5, <1>6, <1>7, <1>8, <1>9, WriteStoreInv

LEMMA AcquireWriteStoreInv ==
    ASSUME StoreInv, NEW s \in Stores, AcquireWrite(s)
    PROVE  StoreInv'
<1> DEFINE t == op[s].task
<1> USE SagaStoreAssumption
<1>1. /\ op[s] \in LeaseCall /\ op[s].at <= now /\ op[s].at < op[s].until
      /\ saga[t] \in Row /\ Mutable(saga[t]) /\ saga[t].expires <= op[s].at
  BY DEF AcquireWrite, AcquireWhere, StoreInv, TypeOK, CallSound, LeaseCallSound,
         LeaseCall, PutCall, Idle
<1>2. \A o \in Owners : ~Holds(o, t)
  BY <1>1 DEF StoreInv, TypeOK, HolderIsRecorded, Holds, LeaseCall, Row
<1>3. op[s].until > saga[t].expires
  BY <1>1 DEF LeaseCall, Expiries, Row
<1> QED BY <1>1, <1>2, <1>3, GrantStoreInv DEF AcquireWrite, Mutable

LEMMA HeartbeatWriteStoreInv ==
    ASSUME StoreInv, NEW s \in Stores, HeartbeatWrite(s)
    PROVE  StoreInv'
<1> DEFINE t == op[s].task
<1>1. /\ op[s] \in LeaseCall /\ Mutable(saga[t]) /\ saga[t].owner = op[s].owner
      /\ saga[t].expires < op[s].until
  BY DEF HeartbeatWrite, HeartbeatWhere, StoreInv, TypeOK, LeaseCall, PutCall, Idle
<1>2. \A o \in Owners : Holds(o, t) => o = op[s].owner
  BY <1>1 DEF StoreInv, HolderIsRecorded, LeaseCall
<1>3. op[s].until > saga[t].expires
  BY <1>1 
<1> QED BY <1>1, <1>2, <1>3, GrantStoreInv DEF HeartbeatWrite, Mutable

(* A put writes back the copy of a row whose lease is the one still there. *)
LEMMA PutWriteStoreInv ==
    ASSUME StoreInv, NEW s \in Stores, PutWrite(s)
    PROVE  StoreInv'
<1>c. PICK c \in PutCall : c = op[s]
  BY DEF PutWrite, StoreInv, TypeOK, LeaseCall, Idle
<1>t. PICK t \in Tasks : t = c.task
  BY DEF PutCall
<1> USE <1>c, <1>t
<1>1. /\ saga[t] \in Row /\ c.row \in Row /\ RowSound(saga[t]) /\ RowSound(c.row)
      /\ c.row.state \in Terminal \cup {"dispatched"}
      /\ c.row.expires <= saga[t].expires
      /\ PutWhere(saga[t], c.row)
  BY DEF PutWrite, StoreInv, TypeOK, CallSound, PutCallSound, PutCall
<1>2. c.row.expires = saga[t].expires /\ c.row.owner = saga[t].owner
  BY <1>1 DEF PutWhere, NullLease, SameLease, RowSound, Row, Terminal
<1>3. /\ saga' = [saga EXCEPT ![t] = c.row] /\ saga \in [Tasks -> Row]
      /\ promised' = promised /\ now' = now
  BY DEF PutWrite, StoreInv, TypeOK
<1>4. HolderIsRecorded'
  BY <1>2, <1>3 DEF HolderIsRecorded, Holds, StoreInv
<1>5. /\ op' \in [Stores -> {Idle} \cup LeaseCall \cup PutCall]
      /\ \A s2 \in Stores : op'[s2] = op[s2] \/ op'[s2] = Idle
  BY DEF PutWrite, Return, StoreInv, TypeOK
<1>6. /\ saga' \in [Tasks -> Row] /\ saga'[t] = c.row
      /\ \A t2 \in Tasks \ {t} : saga'[t2] = saga[t2]
  BY <1>1, <1>3
<1>7. RowSound(saga[t])'
  BY <1>1, <1>6 DEF RowSound
<1>8. saga'[t].expires >= saga[t].expires /\ saga'[t].state # "absent"
  BY <1>1, <1>2, <1>6 DEF Row, Terminal
<1>9. promised' \in [Tasks -> [Owners -> Nat]]
  BY <1>3 DEF StoreInv, TypeOK
<1> QED BY <1>3, <1>4, <1>5, <1>6, <1>7, <1>8, <1>9, WriteStoreInv

-----------------------------------------------------------------------------
(* The calls: what each statement writes or remembers of the row it read. *)

LEMMA CreateStoreInv ==
    ASSUME StoreInv, NEW s \in Stores, NEW t \in Tasks, NEW comps \in CompSets,
           Create(s, t, comps)
    PROVE  StoreInv'
<1> DEFINE row == FreshRow("planned", comps)
<1>1. row \in Row /\ row.expires = 0 /\ row.owner = NoOwner /\ RowSound(row)
      /\ row.state = "planned"
  BY SagaStoreAssumption DEF FreshRow, Row, TaskState, RowSound
<1>2. saga' = [saga EXCEPT ![t] = row] /\ saga \in [Tasks -> Row]
  BY DEF Create, StoreInv, TypeOK
<1> HIDE DEF row
<1>3. /\ saga' \in [Tasks -> Row] /\ saga'[t] = row
      /\ \A t2 \in Tasks \ {t} : saga'[t2] = saga[t2]
  BY <1>1, <1>2
<1>4. saga[t] \in Row /\ saga[t].state = "absent" /\ RowSound(saga[t])
  BY DEF Create, StoreInv, TypeOK
<1>5. saga[t].expires = 0 /\ saga[t].owner = NoOwner
  BY <1>4 DEF RowSound
<1>6. HolderIsRecorded'
  <2> SUFFICES ASSUME NEW t2 \in Tasks, NEW o \in Owners, Holds(o, t2)'
               PROVE  saga'[t2].owner = o /\ saga'[t2].expires >= promised'[t2][o]
    BY DEF HolderIsRecorded
  <2>1. Holds(o, t2) /\ saga[t2].owner = o /\ saga[t2].expires >= promised[t2][o]
        /\ promised' = promised
    BY DEF Create, Holds, StoreInv, HolderIsRecorded
  <2>2. t2 # t
    BY <2>1, <1>5, SagaStoreAssumption
  <2> QED BY <2>1, <2>2, <1>3
<1>7. RowSound(saga[t])'
  BY <1>1, <1>3 DEF RowSound
<1>8. saga'[t].expires >= saga[t].expires /\ saga'[t].state # "absent"
  BY <1>1, <1>3, <1>5
<1>9. /\ promised' \in [Tasks -> [Owners -> Nat]] /\ op' = op /\ now' = now
      /\ op' \in [Stores -> {Idle} \cup LeaseCall \cup PutCall]
  BY DEF Create, StoreInv, TypeOK
<1> QED BY <1>3, <1>6, <1>7, <1>8, <1>9, WriteStoreInv

LEMMA LeaseCallStoreInv ==
    ASSUME StoreInv, NEW s \in Stores, NEW t \in Tasks, NEW o \in Owners,
           NEW at \in CallTimes, NEW ttl \in LeaseTTLs,
           AcquireLease(s, t, o, at, ttl) \/ Heartbeat(s, t, o, at, ttl)
    PROVE  StoreInv'
<1>1. PICK kind \in {"acquire", "heartbeat"} :
          op' = [op EXCEPT ![s] = [kind |-> kind, task |-> t, owner |-> o, at |-> at,
                                   until |-> at + ttl, seen |-> saga[t].expires]]
  BY DEF AcquireLease, Heartbeat, Begin
<1>2. /\ at \in 1 .. MaxTime /\ at <= now /\ ttl \in Nat /\ at + ttl \in Expiries
  <2>1. at \in 1 .. MaxTime /\ at <= now
    BY SagaStoreAssumption DEF CallTimes, StoreInv, TypeOK
  <2>2. ttl \in Nat
    BY SagaStoreAssumption
  <2>3. at + ttl \in Expiries
    BY <2>1 DEF Expiries
  <2> QED BY <2>1, <2>2, <2>3
<1>3. saga[t].expires \in Nat /\ Mutable(saga[t]) /\ UNCHANGED <<now, saga, promised>>
  BY DEF AcquireLease, Heartbeat, StoreInv, TypeOK, Row
<1>4. at < at + ttl /\ saga[t].expires < at + ttl
  BY <1>2, <1>3, SagaStoreAssumption DEF AcquireLease, Heartbeat
<1>5. op'[s] = [kind |-> kind, task |-> t, owner |-> o, at |-> at,
                until |-> at + ttl, seen |-> saga[t].expires]
  BY <1>1 DEF StoreInv, TypeOK
<1>6. op'[s] \in LeaseCall
  BY <1>2, <1>3, <1>5 DEF LeaseCall
<1>7. /\ op' \in [Stores -> {Idle} \cup LeaseCall \cup PutCall]
      /\ \A s2 \in Stores \ {s} : op'[s2] = op[s2]
  BY <1>1, <1>5, <1>6 DEF StoreInv, TypeOK
<1>8. CallSound(op[s])'
  BY <1>2, <1>3, <1>4, <1>5 DEF CallSound, LeaseCallSound, PutCallSound, Mutable
<1> QED BY <1>3, <1>7, <1>8, CallStoreInv

(* A pending put that keeps the lease of the row it was made from is sound. *)
LEMMA PutCallStoreInv ==
    ASSUME StoreInv, NEW s \in Stores, NEW t \in Tasks, NEW row \in Row,
           op' = [op EXCEPT ![s] = [kind |-> "put", task |-> t, row |-> row]],
           UNCHANGED <<now, saga, promised>>,
           row.owner = saga[t].owner, row.expires = saga[t].expires, row.beat = saga[t].beat,
           \/ row.state \in Terminal /\ Mutable(saga[t])
           \/ row.state = "dispatched" /\ saga[t].state = "absent"
    PROVE  StoreInv'
<1>1. op'[s] = [kind |-> "put", task |-> t, row |-> row] /\ op'[s] \in PutCall
  BY DEF StoreInv, TypeOK, PutCall
<1>2. /\ op' \in [Stores -> {Idle} \cup LeaseCall \cup PutCall]
      /\ \A s2 \in Stores \ {s} : op'[s2] = op[s2]
  BY <1>1 DEF StoreInv, TypeOK
<1>3. saga[t] \in Row /\ RowSound(saga[t])
  BY DEF StoreInv, TypeOK
<1>4. RowSound(row) /\ (row.state = "dispatched" => row.expires = 0)
      /\ row.expires <= saga[t].expires
  BY <1>3 DEF RowSound, Row, Terminal
<1>5. CallSound(op[s])'
  BY <1>1, <1>4 DEF CallSound, LeaseCallSound, PutCallSound, RowSound, Mutable, Terminal
<1> QED BY <1>2, <1>5, CallStoreInv

LEMMA MarkStoreInv ==
    ASSUME StoreInv, NEW s \in Stores, NEW t \in Tasks, NEW reason \in Reasons,
           \/ \E state \in Terminal \ {"failed"} : MarkTerminal(s, t, state, reason)
           \/ \E more \in CompSets : MarkFailed(s, t, reason, more)
    PROVE  StoreInv'
<1>1. saga[t] \in Row /\ Mutable(saga[t]) /\ UNCHANGED <<now, saga, promised>>
  BY DEF StoreInv, TypeOK, MarkTerminal, MarkFailed
<1>2. PICK state \in Terminal, comps \in SUBSET Kinds :
         op' = [op EXCEPT ![s] = [kind |-> "put", task |-> t,
                  row |-> [saga[t] EXCEPT !.state = state, !.reason = reason, !.comps = comps]]]
  <2>1. ASSUME NEW state \in Terminal, MarkTerminal(s, t, state, reason)
        PROVE  op' = [op EXCEPT ![s] = [kind |-> "put", task |-> t,
                 row |-> [saga[t] EXCEPT !.state = state, !.reason = reason, !.comps = @]]]
    <3>1. [saga[t] EXCEPT !.state = state, !.reason = reason]
            = [saga[t] EXCEPT !.state = state, !.reason = reason, !.comps = @]
      BY <1>1 DEF Row
    <3> QED BY <2>1, <3>1 DEF MarkTerminal, Begin
  <2>2. ASSUME NEW more \in CompSets, MarkFailed(s, t, reason, more)
        PROVE  op' = [op EXCEPT ![s] = [kind |-> "put", task |-> t,
                 row |-> [saga[t] EXCEPT !.state = "failed", !.reason = reason,
                                         !.comps = @ \cup more]]]
    BY <2>2 DEF MarkFailed, Begin
  <2>3. saga[t].comps \in SUBSET Kinds /\ \A more \in CompSets : saga[t].comps \cup more \in SUBSET Kinds
    BY <1>1, SagaStoreAssumption DEF Row
  <2>4. "failed" \in Terminal
    BY DEF Terminal
  <2> QED BY <2>1, <2>2, <2>3, <2>4
<1>3. PICK row : row = [saga[t] EXCEPT !.state = state, !.reason = reason, !.comps = comps]
  OBVIOUS
<1>4. state \in TaskState \cup {"absent"} /\ reason \in Reasons \cup {NoReason}
  BY DEF TaskState
<1>5. row \in Row /\ row.state = state /\ row.owner = saga[t].owner
      /\ row.expires = saga[t].expires /\ row.beat = saga[t].beat
  BY <1>1, <1>3, <1>4 DEF Row
<1>6. op' = [op EXCEPT ![s] = [kind |-> "put", task |-> t, row |-> row]]
  BY <1>2, <1>3
<1> QED BY <1>1, <1>5, <1>6, PutCallStoreInv

LEMMA PutDispatchedStoreInv ==
    ASSUME StoreInv, NEW s \in Stores, NEW t \in Tasks, NEW comps \in CompSets,
           PutDispatched(s, t, comps)
    PROVE  StoreInv'
<1>1. PICK row : row = FreshRow("dispatched", comps)
  OBVIOUS
<1>2. row \in Row /\ row.state = "dispatched" /\ row.expires = 0 /\ row.beat = 0
      /\ row.owner = NoOwner
  BY <1>1, SagaStoreAssumption DEF FreshRow, Row, TaskState
<1>3. op' = [op EXCEPT ![s] = [kind |-> "put", task |-> t, row |-> row]]
  BY <1>1 DEF PutDispatched, Begin
<1>4. saga[t].state = "absent" /\ UNCHANGED <<now, saga, promised>>
  BY DEF PutDispatched
<1>5. saga[t].owner = NoOwner /\ saga[t].expires = 0 /\ saga[t].beat = 0
  BY <1>4 DEF StoreInv, RowSound
<1> QED BY <1>2, <1>3, <1>4, <1>5, PutCallStoreInv

LEMMA ConflictStoreInv ==
    ASSUME StoreInv, NEW s \in Stores, Conflict(s)
    PROVE  StoreInv'
<1>1. op' = [op EXCEPT ![s] = Idle] /\ UNCHANGED <<now, saga, promised>>
  BY DEF Conflict, Return
<1>2. /\ op' \in [Stores -> {Idle} \cup LeaseCall \cup PutCall] /\ op'[s] = Idle
      /\ \A s2 \in Stores \ {s} : op'[s2] = op[s2]
  BY <1>1 DEF StoreInv, TypeOK
<1>3. CallSound(op[s])'
  BY <1>2 DEF CallSound, LeaseCallSound, PutCallSound, Idle
<1> QED BY <1>1, <1>2, <1>3, CallStoreInv

LEMMA TickStoreInv ==
    ASSUME StoreInv, Tick
    PROVE  StoreInv'
<1>1. TypeOK'
  BY SagaStoreAssumption DEF StoreInv, TypeOK, Tick
<1>2. (\A t \in Tasks : RowSound(saga[t]))'
  BY DEF StoreInv, RowSound, Tick
<1>3. (\A s \in Stores : CallSound(op[s]))'
  <2> SUFFICES ASSUME NEW s \in Stores PROVE CallSound(op[s])'
    OBVIOUS
  <2>1. CallSound(op[s]) /\ op[s] \in {Idle} \cup LeaseCall \cup PutCall /\ now \in Nat
    BY DEF StoreInv, TypeOK
  <2> QED BY <2>1 DEF Tick, CallSound, LeaseCallSound, PutCallSound, LeaseCall, PutCall,
                      Idle, RowSound
<1>4. HolderIsRecorded'
  BY DEF StoreInv, TypeOK, HolderIsRecorded, Holds, Tick
<1> QED BY <1>1, <1>2, <1>3, <1>4 DEF StoreInv

-----------------------------------------------------------------------------
(* The invariant is preserved by every step of every store. *)
LEMMA NextStoreInv == StoreInv /\ [Next]_vars => StoreInv'
<1> SUFFICES ASSUME StoreInv, [Next]_vars PROVE StoreInv'
  OBVIOUS
<1>1. CASE Tick
  BY <1>1, TickStoreInv
<1>2. ASSUME NEW s \in Stores, Write(s) PROVE StoreInv'
  BY <1>2, AcquireWriteStoreInv, HeartbeatWriteStoreInv, PutWriteStoreInv, ConflictStoreInv
  DEF Write
<1>3. ASSUME NEW s \in Stores, NEW t \in Tasks, Call(s, t) PROVE StoreInv'
  BY <1>3, CreateStoreInv, LeaseCallStoreInv, MarkStoreInv, PutDispatchedStoreInv DEF Call
<1>4. CASE UNCHANGED vars
  BY <1>4 DEF vars, StoreInv, TypeOK, RowSound, CallSound, LeaseCallSound, PutCallSound,
              HolderIsRecorded, Holds
<1> QED BY <1>1, <1>2, <1>3, <1>4 DEF Next

(* The row types, and that every pending write still agrees with the row it *)
(* was decided from, hold in every reachable state of the store.            *)
THEOREM StoreInvHolds == Spec => []StoreInv
<1>1. Init => StoreInv
  BY InitStoreInv
<1>2. StoreInv /\ [Next]_vars => StoreInv'
  BY NextStoreInv
<1> QED BY <1>1, <1>2, PTL DEF Spec

(* The store's type invariant. *)
THEOREM TypeCorrect == Spec => []TypeOK
<1>1. StoreInv => TypeOK
  BY DEF StoreInv
<1> QED BY <1>1, StoreInvHolds, PTL

(* Two owners never hold an unexpired lease on one task at the same time,   *)
(* for any number of processes and whatever they interleave                 *)
(* (acquire_lease and heartbeat of tasks/store.py).                         *)
THEOREM MutualExclusion == Spec => []OneHolder
<1>1. StoreInv => OneHolder
  BY DEF StoreInv, HolderIsRecorded, OneHolder
<1> QED BY <1>1, StoreInvHolds, PTL

-----------------------------------------------------------------------------
(* What a step does to one row. *)
RowStep(t) ==
    /\ saga[t].state \in Terminal => saga'[t] = [saga[t] EXCEPT !.reason = saga'[t].reason]
    /\ saga'[t].expires >= saga[t].expires

LEMMA UnchangedRowStep ==
    ASSUME StoreInv, NEW t \in Tasks, saga'[t] = saga[t]
    PROVE  RowStep(t)
<1>1. saga[t] \in Row
  BY DEF StoreInv, TypeOK
<1> QED BY <1>1 DEF RowStep, Row

(* A step of a store leaves a terminal row alone but for its reason, and no *)
(* row's expiry goes down.                                                  *)
LEMMA StepRowStep ==
    ASSUME StoreInv, [Next]_vars, NEW t \in Tasks
    PROVE  RowStep(t)
<1>0. saga \in [Tasks -> Row] /\ saga[t] \in Row
  BY DEF StoreInv, TypeOK
<1>1. ASSUME NEW s \in Stores, AcquireWrite(s) \/ HeartbeatWrite(s)
      PROVE  RowStep(t)
  <2>1. /\ op[s] \in LeaseCall /\ Mutable(saga[op[s].task]) /\ op[s].until \in Nat
        /\ saga[op[s].task].expires < op[s].until /\ op[s].task \in Tasks
        /\ GrantLease(op[s])
    <3>1. /\ op[s] \in LeaseCall /\ op[s].at < op[s].until /\ Mutable(saga[op[s].task])
          /\ GrantLease(op[s])
          /\ \/ saga[op[s].task].expires <= op[s].at
             \/ saga[op[s].task].expires < op[s].until
      BY <1>1 DEF AcquireWrite, AcquireWhere, HeartbeatWrite, HeartbeatWhere, StoreInv, TypeOK,
                  CallSound, LeaseCallSound, LeaseCall, PutCall, Idle
    <3>2. op[s].until \in Nat /\ op[s].at \in Nat
      BY <3>1, SagaStoreAssumption DEF LeaseCall, Expiries
    <3>3. saga[op[s].task].expires \in Nat /\ op[s].task \in Tasks
      BY <3>1, <1>0 DEF LeaseCall, Row
    <3> QED BY <3>1, <3>2, <3>3
  <2>2. CASE t = op[s].task
    <3>1. saga'[t].expires = op[s].until /\ saga[t].state \notin Terminal
      BY <2>1, <2>2, <1>0 DEF GrantLease, Mutable, Row
    <3> QED BY <3>1, <2>1, <2>2, <1>0 DEF RowStep, Row
  <2>3. CASE t # op[s].task
    BY <2>1, <2>3, <1>0, UnchangedRowStep DEF GrantLease
  <2> QED BY <2>2, <2>3
<1>2. ASSUME NEW s \in Stores, PutWrite(s)
      PROVE  RowStep(t)
  <2>1. /\ op[s] \in PutCall /\ op[s].task \in Tasks /\ op[s].row \in Row
        /\ saga'[t] = IF t = op[s].task THEN op[s].row ELSE saga[t]
        /\ RowSound(op[s].row) /\ op[s].row.expires <= saga[op[s].task].expires
        /\ op[s].row.state # "absent"
        /\ RowSound(saga[op[s].task]) /\ PutWhere(saga[op[s].task], op[s].row)
    BY <1>0, <1>2 DEF PutWrite, StoreInv, TypeOK, CallSound, PutCallSound, LeaseCall, PutCall,
                      Idle, Terminal
  <2>2. CASE t = op[s].task
    <3>1. saga'[t] = op[s].row /\ saga[t] \in Row /\ RowSound(saga[t]) /\ PutWhere(saga[t], op[s].row)
      BY <2>1, <2>2, <1>0
    <3>2. saga'[t].expires >= saga[t].expires
      BY <2>1, <3>1 DEF PutWhere, NullLease, SameLease, RowSound, Row
    <3>3. ASSUME saga[t].state \in Terminal
          PROVE  saga'[t] = [saga[t] EXCEPT !.reason = saga'[t].reason]
      BY <2>1, <3>1, <3>3 DEF PutWhere, Row, Terminal
    <3> QED BY <3>2, <3>3 DEF RowStep
  <2>3. CASE t # op[s].task
    BY <2>1, <2>3, UnchangedRowStep
  <2> QED BY <2>2, <2>3
<1>3. ASSUME NEW s \in Stores, NEW t2 \in Tasks, NEW comps \in CompSets, Create(s, t2, comps)
      PROVE  RowStep(t)
  <2>1. CASE t = t2
    <3>1. /\ saga[t].state = "absent" /\ saga[t].expires = 0
          /\ saga'[t] = FreshRow("planned", comps)
      BY <1>0, <1>3, <2>1 DEF Create, StoreInv, RowSound
    <3> QED BY <3>1 DEF RowStep, FreshRow, Terminal
  <2>2. CASE t # t2
    BY <1>0, <1>3, <2>2, UnchangedRowStep DEF Create
  <2> QED BY <2>1, <2>2
<1>4. CASE UNCHANGED saga
  BY <1>4, UnchangedRowStep
<1>5. ASSUME NEW s \in Stores, NEW t2 \in Tasks, Call(s, t2)
      PROVE  UNCHANGED saga \/ \E comps \in CompSets : Create(s, t2, comps)
  BY <1>5 DEF Call, AcquireLease, Heartbeat, MarkTerminal, MarkFailed, PutDispatched
<1>6. ASSUME NEW s \in Stores, Conflict(s) PROVE UNCHANGED saga
  BY <1>6 DEF Conflict
<1>7. Tick \/ UNCHANGED vars => UNCHANGED saga
  BY DEF Tick, vars
<1> QED BY <1>1, <1>2, <1>3, <1>4, <1>5, <1>6, <1>7 DEF Next, Write

(* No step of any store changes a terminal saga but for its reason: what one *)
(* process finished no other process overwrites from an older read.          *)
THEOREM TerminalIsFinal == Spec => TerminalFinal
<1>1. StoreInv /\ [Next]_vars =>
        [\A t \in Tasks : saga[t].state \in Terminal =>
            saga'[t] = [saga[t] EXCEPT !.reason = saga'[t].reason]]_vars
  BY StepRowStep DEF RowStep
<1> QED BY <1>1, StoreInvHolds, PTL DEF Spec, TerminalFinal

(* No step of any store shortens or erases a lease. *)
THEOREM LeaseNeverShrinks == Spec => LeaseOnlyGrows
<1>1. StoreInv /\ [Next]_vars => [\A t \in Tasks : saga'[t].expires >= saga[t].expires]_vars
  BY StepRowStep DEF RowStep
<1> QED BY <1>1, StoreInvHolds, PTL DEF Spec, LeaseOnlyGrows

-----------------------------------------------------------------------------
(* SagaStore implements SagaLifecycle: a conditional write is the atomic     *)
(* operation, every other step of a store leaves the projected row as it was.*)

LEMMA LifecycleInit == Init => Lifecycle!Init
  BY DEF Init, Lifecycle!Init, FreshRow, View

LEMMA LifecycleStep ==
    ASSUME StoreInv, [Next]_vars
    PROVE  [Lifecycle!Next]_(Lifecycle!vars)
<1>0. saga \in [Tasks -> Row]
  BY DEF StoreInv, TypeOK
<1>1. CASE UNCHANGED <<now, saga>>
  BY <1>1 DEF Lifecycle!vars
<1>2. CASE Tick
  BY <1>2 DEF Tick, Lifecycle!Next, Lifecycle!Tick
<1>3. ASSUME NEW s \in Stores, NEW t \in Tasks, NEW comps \in CompSets, Create(s, t, comps)
      PROVE  Lifecycle!Next
  <2>1. /\ saga[t].state = "absent" /\ now' = now
        /\ saga' = [saga EXCEPT ![t] = FreshRow("planned", comps)]
        /\ saga[t].owner = NoOwner /\ saga[t].expires = 0
    BY <1>3 DEF Create, StoreInv, RowSound
  <2>2. Lifecycle!Seed(t, "planned")
    BY <2>1, <1>0 DEF Lifecycle!Seed, Lifecycle!Unleased, View, FreshRow
  <2> QED BY <2>2 DEF Lifecycle!Next, Lifecycle!Unleased
<1>4. ASSUME NEW s \in Stores, AcquireWrite(s)
      PROVE  Lifecycle!Next
  <2>0. PICK c \in LeaseCall : c = op[s]
    BY <1>4 DEF AcquireWrite, StoreInv, TypeOK, PutCall, Idle
  <2>1. /\ c.at <= now /\ c.at < c.until /\ c.at \in Nat /\ c.until \in Nat
        /\ c.task \in Tasks /\ c.owner \in Owners /\ c.until \in Expiries
        /\ Mutable(saga[c.task]) /\ saga[c.task].expires <= c.at
        /\ GrantLease(c) /\ now' = now
    <3>1. /\ c.at <= now /\ c.at < c.until /\ Mutable(saga[c.task])
          /\ saga[c.task].expires <= c.at /\ GrantLease(c) /\ now' = now
      BY <1>4, <2>0 DEF AcquireWrite, AcquireWhere, StoreInv, CallSound, LeaseCallSound, LeaseCall
    <3>2. c.until \in Nat /\ c.at \in Nat
      BY SagaStoreAssumption DEF LeaseCall, Expiries
    <3> QED BY <3>1, <3>2 DEF LeaseCall
  <2>2. /\ saga[c.task].state \in {"planned", "dispatched", "running"}
        /\ saga[c.task].expires <= now /\ c.until > saga[c.task].expires
    <3>1. saga[c.task] \in Row /\ now \in Nat
      BY <1>0, <2>1 DEF StoreInv, TypeOK
    <3> QED BY <3>1, <2>1 DEF Mutable, Row, TaskState
  <2>3. [t \in Tasks |-> View(saga'[t])]
          = [[t \in Tasks |-> View(saga[t])] EXCEPT ![c.task] =
                [state |-> "running", owner |-> c.owner, expires |-> c.until]]
    <3>1. saga \in [Tasks -> Row] /\ saga[c.task] \in Row
      BY <1>0, <2>1 DEF StoreInv, TypeOK
    <3>2. /\ View(saga'[c.task]) = [state |-> "running", owner |-> c.owner, expires |-> c.until]
          /\ \A t \in Tasks \ {c.task} : saga'[t] = saga[t]
      BY <2>1, <3>1 DEF GrantLease, View, Row
    <3> QED BY <2>1, <3>2
  <2>4. Lifecycle!Acquire(c.task, c.owner, c.until)
    BY <2>1, <2>2, <2>3 DEF Lifecycle!Acquire, Lifecycle!Unleased, View
  <2> QED BY <2>1, <2>4 DEF Lifecycle!Next
<1>5. ASSUME NEW s \in Stores, HeartbeatWrite(s)
      PROVE  Lifecycle!Next
  <2>0. PICK c \in LeaseCall : c = op[s]
    BY <1>5 DEF HeartbeatWrite, StoreInv, TypeOK, PutCall, Idle
  <2>1. /\ c.task \in Tasks /\ c.until \in Expiries /\ Mutable(saga[c.task])
        /\ saga[c.task].owner = c.owner /\ c.until > saga[c.task].expires
        /\ c.at < saga[c.task].expires /\ c.at \in Nat
        /\ GrantLease(c) /\ now' = now
    BY <1>5, <2>0 DEF HeartbeatWrite, HeartbeatWhere, LeaseCall
  <2>2. saga[c.task].state = "running" /\ saga[c.task] \in Row
    <3>1. saga[c.task] \in Row /\ RowSound(saga[c.task])
      BY <1>0, <2>1 DEF StoreInv
    <3> QED BY <3>1, <2>1 DEF RowSound, Mutable, Row, TaskState
  <2>3. [t \in Tasks |-> View(saga'[t])]
          = [[t \in Tasks |-> View(saga[t])] EXCEPT ![c.task] =
                [View(saga[c.task]) EXCEPT !.expires = c.until]]
    BY <2>1, <2>2, <1>0 DEF GrantLease, View, Row
  <2>4. Lifecycle!Renew(c.task, c.until)
    BY <2>1, <2>2, <2>3 DEF Lifecycle!Renew, View
  <2> QED BY <2>1, <2>4 DEF Lifecycle!Next
<1>6. ASSUME NEW s \in Stores, PutWrite(s)
      PROVE  Lifecycle!Next \/ UNCHANGED Lifecycle!vars
  <2>0. PICK c \in PutCall : c = op[s]
    BY <1>6 DEF PutWrite, StoreInv, TypeOK, LeaseCall, Idle
  <2>1. /\ c.task \in Tasks /\ c.row \in Row /\ RowSound(c.row)
        /\ saga[c.task] \in Row /\ RowSound(saga[c.task])
        /\ PutWhere(saga[c.task], c.row) /\ c.row.expires <= saga[c.task].expires
        /\ c.row.state \in Terminal \cup {"dispatched"}
        /\ c.row.state \in Terminal => saga[c.task].state # "absent"
        /\ saga' = [saga EXCEPT ![c.task] = c.row] /\ now' = now
    BY <1>0, <1>6, <2>0 DEF PutWrite, StoreInv, CallSound, PutCallSound, PutCall
  <2>2. c.row.owner = saga[c.task].owner /\ c.row.expires = saga[c.task].expires
    BY <2>1 DEF PutWhere, NullLease, SameLease, RowSound, Row, Terminal
  <2>3. [t \in Tasks |-> View(saga'[t])]
          = [[t \in Tasks |-> View(saga[t])] EXCEPT ![c.task] = View(c.row)]
    BY <1>0, <2>1
  <2>4. View(c.row) = [View(saga[c.task]) EXCEPT !.state = c.row.state]
    BY <2>2 DEF View
  <2>5. CASE saga[c.task].state \in Terminal
    <3>1. c.row.state = saga[c.task].state
      BY <2>1, <2>5 DEF PutWhere, Row, Terminal
    <3>2. View(c.row) = View(saga[c.task])
      BY <2>2, <3>1 DEF View
    <3> QED BY <2>1, <2>3, <3>2 DEF Lifecycle!vars
  <2>6. CASE saga[c.task].state \notin Terminal /\ c.row.state \in Terminal
    <3>1. saga[c.task].state \in {"planned", "dispatched", "running"}
      BY <2>1, <2>6 DEF Row, TaskState
    <3>2. Lifecycle!Finish(c.task, c.row.state)
      BY <2>1, <2>3, <2>4, <2>6, <3>1
      DEF Lifecycle!Finish, Lifecycle!Unleased, Lifecycle!Finished, Terminal, View
    <3> QED BY <2>1, <2>6, <3>2 DEF Lifecycle!Next, Lifecycle!Finished, Terminal
  <2>7. CASE saga[c.task].state \notin Terminal /\ c.row.state = "dispatched"
    <3>1. saga[c.task].state \in {"absent", "planned", "dispatched"}
      BY <2>1, <2>2, <2>7 DEF RowSound, Row, TaskState
    <3>2. Lifecycle!Seed(c.task, "dispatched")
      BY <2>1, <2>3, <2>4, <2>7, <3>1 DEF Lifecycle!Seed, Lifecycle!Unleased, View
    <3> QED BY <2>1, <3>2 DEF Lifecycle!Next, Lifecycle!Unleased
  <2> QED BY <2>1, <2>5, <2>6, <2>7
<1>7. ASSUME NEW s \in Stores, NEW t \in Tasks, Call(s, t)
      PROVE  UNCHANGED <<now, saga>> \/ \E comps \in CompSets : Create(s, t, comps)
  BY <1>7 DEF Call, AcquireLease, Heartbeat, MarkTerminal, MarkFailed, PutDispatched
<1>8. ASSUME NEW s \in Stores, Conflict(s) PROVE UNCHANGED <<now, saga>>
  BY <1>8 DEF Conflict
<1>9. UNCHANGED vars => UNCHANGED <<now, saga>>
  BY DEF vars
<1> QED BY <1>1, <1>2, <1>3, <1>4, <1>5, <1>6, <1>7, <1>8, <1>9 DEF Next, Write

(* Every operation of every store is, to any reader of a saga's state, owner *)
(* and expiry, one atomic step of SagaLifecycle or none.                     *)
THEOREM Refinement == Spec => ImplementsLifecycle
<1>1. Init => Lifecycle!Init
  BY LifecycleInit
<1>2. StoreInv /\ [Next]_vars => [Lifecycle!Next]_(Lifecycle!vars)
  BY LifecycleStep
<1> QED BY <1>1, <1>2, StoreInvHolds, PTL DEF Spec, ImplementsLifecycle, Lifecycle!Spec
=============================================================================
