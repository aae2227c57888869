-------------------------- MODULE EventLogProofs --------------------------
(***************************************************************************)
(* What EventLog promises whatever the number of connections, and whatever *)
(* they do: a load-bearing event is never dropped, a key is recorded once, *)
(* only races and deaths break the chain, a compaction spares what it saw  *)
(* was still needed, and a cursor goes back only between two boots.        *)
(*                                                                         *)
(* A deletion fixes its victims before it deletes them, and other clients  *)
(* insert and delete in between.  What saves the load-bearing events is    *)
(* AUTOINCREMENT: a victim's sequence is below nextSeq, so no other event  *)
(* ever takes its place.                                                   *)
(***************************************************************************)
EXTENDS EventLog, WellFoundedInduction, TLAPS

(* The tables and the clients' methods are functions, of live sequences below *)
(* nextSeq and of the clients.                                                *)
Shape ==
    /\ nextSeq \in Nat
    /\ \A s \in Live : s \in Nat /\ s < nextSeq
    /\ op = [c \in Clients |-> op[c]]

(* The victims of a deletion under way are events of the past, and noise if   *)
(* they are still there.                                                      *)
Doomed(c) == IF In(c, "prune") \/ In(c, "compact") THEN op[c].doomed ELSE {}

VictimsAreNoise ==
    \A c \in Clients : \A s \in Doomed(c) :
        s \in Nat /\ s < nextSeq /\ (s \in Live => ~rows[s].bearing)

EventInv == Shape /\ OneRowPerKey /\ VictimsAreNoise

(* The actions that leave the tables alone and fix no victims. *)
Quiet(c) ==
    \/ \E bearing \in BOOLEAN, key \in Keys \cup {NoKey} : Append(c, bearing, key)
    \/ InsertConflict(c)
    \/ \E marker \in BOOLEAN : Compact(c, marker)
    \/ CompactFloor(c) \/ CompactMarker(c) \/ RechainRead(c)
    \/ BootHead(c) \/ BootSaved(c)
    \/ \E p \in Projections : BootReplay(c, p) \/ BootRefusesChain(c, p)
    \/ AdvanceCheck(c) \/ AdvanceRefused(c) \/ AdvanceSet(c)
    \/ BootAtHead(c) \/ BootIncomplete(c) \/ Crash(c)

(* Such an action leaves the client outside a deletion. *)
LEMMA QuietStep ==
    ASSUME Shape, NEW c \in Clients, Quiet(c)
    PROVE  /\ UNCHANGED <<rows, nextSeq>>
           /\ op' = [op EXCEPT ![c] = op'[c]]
           /\ op'[c].kind \notin {"prune", "compact"}
  <1>1. ASSUME NEW o, Becomes(c, o), o.kind \notin {"prune", "compact"}
        PROVE  /\ op' = [op EXCEPT ![c] = op'[c]]
               /\ op'[c].kind \notin {"prune", "compact"}
    BY <1>1 DEF Shape, Becomes
  <1>2. CASE \E bearing \in BOOLEAN, key \in Keys \cup {NoKey} : Append(c, bearing, key)
    BY <1>1, <1>2 DEF Append, AppendOp
  <1>3. CASE InsertConflict(c)
    BY <1>1, <1>3 DEF InsertConflict, Idle
  <1>4. CASE \E marker \in BOOLEAN : Compact(c, marker)
    BY <1>1, <1>4 DEF Compact
  <1>5. CASE CompactFloor(c)
    BY <1>1, <1>5 DEF CompactFloor
  <1>6. CASE CompactMarker(c) \/ RechainRead(c)
    BY <1>1, <1>6 DEF CompactMarker, RechainRead, AppendOp
  <1>7. CASE BootHead(c) \/ BootSaved(c)
    BY <1>1, <1>7 DEF BootHead, BootSaved
  <1>8. CASE \E p \in Projections : BootReplay(c, p) \/ BootRefusesChain(c, p)
    BY <1>1, <1>8 DEF BootReplay, BootRefusesChain, Idle
  <1>9. CASE AdvanceCheck(c) \/ AdvanceSet(c)
    BY <1>1, <1>9 DEF AdvanceCheck, AdvanceSet, Steps
  <1>10. CASE AdvanceRefused(c) \/ BootIncomplete(c) \/ Crash(c)
    BY <1>1, <1>10 DEF AdvanceRefused, BootIncomplete, Crash, Idle
  <1>11. CASE BootAtHead(c)
    BY <1>1, <1>11 DEF BootAtHead, Idle
  <1>12. QED
    BY <1>2, <1>3, <1>4, <1>5, <1>6, <1>7, <1>8, <1>9, <1>10, <1>11 DEF Quiet

(* A quiet step keeps the invariant: it fixes no victims and moves no row. *)
LEMMA QuietInv ==
    ASSUME EventInv, NEW c \in Clients, Quiet(c)
    PROVE  EventInv'
  <1>1. /\ UNCHANGED <<rows, nextSeq>>
        /\ op' = [op EXCEPT ![c] = op'[c]]
        /\ op'[c].kind \notin {"prune", "compact"}
    BY QuietStep DEF EventInv
  <1>2. Shape'
    BY <1>1 DEF EventInv, Shape, Live
  <1>3. OneRowPerKey'
    BY <1>1 DEF EventInv, OneRowPerKey, Live
  <1>4. VictimsAreNoise'
    <2>1. \A d \in Clients : Doomed(d)' = {} \/ Doomed(d)' = Doomed(d)
      BY <1>1 DEF EventInv, Shape, Doomed, In
    <2>2. QED  BY <1>1, <2>1 DEF EventInv, VictimsAreNoise, Live
  <1>5. QED  BY <1>2, <1>3, <1>4 DEF EventInv

(* A step that fixes the victims of client c's deletion, or frees it of them, *)
(* and inserts no row.                                                        *)
LEMMA VictimsInv ==
    ASSUME EventInv, NEW c \in Clients,
           op' = [op EXCEPT ![c] = op'[c]], nextSeq' = nextSeq,
           DOMAIN rows' \subseteq Live,
           \A s \in DOMAIN rows' : /\ rows'[s].bearing = rows[s].bearing
                                   /\ rows'[s].key = rows[s].key,
           \A s \in Doomed(c)' : s \in Live /\ ~rows[s].bearing
    PROVE  EventInv'
  <1>1. Shape'
    BY DEF EventInv, Shape, Live
  <1>2. OneRowPerKey'
    BY DEF EventInv, OneRowPerKey, Live
  <1>3. VictimsAreNoise'
    <2> SUFFICES ASSUME NEW d \in Clients, NEW s \in Doomed(d)'
                 PROVE  s \in Nat /\ s < nextSeq /\ (s \in DOMAIN rows' => ~rows'[s].bearing)
      BY DEF VictimsAreNoise, Live
    <2>1. CASE d = c
      BY <2>1 DEF EventInv, Shape
    <2>2. CASE d # c
      <3>1. Doomed(d)' = Doomed(d)
        BY <2>2 DEF EventInv, Shape, Doomed, In
      <3>2. QED  BY <3>1 DEF EventInv, VictimsAreNoise, Live
    <2>3. QED  BY <2>1, <2>2
  <1>4. QED  BY <1>1, <1>2, <1>3 DEF EventInv

(* An insert takes a sequence that no deletion under way has among its victims. *)
LEMMA InsertInv ==
    ASSUME EventInv, NEW c \in Clients, Insert(c)
    PROVE  EventInv'
  <1> USE DEF EventInv
  <1>1. /\ Live' = Live \cup {nextSeq} /\ nextSeq \notin Live
        /\ \A s \in Live : rows'[s] = rows[s]
        /\ rows'[nextSeq].key = op[c].key
        /\ nextSeq' = nextSeq + 1
    BY DEF Insert, Live, NewRow, Shape
  <1>2. op' = [op EXCEPT ![c] = Idle]
    BY DEF Insert, Becomes
  <1>3. Shape'
    BY <1>1, <1>2 DEF Shape
  <1>4. OneRowPerKey'
    BY <1>1 DEF OneRowPerKey, Insert, Recorded
  <1>5. VictimsAreNoise'
    <2>1. \A d \in Clients : Doomed(d)' = {} \/ Doomed(d)' = Doomed(d)
      BY <1>2 DEF Shape, Doomed, In, Idle
    <2>2. \A d \in Clients : \A s \in Doomed(d) : s \in Nat /\ s # nextSeq /\ s < nextSeq + 1
      BY DEF VictimsAreNoise, Shape
    <2>3. QED  BY <1>1, <2>1, <2>2 DEF VictimsAreNoise, Shape
  <1>6. QED  BY <1>3, <1>4, <1>5

(* The actions that read a deletion's victims, delete, or link again. *)
LEMMA DeletionInv ==
    ASSUME EventInv, NEW c \in Clients,
           \/ \E targets \in SUBSET Seqs : Prune(c, targets)
           \/ PruneDelete(c) \/ CompactPlan(c) \/ CompactDelete(c) \/ RechainWrite(c)
    PROVE  EventInv'
  <1>0. ASSUME NEW o, Becomes(c, o)
        PROVE  op' = [op EXCEPT ![c] = op'[c]] /\ op'[c] = o
    BY <1>0 DEF EventInv, Shape, Becomes
  <1>1. CASE \E targets \in SUBSET Seqs : Prune(c, targets)
    <2>1. PICK targets \in SUBSET Seqs : Prune(c, targets)
      BY <1>1
    <2>2. op' = [op EXCEPT ![c] = op'[c]] /\ op'[c].doomed = targets \cap Live
      BY <1>0, <2>1 DEF Prune
    <2>3. QED  BY VictimsInv, <2>1, <2>2 DEF Prune, Doomed, Live
  <1>2. CASE PruneDelete(c) \/ CompactDelete(c)
    <2>1. op' = [op EXCEPT ![c] = op'[c]] /\ op'[c].kind = "rechain"
      BY <1>0, <1>2 DEF PruneDelete, CompactDelete
    <2>2. /\ DOMAIN rows' \subseteq Live /\ \A s \in DOMAIN rows' : rows'[s] = rows[s]
          /\ nextSeq' = nextSeq
      BY <1>2 DEF PruneDelete, CompactDelete, Without, Restrict, Live
    <2>3. QED  BY VictimsInv, <2>1, <2>2 DEF Doomed, In
  <1>3. CASE CompactPlan(c)
    <2>1. /\ op' = [op EXCEPT ![c] = op'[c]]
          /\ op'[c].kind \in {"idle", "marker"} \/ op'[c].doomed = Droppable(c)
      BY <1>0, <1>3 DEF CompactPlan, Relinked, Idle
    <2>2. Doomed(c)' \subseteq Droppable(c)
      BY <2>1 DEF Doomed, In
    <2>3. QED  BY VictimsInv, <1>3, <2>1, <2>2 DEF CompactPlan, Droppable, Live
  <1>4. CASE RechainWrite(c)
    <2>1. /\ op' = [op EXCEPT ![c] = op'[c]]
          /\ op'[c].kind \in {"idle", "marker"}
      BY <1>0, <1>4 DEF RechainWrite, Relinked, Idle
    <2>2. /\ DOMAIN rows' = Live /\ nextSeq' = nextSeq
          /\ \A s \in Live : /\ rows'[s].bearing = rows[s].bearing
                             /\ rows'[s].key = rows[s].key
      BY <1>4 DEF RechainWrite, Live
    <2>3. QED  BY VictimsInv, <2>1, <2>2 DEF Doomed, In
  <1>5. QED  BY <1>1, <1>2, <1>3, <1>4

(* EventInv is an invariant. *)
THEOREM EventInvHolds == Spec => []EventInv
  <1>1. Init => EventInv
    BY DEF Init, EventInv, Shape, OneRowPerKey, VictimsAreNoise, Doomed, In, Idle, Live
  <1>2. EventInv /\ [Next]_vars => EventInv'
    <2> SUFFICES ASSUME EventInv, [Next]_vars PROVE EventInv'
      OBVIOUS
    <2>1. CASE UNCHANGED vars
      BY <2>1 DEF vars, EventInv, Shape, OneRowPerKey, VictimsAreNoise, Doomed, In, Live
    <2>2. CASE Next
      <3>1. PICK c \in Clients :
              \/ Quiet(c) \/ Insert(c)
              \/ \E targets \in SUBSET Seqs : Prune(c, targets)
              \/ PruneDelete(c) \/ CompactPlan(c) \/ CompactDelete(c) \/ RechainWrite(c)
        BY <2>2, Zenon DEF Next, Quiet
      <3>2. QED  BY <3>1, QuietInv, InsertInv, DeletionInv
    <2>3. QED  BY <2>1, <2>2
  <1>3. QED  BY <1>1, <1>2, PTL DEF Spec

(* An append under an idempotency key is recorded at most once, whatever the  *)
(* clients that race for it.                                                  *)
THEOREM KeysAreUnique == Spec => []OneRowPerKey
  BY EventInvHolds, PTL DEF EventInv

(* prune and compact_noise never drop a load-bearing event, whatever other    *)
(* clients did between the SELECT that chose the victims and the DELETE.      *)
THEOREM LoadBearingIsKept == Spec => LoadBearingKept
  <1> DEFINE Kept == \A s \in Live : rows[s].bearing => s \in DOMAIN rows'
  <1>1. EventInv /\ [Next]_vars => [Kept]_vars
    <2> SUFFICES ASSUME EventInv, Next PROVE Kept
      BY DEF vars
    <2>1. PICK c \in Clients :
            \/ Quiet(c) \/ Insert(c)
            \/ \E targets \in SUBSET Seqs : Prune(c, targets)
            \/ PruneDelete(c) \/ CompactPlan(c) \/ CompactDelete(c) \/ RechainWrite(c)
      BY Zenon DEF Next, Quiet
    <2>2. CASE Quiet(c)
      BY <2>2, QuietStep DEF EventInv, Live
    <2>3. CASE Insert(c) \/ RechainWrite(c)
      BY <2>3 DEF Insert, RechainWrite, Live
    <2>4. CASE (\E targets \in SUBSET Seqs : Prune(c, targets)) \/ CompactPlan(c)
      BY <2>4 DEF Prune, CompactPlan, Live
    <2>5. CASE PruneDelete(c) \/ CompactDelete(c)
      <3>1. \A s \in op[c].doomed : s \in Live => ~rows[s].bearing
        BY <2>5 DEF EventInv, VictimsAreNoise, Doomed, PruneDelete, CompactDelete
      <3>2. DOMAIN rows' = Live \ op[c].doomed
        BY <2>5 DEF PruneDelete, CompactDelete, Without, Restrict
      <3>3. QED  BY <3>1, <3>2
    <2>6. QED  BY <2>1, <2>2, <2>3, <2>4, <2>5
  <1>2. QED  BY <1>1, EventInvHolds, PTL DEF Spec, LoadBearingKept

-----------------------------------------------------------------------------
(* The types, for any number of connections. *)

(* Every set of naturals has a least element, every bounded one a greatest. *)
LEMMA MinIs ==
    ASSUME NEW S, S \subseteq Nat, S # {}
    PROVE  Min(S) \in S /\ \A x \in S : Min(S) <= x
  <1> DEFINE R == {ss \in Nat \X Nat : ss[1] < ss[2]}
  <1>1. IsWellFoundedOn(R, Nat)
    BY NatLessThanWellFounded DEF OpToRel
  <1>2. \A x, y \in Nat : x < y => <<x, y>> \in R
    OBVIOUS
  <1> HIDE DEF R
  <1>3. PICK x \in S : \A y \in S : ~(<<y, x>> \in R)
    BY <1>1, WFMin
  <1>4. ASSUME NEW y \in S PROVE x <= y
    <2>1. x \in Nat /\ y \in Nat
      OBVIOUS
    <2>2. ~(y < x)
      BY <1>2, <1>3, <2>1
    <2>3. QED  BY <2>1, <2>2
  <1>5. QED  BY <1>4 DEF Min

LEMMA MaxIs ==
    ASSUME NEW n \in Nat, NEW S, S \subseteq 0 .. n, S # {}
    PROVE  Max(S) \in S /\ \A x \in S : x <= Max(S)
  <1>1. PICK T : T = {n - x : x \in S}
    OBVIOUS
  <1>2. T \subseteq Nat
    BY <1>1
  <1>3. T # {}
    BY <1>1
  <1>4. Min(T) \in T /\ \A y \in T : Min(T) <= y
    BY <1>2, <1>3, MinIs
  <1>5. PICK m \in S : n - m = Min(T)
    BY <1>1, <1>4
  <1>6. ASSUME NEW x \in S PROVE m >= x
    <2>1. n - x \in T
      BY <1>1
    <2>2. n - m <= n - x /\ m \in 0 .. n /\ x \in 0 .. n
      BY <1>4, <1>5, <2>1
    <2>3. QED  BY <2>2
  <1>7. Max(S) \in S /\ \A x \in S : Max(S) >= x
    BY <1>6 DEF Max
  <1>8. QED  BY <1>7

LEMMA LatestTyped ==
    ASSUME NEW n \in Nat, NEW S, S \subseteq 1 .. n
    PROVE  /\ Latest(S) \in 0 .. n /\ \A s \in S : s <= Latest(S)
           /\ S # {} => Latest(S) \in S
  <1>1. CASE S = {}
    BY <1>1 DEF Latest
  <1>2. CASE S # {}
    <2>1. S \subseteq 0 .. n
      OBVIOUS
    <2>2. Max(S) \in S /\ \A s \in S : s <= Max(S)
      BY <1>2, <2>1, MaxIs
    <2>3. Latest(S) = Max(S)
      BY <1>2 DEF Latest
    <2>4. QED  BY <1>2, <2>1, <2>2, <2>3
  <1>3. QED  BY <1>1, <1>2

LEMMA OpFields ==
    ASSUME NEW o \in Op
    PROVE  /\ o.kind = "append" => /\ o.bearing \in BOOLEAN /\ o.key \in Keys \cup {NoKey}
                                  /\ o.prev \in Hash
           /\ o.kind \in {"prune", "compact"} => o.doomed \in SUBSET Seqs
           /\ o.kind \in {"compact", "floor", "plan", "rechain", "rewrite"} => o.marker \in BOOLEAN
           /\ o.kind \in {"compact", "floor", "plan", "boot", "replay", "check", "set", "compare"} =>
                 o.head \in 0 .. MaxSeq
           /\ o.kind \in {"compact", "plan"} => o.floor \in 0 .. MaxSeq
           /\ o.kind = "rewrite" => o.read \in SUBSET Seqs
           /\ o.kind \in {"replay", "check", "set", "compare"} =>
                 o.left \in SUBSET Projections /\ o.saved \in [Projections -> 0 .. MaxSeq]
           /\ o.kind \in {"check", "set", "compare"} =>
                 o.name \in Projections /\ o.rebuilt \in 0 .. MaxSeq /\ o.current \in 0 .. MaxSeq
  BY DEF Op, Idle

LEMMA OpTyped ==
    ASSUME TypeOK, NEW c \in Clients, NEW o \in Op, Becomes(c, o)
    PROVE  op' \in [Clients -> Op] /\ op'[c] = o
  BY DEF TypeOK, Becomes

LEMMA LogTyped ==
    ASSUME TypeOK
    PROVE  /\ MaxSeq \in Nat /\ Live \subseteq 1 .. MaxSeq /\ Latest(Live) \in 0 .. MaxSeq
           /\ HashAt(Live) \in Hash /\ \A c \in Clients : op[c] \in Op
           /\ Idle \in Op
  <1>1. MaxSeq \in Nat /\ Live \subseteq 1 .. MaxSeq
    BY EventLogAssumption DEF TypeOK, Seqs
  <1>2. Live # {} => Max(Live) \in Live
    BY <1>1, LatestTyped DEF Latest
  <1>3. HashAt(Live) \in Hash
    <2>1. \A s \in Live : rows[s].hash \in Hash
      BY DEF TypeOK, Row
    <2>2. QED  BY <1>2, <2>1 DEF HashAt, Hash
  <1>4. QED  BY <1>1, <1>3, LatestTyped DEF TypeOK, Op

(* What a client is to do next has a type, whatever it reads. *)
LEMMA OpKinds ==
    /\ [kind |-> "marker"] \in Op
    /\ \A bearing \in BOOLEAN, key \in Keys \cup {NoKey}, prev \in Hash :
          [kind |-> "append", bearing |-> bearing, key |-> key, prev |-> prev] \in Op
    /\ \A doomed \in SUBSET Seqs : [kind |-> "prune", doomed |-> doomed] \in Op
    /\ \A doomed \in SUBSET Seqs, head, floor \in 0 .. MaxSeq, marker \in BOOLEAN :
          [kind |-> "compact", doomed |-> doomed, head |-> head, floor |-> floor,
           marker |-> marker] \in Op
    /\ \A head \in 0 .. MaxSeq, marker \in BOOLEAN :
          [kind |-> "floor", head |-> head, marker |-> marker] \in Op
    /\ \A head, floor \in 0 .. MaxSeq, marker \in BOOLEAN :
          [kind |-> "plan", head |-> head, floor |-> floor, marker |-> marker] \in Op
    /\ \A marker \in BOOLEAN : [kind |-> "rechain", marker |-> marker] \in Op
    /\ \A read \in SUBSET Seqs, marker \in BOOLEAN :
          [kind |-> "rewrite", read |-> read, marker |-> marker] \in Op
    /\ \A head \in 0 .. MaxSeq : [kind |-> "boot", head |-> head] \in Op
    /\ \A head \in 0 .. MaxSeq, left \in SUBSET Projections,
          saved \in [Projections -> 0 .. MaxSeq] :
          [kind |-> "replay", head |-> head, left |-> left, saved |-> saved] \in Op
    /\ \A kind \in {"check", "set", "compare"}, head, rebuilt, current \in 0 .. MaxSeq,
          left \in SUBSET Projections, saved \in [Projections -> 0 .. MaxSeq], name \in Projections :
          [kind |-> kind, head |-> head, left |-> left, saved |-> saved, name |-> name,
           rebuilt |-> rebuilt, current |-> current] \in Op
  BY DEF Op

LEMMA TypedTurn ==
    ASSUME TypeOK, NEW c \in Clients, NEW o \in Op, Becomes(c, o),
           UNCHANGED <<rows, nextSeq, cursors, crashes>>
    PROVE  TypeOK'
  <1>1. op' \in [Clients -> Op]
    BY OpTyped
  <1>2. QED  BY <1>1 DEF TypeOK, Live

LEMMA AppendTyped ==
    ASSUME TypeOK, NEW c \in Clients,
           \/ \E bearing \in BOOLEAN, key \in Keys \cup {NoKey} : Append(c, bearing, key)
           \/ CompactMarker(c)
    PROVE  TypeOK'
  <1>1. PICK bearing \in BOOLEAN, key \in Keys \cup {NoKey} :
           Becomes(c, AppendOp(bearing, key)) /\ UNCHANGED <<rows, nextSeq, cursors, crashes>>
    BY DEF Append, CompactMarker
  <1>2. AppendOp(bearing, key) \in Op
    BY LogTyped, OpKinds DEF AppendOp
  <1>3. QED  BY <1>1, <1>2, TypedTurn

LEMMA InsertTyped ==
    ASSUME TypeOK, NEW c \in Clients, Insert(c)
    PROVE  TypeOK'
  <1>1. /\ op[c].bearing \in BOOLEAN /\ op[c].key \in Keys \cup {NoKey} /\ op[c].prev \in Hash
    BY LogTyped, OpFields DEF Insert, In
  <1>2. /\ nextSeq \in Seqs /\ nextSeq' \in 1 .. MaxSeq + 1
        /\ Becomes(c, Idle) /\ UNCHANGED <<cursors, crashes>>
        /\ DOMAIN rows' = Live \cup {nextSeq} /\ rows'[nextSeq] = NewRow(c)
        /\ \A s \in Live : s # nextSeq => rows'[s] = rows[s]
    BY LogTyped DEF Insert, TypeOK, Seqs, Live
  <1>3. NewRow(c) \in Row
    BY <1>1, <1>2 DEF NewRow, Row, Hash
  <1>4. Live' \subseteq Seqs /\ \A s \in Live' : rows'[s] \in Row
    BY <1>2, <1>3 DEF TypeOK, Live
  <1>5. op' \in [Clients -> Op]
    BY <1>2, LogTyped, OpTyped
  <1>6. QED  BY <1>2, <1>4, <1>5 DEF TypeOK

LEMMA IdleTurn ==
    ASSUME TypeOK, NEW c \in Clients,
           \/ InsertConflict(c) \/ AdvanceRefused(c) \/ BootIncomplete(c)
           \/ \E p \in Projections : BootRefusesChain(c, p)
    PROVE  TypeOK'
  <1>1. Becomes(c, Idle) /\ UNCHANGED <<rows, nextSeq, cursors, crashes>>
    BY DEF InsertConflict, AdvanceRefused, BootIncomplete, BootRefusesChain
  <1>2. QED  BY <1>1, LogTyped, TypedTurn

LEMMA PruneTyped ==
    ASSUME TypeOK, NEW c \in Clients, NEW targets \in SUBSET Seqs, Prune(c, targets)
    PROVE  TypeOK'
  <1>1. [kind |-> "prune", doomed |-> targets \cap Live] \in Op
    <2>1. targets \cap Live \in SUBSET Seqs
      OBVIOUS
    <2>2. QED  BY <2>1, OpKinds
  <1>2. QED  BY <1>1, TypedTurn DEF Prune

LEMMA DeleteTyped ==
    ASSUME TypeOK, NEW c \in Clients, PruneDelete(c) \/ CompactDelete(c)
    PROVE  TypeOK'
  <1>1. PICK marker \in BOOLEAN :
           /\ Becomes(c, [kind |-> "rechain", marker |-> marker])
           /\ UNCHANGED <<nextSeq, cursors, crashes>>
           /\ rows' = Without(op[c].doomed)
    <2>1. CASE PruneDelete(c)
      BY <2>1 DEF PruneDelete
    <2>2. CASE CompactDelete(c)
      <3>1. op[c].marker \in BOOLEAN
        BY <2>2, LogTyped, OpFields DEF CompactDelete, In
      <3>2. QED  BY <2>2, <3>1 DEF CompactDelete
    <2>3. QED  BY <2>1, <2>2
  <1>2. Live' \subseteq Live /\ \A s \in Live' : rows'[s] = rows[s]
    BY <1>1 DEF Without, Restrict, Live
  <1>3. op' \in [Clients -> Op]
    BY <1>1, OpKinds, OpTyped
  <1>4. QED  BY <1>1, <1>2, <1>3 DEF TypeOK

(* The slowest cursor is a sequence, and no cursor is behind it. *)
LEMMA FloorTyped ==
    ASSUME TypeOK
    PROVE  /\ SlowestCursor \in 0 .. MaxSeq
           /\ \A p \in DOMAIN cursors : SlowestCursor <= cursors[p]
  <1>1. CASE DOMAIN cursors = {}
    BY <1>1, LogTyped DEF SlowestCursor
  <1>2. CASE DOMAIN cursors # {}
    <2>1. Range(cursors) \subseteq 0 .. MaxSeq /\ Range(cursors) # {}
      BY <1>2 DEF TypeOK, Range
    <2>2. Range(cursors) \subseteq Nat
      BY <2>1
    <2>3. \A p \in DOMAIN cursors : cursors[p] \in Range(cursors)
      BY DEF Range
    <2>4. QED  BY <1>2, <2>1, <2>2, <2>3, MinIs DEF SlowestCursor
  <1>3. QED  BY <1>1, <1>2

LEMMA CompactTyped ==
    ASSUME TypeOK, NEW c \in Clients,
           \/ \E marker \in BOOLEAN : Compact(c, marker)
           \/ CompactFloor(c) \/ CompactPlan(c) \/ RechainRead(c)
    PROVE  TypeOK'
  <1>1. CASE \E marker \in BOOLEAN : Compact(c, marker)
    <2>1. PICK marker \in BOOLEAN : Compact(c, marker)
      BY <1>1
    <2>2. [kind |-> "floor", head |-> Latest(Live), marker |-> marker] \in Op
      BY LogTyped, OpKinds
    <2>3. QED  BY <2>1, <2>2, TypedTurn DEF Compact
  <1>2. CASE CompactFloor(c)
    <2>1. op[c].head \in 0 .. MaxSeq /\ op[c].marker \in BOOLEAN
      BY <1>2, LogTyped, OpFields DEF CompactFloor, In
    <2>2. [kind |-> "plan", head |-> op[c].head, floor |-> SlowestCursor,
           marker |-> op[c].marker] \in Op
      BY <2>1, FloorTyped, OpKinds
    <2>3. QED  BY <1>2, <2>2, TypedTurn DEF CompactFloor
  <1>3. CASE CompactPlan(c)
    <2>1. /\ op[c].marker \in BOOLEAN /\ Droppable(c) \in SUBSET Seqs
          /\ op[c].head \in 0 .. MaxSeq /\ op[c].floor \in 0 .. MaxSeq
      BY <1>3, LogTyped, OpFields DEF CompactPlan, In, Droppable, Seqs
    <2>2. /\ Relinked(op[c].marker) \in Op
          /\ [kind |-> "compact", doomed |-> Droppable(c), head |-> op[c].head,
              floor |-> op[c].floor, marker |-> op[c].marker] \in Op
      BY <2>1, LogTyped, OpKinds DEF Relinked
    <2>3. QED  BY <1>3, <2>2, TypedTurn DEF CompactPlan
  <1>4. CASE RechainRead(c)
    <2>1. op[c].marker \in BOOLEAN /\ Live \in SUBSET Seqs
      BY <1>4, LogTyped, OpFields DEF RechainRead, In, Seqs
    <2>2. [kind |-> "rewrite", read |-> Live, marker |-> op[c].marker] \in Op
      BY <2>1, OpKinds
    <2>3. QED  BY <1>4, <2>2, TypedTurn DEF RechainRead
  <1>5. QED  BY <1>1, <1>2, <1>3, <1>4

LEMMA RechainTyped ==
    ASSUME TypeOK, NEW c \in Clients, RechainWrite(c)
    PROVE  TypeOK'
  <1>1. op[c].marker \in BOOLEAN /\ op[c].read \in SUBSET Seqs
    BY LogTyped, OpFields DEF RechainWrite, In
  <1>2. op' \in [Clients -> Op]
    <2>1. Relinked(op[c].marker) \in Op
      BY <1>1, LogTyped, OpKinds DEF Relinked
    <2>2. QED  BY <2>1, OpTyped DEF RechainWrite
  <1>3. /\ DOMAIN rows' = Live
        /\ \A s \in Live : \/ rows'[s] = rows[s]
                           \/ rows'[s] = [rows[s] EXCEPT !.hash = {r \in op[c].read : r <= s}]
    BY DEF RechainWrite
  <1>4. \A s \in Live : rows'[s] \in Row
    <2> SUFFICES ASSUME NEW s \in Live PROVE rows'[s] \in Row
      OBVIOUS
    <2>1. rows[s] \in Row
      BY DEF TypeOK
    <2>2. PICK h \in Hash : h = {r \in op[c].read : r <= s}
      BY <1>1 DEF Hash
    <2>3. [rows[s] EXCEPT !.hash = h] \in Row
      BY <2>1 DEF Row
    <2>4. QED  BY <1>3, <2>1, <2>2, <2>3
  <1>5. QED  BY <1>2, <1>3, <1>4 DEF TypeOK, Live, RechainWrite

(* The fields of a client that replays, and a step that goes on with them. *)
LEMMA StepsTyped ==
    ASSUME TypeOK, NEW c \in Clients, NEW kind \in {"check", "set", "compare"},
           op[c].kind \in {"check", "set", "compare"},
           NEW current \in 0 .. MaxSeq, Steps(c, kind, current)
    PROVE  /\ op' \in [Clients -> Op] /\ op'[c].kind = kind
           /\ op'[c].name = op[c].name /\ op'[c].rebuilt = op[c].rebuilt
  <1>1. PICK o : o = [kind |-> kind, head |-> op[c].head, left |-> op[c].left,
                      saved |-> op[c].saved, name |-> op[c].name, rebuilt |-> op[c].rebuilt,
                      current |-> current]
    OBVIOUS
  <1>2. o \in Op
    BY <1>1, LogTyped, OpFields, OpKinds
  <1>3. Becomes(c, o)
    BY <1>1 DEF Steps
  <1>4. o.kind = kind /\ o.name = op[c].name /\ o.rebuilt = op[c].rebuilt
    BY <1>1
  <1>5. QED  BY <1>2, <1>3, <1>4, OpTyped

LEMMA BootTyped ==
    ASSUME TypeOK, NEW c \in Clients,
           BootHead(c) \/ BootSaved(c) \/ BootAtHead(c) \/ \E p \in Projections : BootReplay(c, p)
    PROVE  TypeOK'
  <1>1. CASE BootHead(c)
    BY <1>1, LogTyped, OpKinds, TypedTurn DEF BootHead
  <1>2. CASE BootSaved(c)
    <2>1. op[c].head \in 0 .. MaxSeq
      BY <1>2, LogTyped, OpFields DEF BootSaved, In
    <2>2. PICK saved : saved = [p \in Projections |-> CursorOf(p)]
      OBVIOUS
    <2>3. saved \in [Projections -> 0 .. MaxSeq]
      BY <2>2, LogTyped DEF CursorOf, TypeOK
    <2>4. [kind |-> "replay", head |-> op[c].head, left |-> Projections, saved |-> saved] \in Op
      BY <2>1, <2>3, OpKinds
    <2>5. QED  BY <1>2, <2>2, <2>4, TypedTurn DEF BootSaved
  <1>3. CASE BootAtHead(c)
    <2>1. [kind |-> "replay", head |-> op[c].head, left |-> op[c].left, saved |-> op[c].saved] \in Op
      BY <1>3, LogTyped, OpFields, OpKinds DEF BootAtHead, In
    <2>2. QED  BY <1>3, <2>1, LogTyped, TypedTurn DEF BootAtHead
  <1>4. CASE \E p \in Projections : BootReplay(c, p)
    <2>1. PICK p \in Projections : BootReplay(c, p)
      BY <1>4
    <2>2. /\ op[c].head \in 0 .. MaxSeq /\ op[c].left \in SUBSET Projections
          /\ op[c].saved \in [Projections -> 0 .. MaxSeq]
      BY <2>1, LogTyped, OpFields DEF BootReplay, In
    <2>3. PICK rebuilt : rebuilt = Max({op[c].saved[p]} \cup Live)
      OBVIOUS
    <2>4. rebuilt \in 0 .. MaxSeq
      <3>1. {op[c].saved[p]} \cup Live \subseteq 0 .. MaxSeq
        BY <2>2, LogTyped
      <3>2. QED  BY <2>3, <3>1, LogTyped, MaxIs
    <2>5. op[c].left \ {p} \in SUBSET Projections
      BY <2>2
    <2>6. [kind |-> "check", head |-> op[c].head, left |-> op[c].left \ {p},
           saved |-> op[c].saved, name |-> p, rebuilt |-> rebuilt,
           current |-> op[c].saved[p]] \in Op
      <3>1. op[c].saved[p] \in 0 .. MaxSeq
        BY <2>2
      <3>2. QED  BY <2>2, <2>4, <2>5, <3>1, OpKinds
    <2>7. Becomes(c, [kind |-> "check", head |-> op[c].head, left |-> op[c].left \ {p},
                      saved |-> op[c].saved, name |-> p, rebuilt |-> rebuilt,
                      current |-> op[c].saved[p]])
      BY <2>1, <2>3 DEF BootReplay, Becomes
    <2>8. QED  BY <2>1, <2>6, <2>7, TypedTurn DEF BootReplay
  <1>5. QED  BY <1>1, <1>2, <1>3, <1>4

LEMMA AdvanceTyped ==
    ASSUME TypeOK, NEW c \in Clients, AdvanceCheck(c) \/ AdvanceSet(c)
    PROVE  TypeOK'
  <1>1. op' \in [Clients -> Op]
    <2>1. CASE AdvanceCheck(c)
      <3>1. CursorOf(op[c].name) \in 0 .. MaxSeq
        BY LogTyped DEF CursorOf, TypeOK
      <3>2. QED  BY <2>1, <3>1, StepsTyped DEF AdvanceCheck, In
    <2>2. CASE AdvanceSet(c)
      <3>1. op[c].current \in 0 .. MaxSeq
        BY <2>2, LogTyped, OpFields DEF AdvanceSet, In
      <3>2. QED  BY <2>2, <3>1, StepsTyped DEF AdvanceSet, In
    <2>3. QED  BY <2>1, <2>2
  <1>2. CASE AdvanceCheck(c)
    BY <1>1, <1>2 DEF AdvanceCheck, TypeOK, Live
  <1>3. CASE AdvanceSet(c)
    <2>1. op[c].name \in Projections /\ op[c].rebuilt \in 0 .. MaxSeq
      BY <1>3, LogTyped, OpFields DEF AdvanceSet, In
    <2>2. /\ DOMAIN cursors' = DOMAIN cursors \cup {op[c].name}
          /\ \A p \in DOMAIN cursors' :
                cursors'[p] = IF p = op[c].name THEN op[c].rebuilt ELSE cursors[p]
          /\ UNCHANGED <<rows, nextSeq, crashes>>
      BY <1>3 DEF AdvanceSet
    <2>3. /\ DOMAIN cursors' \subseteq Projections
          /\ \A p \in DOMAIN cursors' : cursors'[p] \in 0 .. MaxSeq
      BY <2>1, <2>2 DEF TypeOK
    <2>4. QED  BY <1>1, <2>2, <2>3 DEF TypeOK, Live
  <1>4. QED  BY <1>2, <1>3

LEMMA CrashTyped ==
    ASSUME TypeOK, NEW c \in Clients, Crash(c)
    PROVE  TypeOK'
  <1>1. op' \in [Clients -> Op]
    BY LogTyped, OpTyped DEF Crash
  <1>2. crashes' \in 0 .. MaxCrashes
    BY EventLogAssumption DEF TypeOK, Crash
  <1>3. QED  BY <1>1, <1>2 DEF TypeOK, Live, Crash

(* The tables and the methods hold what their types say, whatever the number  *)
(* of connections and the order of their statements.                          *)
THEOREM TypeCorrect == Spec => []TypeOK
  <1>1. Init => TypeOK
    <2> SUFFICES ASSUME Init PROVE TypeOK
      OBVIOUS
    <2>1. op \in [Clients -> Op]
      BY DEF Init, Op
    <2>2. Live = {} /\ DOMAIN cursors = {} /\ nextSeq \in 1 .. MaxSeq + 1 /\ crashes \in 0 .. MaxCrashes
      BY EventLogAssumption DEF Init, Live
    <2>3. QED  BY <2>1, <2>2 DEF TypeOK
  <1>2. TypeOK /\ [Next]_vars => TypeOK'
    <2> SUFFICES ASSUME TypeOK, [Next]_vars PROVE TypeOK'
      OBVIOUS
    <2>1. CASE UNCHANGED vars
      BY <2>1 DEF vars, TypeOK, Live
    <2>2. CASE Next
      <3>1. PICK c \in Clients :
               \/ \E bearing \in BOOLEAN, key \in Keys \cup {NoKey} : Append(c, bearing, key)
               \/ CompactMarker(c) \/ Insert(c)
               \/ InsertConflict(c) \/ AdvanceRefused(c) \/ BootIncomplete(c)
               \/ \E p \in Projections : BootRefusesChain(c, p)
               \/ \E targets \in SUBSET Seqs : Prune(c, targets)
               \/ PruneDelete(c) \/ CompactDelete(c)
               \/ \E marker \in BOOLEAN : Compact(c, marker)
               \/ CompactFloor(c) \/ CompactPlan(c) \/ RechainRead(c)
               \/ RechainWrite(c)
               \/ BootHead(c) \/ BootSaved(c) \/ BootAtHead(c)
               \/ \E p \in Projections : BootReplay(c, p)
               \/ AdvanceCheck(c) \/ AdvanceSet(c) \/ Crash(c)
        BY <2>2, Zenon DEF Next
      <3>2. QED
        BY <3>1, AppendTyped, InsertTyped, IdleTurn, PruneTyped, DeleteTyped, CompactTyped,
           RechainTyped, BootTyped, AdvanceTyped, CrashTyped
    <2>3. QED  BY <2>1, <2>2
  <1>3. QED  BY <1>1, <1>2, PTL DEF Spec

-----------------------------------------------------------------------------
(* What breaks a chain, and what mends it. *)

(* The hash of a row is that of every row up to it. *)
Chained == \A s \in Live : rows[s].hash = {r \in Live : r <= s}

(* The hash of the last of some first rows is that of all of them. *)
LEMMA HashOfPrefix ==
    ASSUME TypeOK, Chained, NEW S, S \subseteq Live, \A s \in S, r \in Live : r <= s => r \in S
    PROVE  HashAt(S) = S
  <1>1. CASE S = {}
    BY <1>1 DEF HashAt
  <1>2. CASE S # {}
    <2>1. PICK m \in S : m = Max(S) /\ \A s \in S : s <= m
      <3>1. MaxSeq \in Nat /\ S \subseteq 0 .. MaxSeq
        BY LogTyped
      <3>2. QED  BY <1>2, <3>1, MaxIs
    <2>2. rows[m].hash = {r \in Live : r <= m}
      BY DEF Chained
    <2>3. {r \in Live : r <= m} = S
      BY <2>1
    <2>4. QED  BY <1>2, <2>1, <2>2, <2>3 DEF HashAt
  <1>3. QED  BY <1>1, <1>2

LEMMA ChainedVerifies ==
    ASSUME TypeOK, Chained
    PROVE  Verifies(0)
  <1> SUFFICES ASSUME NEW s \in Live PROVE Recomputes(s)
    BY DEF Verifies
  <1>1. PICK S : S = {r \in Live : r < s}
    OBVIOUS
  <1>2. HashAt(S) = S
    <2>1. \A q \in S, r \in Live : r <= q => r \in S
      BY <1>1, LogTyped
    <2>2. QED  BY <1>1, <2>1, HashOfPrefix
  <1>3. rows[s].hash = {r \in Live : r <= s}
    BY DEF Chained
  <1>4. {r \in Live : r <= s} = S \cup {s}
    BY <1>1, LogTyped
  <1>5. QED  BY <1>1, <1>2, <1>3, <1>4 DEF Recomputes, Running

(* A relink over the rows that it read chains them. *)
LEMMA RelinkChains ==
    ASSUME TypeOK, NEW c \in Clients, RechainWrite(c), op[c].read = Live
    PROVE  Chained'
  <1>1. /\ Live' = Live
        /\ \A s \in Live : rows'[s] = [rows[s] EXCEPT !.hash = {r \in Live : r <= s}]
    BY DEF RechainWrite, Live
  <1>2. \A s \in Live : rows'[s].hash = {r \in Live : r <= s}
    <2> SUFFICES ASSUME NEW s \in Live PROVE rows'[s].hash = {r \in Live : r <= s}
      OBVIOUS
    <2>1. PICK h : h = {r \in Live : r <= s}
      OBVIOUS
    <2>2. rows[s] \in Row /\ rows'[s] = [rows[s] EXCEPT !.hash = h]
      BY <1>1, <2>1 DEF TypeOK
    <2>3. QED  BY <2>1, <2>2 DEF Row
  <1>3. QED  BY <1>1, <1>2 DEF Chained

(* A row linked to the tail that is still the last goes on with the chain. *)
LEMMA InsertVerifies ==
    ASSUME TypeOK, EventInv, NEW c \in Clients, Insert(c), op[c].prev = HashAt(Live), Verifies(0)
    PROVE  Verifies(0)'
  <1>1. /\ Live' = Live \cup {nextSeq} /\ nextSeq \in Nat
        /\ \A s \in Live : s < nextSeq /\ s \in Nat /\ s > 0 /\ rows'[s] = rows[s]
        /\ rows'[nextSeq].hash = HashAt(Live) \cup {nextSeq}
    BY LogTyped DEF Insert, Live, NewRow, EventInv, Shape
  <1>2. ASSUME NEW S, S \subseteq Live PROVE HashAt(S)' = HashAt(S)
    <2>1. CASE S = {}
      BY <2>1 DEF HashAt
    <2>2. CASE S # {}
      <3>1. MaxSeq \in Nat /\ S \subseteq 0 .. MaxSeq
        BY <1>2, LogTyped
      <3>2. Max(S) \in Live
        BY <1>2, <2>2, <3>1, MaxIs
      <3>3. QED  BY <1>1, <2>2, <3>2 DEF HashAt
    <2>3. QED  BY <2>1, <2>2
  <1> SUFFICES ASSUME NEW s \in Live' PROVE Recomputes(s)'
    BY DEF Verifies
  <1>3. PICK S : S = {r \in Live : r < s}
    OBVIOUS
  <1>4. {r \in Live' : r < s} = S /\ S \subseteq Live
    BY <1>1, <1>3
  <1>5. Running(s)' = HashAt(S)
    <2>1. Running(s)' = HashAt(S)'
      BY <1>4 DEF Running
    <2>2. QED  BY <1>2, <1>4, <2>1
  <1>6. CASE s = nextSeq
    <2>1. S = Live
      BY <1>1, <1>3, <1>6
    <2>2. QED  BY <1>1, <1>5, <1>6, <2>1 DEF Recomputes
  <1>7. CASE s # nextSeq
    <2>1. s \in Live /\ s > 0 /\ rows'[s] = rows[s]
      BY <1>1, <1>7
    <2>2. rows[s].hash = HashAt(S) \cup {s}
      BY <1>3, <2>1 DEF Verifies, Recomputes, Running
    <2>3. QED  BY <1>5, <2>1, <2>2 DEF Recomputes
  <1>8. QED  BY <1>6, <1>7

(* The steps that change no row. *)
LEMMA RowsChangedBy ==
    ASSUME EventInv, Next, rows' # rows
    PROVE  \E c \in Clients : Insert(c) \/ PruneDelete(c) \/ CompactDelete(c) \/ RechainWrite(c)
  <1>1. PICK c \in Clients :
          \/ Quiet(c) \/ Insert(c)
          \/ \E targets \in SUBSET Seqs : Prune(c, targets)
          \/ PruneDelete(c) \/ CompactPlan(c) \/ CompactDelete(c) \/ RechainWrite(c)
    BY Zenon DEF Next, Quiet
  <1>2. ~Quiet(c)
    BY QuietStep DEF EventInv
  <1>3. ~(\E targets \in SUBSET Seqs : Prune(c, targets)) /\ ~CompactPlan(c)
    BY DEF Prune, CompactPlan
  <1>4. QED  BY <1>1, <1>2, <1>3

(* Whatever the number of connections and deaths, a chain that replays is     *)
(* broken only by an insert behind a tail that moved, by a deletion, or by a  *)
(* relink of rows that changed since it read them; and a relink of the rows   *)
(* it read mends any chain, after any history.                                *)
THEOREM ChainBrokenByRacesOnly == Spec => OnlyRacesBreakTheChain
  <1> DEFINE Keeps ==
        /\ Verifies(0) /\ ~Verifies(0)' => \E c \in Clients :
              \/ Insert(c) /\ op[c].prev # HashAt(Live)
              \/ PruneDelete(c) \/ CompactDelete(c)
              \/ RechainWrite(c) /\ op[c].read # Live
        /\ \A c \in Clients : RechainWrite(c) /\ op[c].read = Live => Verifies(0)'
  <1>1. TypeOK /\ Chained => Verifies(0)
    BY ChainedVerifies
  <1>2. TypeOK /\ EventInv /\ (Chained' => Verifies(0)') /\ [Next]_vars => [Keeps]_vars
    <2> SUFFICES ASSUME TypeOK, EventInv, Chained' => Verifies(0)', Next PROVE Keeps
      BY DEF vars
    <2>1. ASSUME NEW c \in Clients, RechainWrite(c), op[c].read = Live PROVE Verifies(0)'
      BY <2>1, RelinkChains
    <2>2. ASSUME Verifies(0), ~Verifies(0)'
          PROVE  \E c \in Clients :
                    \/ Insert(c) /\ op[c].prev # HashAt(Live)
                    \/ PruneDelete(c) \/ CompactDelete(c)
                    \/ RechainWrite(c) /\ op[c].read # Live
      <3>1. rows' # rows
        BY <2>2 DEF Verifies, Recomputes, Running, HashAt, Live
      <3>2. PICK c \in Clients :
               Insert(c) \/ PruneDelete(c) \/ CompactDelete(c) \/ RechainWrite(c)
        BY <3>1, RowsChangedBy
      <3>3. Insert(c) => op[c].prev # HashAt(Live)
        BY <2>2, InsertVerifies
      <3>4. RechainWrite(c) => op[c].read # Live
        BY <2>1, <2>2
      <3>5. QED  BY <3>2, <3>3, <3>4
    <2>3. QED  BY <2>1, <2>2
  <1>3. QED
    BY <1>1, <1>2, TypeCorrect, EventInvHolds, PTL DEF Spec, OnlyRacesBreakTheChain

-----------------------------------------------------------------------------
(* What a compaction and a boot act on. *)

(* The victims of a compaction are neither the head nor past the floor it     *)
(* read, and a cursor about to be set has passed the check.                   *)
ReadInv ==
    \A c \in Clients :
        /\ In(c, "compact") =>
              op[c].head \notin op[c].doomed /\ \A s \in op[c].doomed : s <= op[c].floor
        /\ In(c, "set") => op[c].rebuilt >= op[c].current

LEMMA OtherTurn ==
    ASSUME TypeOK, ReadInv, NEW c \in Clients, NEW o, Becomes(c, o), o.kind \notin {"compact", "set"}
    PROVE  ReadInv'
  <1>1. op'[c] = o /\ \A d \in Clients : d # c => op'[d] = op[d]
    BY DEF TypeOK, Becomes
  <1>2. QED  BY <1>1 DEF ReadInv, In

LEMMA CompactRead ==
    ASSUME TypeOK, ReadInv, NEW c \in Clients,
           (\E marker \in BOOLEAN : Compact(c, marker)) \/ CompactFloor(c) \/ CompactPlan(c)
    PROVE  ReadInv'
  <1>1. CASE \E marker \in BOOLEAN : Compact(c, marker)
    BY <1>1, OtherTurn DEF Compact
  <1>2. CASE CompactFloor(c)
    BY <1>2, OtherTurn DEF CompactFloor
  <1>3. CASE CompactPlan(c)
    <2>1. CASE Droppable(c) = {}
      <3>1. Becomes(c, Relinked(op[c].marker))
        BY <1>3, <2>1 DEF CompactPlan
      <3>2. Relinked(op[c].marker).kind \in {"marker", "idle"}
        BY DEF Relinked, Idle
      <3>3. QED  BY <3>1, <3>2, OtherTurn
    <2>2. CASE Droppable(c) # {}
      <3>1. /\ op'[c].kind = "compact" /\ op'[c].doomed = Droppable(c)
            /\ op'[c].head = op[c].head /\ op'[c].floor = op[c].floor
            /\ \A d \in Clients : d # c => op'[d] = op[d]
        BY <1>3, <2>2 DEF CompactPlan, Becomes, TypeOK
      <3>2. op[c].head \notin Droppable(c) /\ \A s \in Droppable(c) : s <= op[c].floor
        BY DEF Droppable
      <3>3. QED  BY <3>1, <3>2 DEF ReadInv, In
    <2>3. QED  BY <2>1, <2>2
  <1>4. QED  BY <1>1, <1>2, <1>3

LEMMA AdvanceRead ==
    ASSUME TypeOK, ReadInv, NEW c \in Clients, AdvanceCheck(c) \/ AdvanceSet(c)
    PROVE  ReadInv'
  <1>1. CASE AdvanceCheck(c)
    <2>1. /\ op'[c].kind = "set" /\ op'[c].rebuilt = op[c].rebuilt
          /\ op'[c].current = CursorOf(op[c].name)
          /\ \A d \in Clients : d # c => op'[d] = op[d]
      BY <1>1 DEF AdvanceCheck, Steps, Becomes, TypeOK
    <2>2. op[c].rebuilt >= CursorOf(op[c].name)
      BY <1>1 DEF AdvanceCheck, Advances
    <2>3. QED  BY <2>1, <2>2 DEF ReadInv, In
  <1>2. CASE AdvanceSet(c)
    BY <1>2, OtherTurn DEF AdvanceSet, Steps
  <1>3. QED  BY <1>1, <1>2

LEMMA ReadStep ==
    ASSUME TypeOK, ReadInv, [Next]_vars
    PROVE  ReadInv'
  <1>1. CASE UNCHANGED vars
    BY <1>1 DEF vars, ReadInv, In
  <1>2. CASE Next
    <2>1. PICK c \in Clients :
             \/ \E bearing \in BOOLEAN, key \in Keys \cup {NoKey} : Append(c, bearing, key)
             \/ CompactMarker(c) \/ Insert(c) \/ InsertConflict(c) \/ Crash(c)
             \/ \E targets \in SUBSET Seqs : Prune(c, targets)
             \/ PruneDelete(c) \/ CompactDelete(c) \/ RechainRead(c) \/ RechainWrite(c)
             \/ \E marker \in BOOLEAN : Compact(c, marker)
             \/ CompactFloor(c) \/ CompactPlan(c)
             \/ BootHead(c) \/ BootSaved(c) \/ BootAtHead(c) \/ BootIncomplete(c)
             \/ \E p \in Projections : BootReplay(c, p) \/ BootRefusesChain(c, p)
             \/ AdvanceCheck(c) \/ AdvanceSet(c) \/ AdvanceRefused(c)
      BY <1>2, Zenon DEF Next
    <2>2. CASE \/ \E bearing \in BOOLEAN, key \in Keys \cup {NoKey} : Append(c, bearing, key)
               \/ CompactMarker(c)
      <3>1. PICK bearing \in BOOLEAN, key \in Keys \cup {NoKey} : Becomes(c, AppendOp(bearing, key))
        BY <2>2 DEF Append, CompactMarker
      <3>2. AppendOp(bearing, key).kind = "append"
        BY DEF AppendOp
      <3>3. QED  BY <3>1, <3>2, OtherTurn
    <2>3. CASE Insert(c) \/ InsertConflict(c) \/ Crash(c) \/ BootIncomplete(c) \/ AdvanceRefused(c)
               \/ \E p \in Projections : BootRefusesChain(c, p)
      <3>1. Becomes(c, Idle)
        BY <2>3 DEF Insert, InsertConflict, Crash, BootIncomplete, AdvanceRefused, BootRefusesChain
      <3>2. Idle.kind = "idle"
        BY DEF Idle
      <3>3. QED  BY <3>1, <3>2, OtherTurn
    <2>4. CASE \E targets \in SUBSET Seqs : Prune(c, targets)
      BY <2>4, OtherTurn DEF Prune
    <2>5. CASE PruneDelete(c) \/ CompactDelete(c)
      BY <2>5, OtherTurn DEF PruneDelete, CompactDelete
    <2>6. CASE RechainRead(c) \/ RechainWrite(c)
      <3>1. CASE RechainRead(c)
        BY <3>1, OtherTurn DEF RechainRead
      <3>2. CASE RechainWrite(c)
        BY <3>2, OtherTurn DEF RechainWrite, Relinked, Idle
      <3>3. QED  BY <2>6, <3>1, <3>2
    <2>7. CASE BootHead(c) \/ BootSaved(c) \/ BootAtHead(c)
      <3>1. CASE BootHead(c)
        BY <3>1, OtherTurn DEF BootHead
      <3>2. CASE BootSaved(c)
        BY <3>2, OtherTurn DEF BootSaved
      <3>3. CASE BootAtHead(c)
        BY <3>3, OtherTurn DEF BootAtHead, Idle
      <3>4. QED  BY <2>7, <3>1, <3>2, <3>3
    <2>8. CASE \E p \in Projections : BootReplay(c, p)
      BY <2>8, OtherTurn DEF BootReplay
    <2>9. QED
      BY <2>1, <2>2, <2>3, <2>4, <2>5, <2>6, <2>7, <2>8, CompactRead, AdvanceRead
  <1>3. QED  BY <1>1, <1>2

LEMMA ReadHolds == Spec => []ReadInv
  <1>1. Init => ReadInv
    BY DEF Init, ReadInv, In, Idle
  <1>2. TypeOK /\ ReadInv /\ [Next]_vars => ReadInv'
    BY ReadStep
  <1>3. QED  BY <1>1, <1>2, TypeCorrect, PTL DEF Spec

(* compact_noise, beside any number of connections that append, prune, boot   *)
(* and die: it drops the head only if the head moved after it was read, and   *)
(* an event a registered projection has yet to fold only if that projection's *)
(* cursor is behind the slowest one the compaction had read.                  *)
THEOREM CompactionIsSafe == Spec => CompactionSpares
  <1> DEFINE HeadKept ==
                \A c \in Clients :
                    CompactDelete(c) /\ Latest(Live) = op[c].head => Latest(Live') = Latest(Live)
             UnseenKept ==
                \A c \in Clients : CompactDelete(c) /\ SlowestCursor >= op[c].floor =>
                    \A s \in Live \ DOMAIN rows', p \in DOMAIN cursors : s <= cursors[p]
  <1>1. ASSUME TypeOK, ReadInv, NEW c \in Clients, CompactDelete(c)
        PROVE  /\ DOMAIN rows' = Live \ op[c].doomed /\ Live' = Live \ op[c].doomed
               /\ op[c].head \notin op[c].doomed /\ \A s \in op[c].doomed : s <= op[c].floor
               /\ op[c].floor \in 0 .. MaxSeq
    <2>1. DOMAIN rows' = Live \ op[c].doomed /\ Live' = Live \ op[c].doomed
      BY <1>1 DEF CompactDelete, Without, Restrict, Live
    <2>2. op[c].floor \in 0 .. MaxSeq
      BY <1>1, LogTyped, OpFields DEF CompactDelete, In
    <2>3. QED  BY <1>1, <2>1, <2>2 DEF ReadInv, CompactDelete
  <1>2. ASSUME TypeOK, ReadInv, NEW c \in Clients, CompactDelete(c), Latest(Live) = op[c].head
        PROVE  Latest(Live') = Latest(Live)
    <2>1. Live' = Live \ op[c].doomed /\ Latest(Live) \notin op[c].doomed
      BY <1>1, <1>2
    <2>2. CASE Live = {}
      <3>1. Live' = {}
        BY <2>1, <2>2
      <3>2. QED  BY <2>2, <3>1
    <2>3. CASE Live # {}
      <3>1. PICK old, new : old = Latest(Live) /\ new = Latest(Live \ op[c].doomed)
        OBVIOUS
      <3>2. MaxSeq \in Nat /\ Live \subseteq 1 .. MaxSeq
        BY <1>2, LogTyped
      <3>3. old \in Live /\ \A s \in Live : s <= old
        BY <2>3, <3>1, <3>2, LatestTyped
      <3>4. old \in Live \ op[c].doomed
        BY <2>1, <3>1, <3>3
      <3>5. new \in Live \ op[c].doomed /\ \A s \in Live \ op[c].doomed : s <= new
        <4>1. Live \ op[c].doomed \subseteq 1 .. MaxSeq /\ Live \ op[c].doomed # {}
          BY <3>2, <3>4
        <4>2. QED  BY <3>1, <3>2, <4>1, LatestTyped
      <3>6. old = new
        BY <3>2, <3>3, <3>4, <3>5
      <3>7. QED  BY <2>1, <3>1, <3>6
    <2>4. QED  BY <2>2, <2>3
  <1>3. ASSUME TypeOK, ReadInv, NEW c \in Clients, CompactDelete(c), SlowestCursor >= op[c].floor,
               NEW s \in Live \ DOMAIN rows', NEW p \in DOMAIN cursors
        PROVE  s <= cursors[p]
    <2>1. s \in Live /\ s <= op[c].floor /\ op[c].floor \in 0 .. MaxSeq
      BY <1>1, <1>3
    <2>2. SlowestCursor <= cursors[p] /\ SlowestCursor \in 0 .. MaxSeq /\ cursors[p] \in 0 .. MaxSeq
      BY <1>3, FloorTyped DEF TypeOK
    <2>3. s \in Nat /\ MaxSeq \in Nat
      BY <1>3, <2>1, LogTyped
    <2>4. QED  BY <1>3, <2>1, <2>2, <2>3
  <1>4. TypeOK /\ ReadInv => HeadKept /\ UnseenKept
    BY <1>2, <1>3
  <1>5. Spec => [][HeadKept]_vars /\ [][UnseenKept]_vars
    BY <1>4, TypeCorrect, ReadHolds, PTL
  <1>6. QED  BY <1>5 DEF CompactionSpares, HeadStable, SlowestCursorProtected

(* advance_projection_cursor, however many connections boot at once: a cursor *)
(* goes back only by an upsert whose check read a cursor that another boot    *)
(* has moved since, and never behind the one it had read.                     *)
THEOREM CursorsOnlyAdvance == Spec => CursorMonotone
  <1> DEFINE Forward ==
        \A p \in DOMAIN cursors :
            /\ p \in DOMAIN cursors'
            /\ cursors'[p] < cursors[p] =>
                  \E c \in Clients : /\ AdvanceSet(c) /\ op[c].name = p
                                     /\ op[c].current <= cursors'[p]
  <1>1. TypeOK /\ ReadInv /\ [Next]_vars => [Forward]_vars
    <2> SUFFICES ASSUME TypeOK, ReadInv, Next PROVE Forward
      BY DEF vars
    <2>1. \A p \in DOMAIN cursors : cursors[p] \in Nat
      BY EventLogAssumption DEF TypeOK
    <2>2. CASE UNCHANGED cursors
      BY <2>1, <2>2
    <2>3. ASSUME NEW c \in Clients, AdvanceSet(c) PROVE Forward
      <3>1. op[c].rebuilt >= op[c].current /\ op[c].rebuilt \in Nat /\ op[c].current \in Nat
        <4>1. op[c].rebuilt \in 0 .. MaxSeq /\ op[c].current \in 0 .. MaxSeq
          BY <2>3, LogTyped, OpFields DEF AdvanceSet, In
        <4>2. QED  BY <2>3, <4>1 DEF AdvanceSet, ReadInv
      <3>2. /\ DOMAIN cursors' = DOMAIN cursors \cup {op[c].name}
            /\ \A p \in DOMAIN cursors :
                  cursors'[p] = IF p = op[c].name THEN op[c].rebuilt ELSE cursors[p]
        BY <2>3 DEF AdvanceSet
      <3> SUFFICES ASSUME NEW p \in DOMAIN cursors, cursors'[p] < cursors[p]
                   PROVE  op[c].name = p /\ op[c].current <= cursors'[p]
        BY <2>3, <3>2
      <3>3. op[c].name = p
        BY <2>1, <3>2
      <3>4. QED  BY <3>1, <3>2, <3>3
    <2>4. (\E c \in Clients : AdvanceSet(c)) \/ UNCHANGED cursors
      BY DEF Next, Append, CompactMarker, Insert, InsertConflict, Crash, Prune, PruneDelete,
             CompactDelete, RechainRead, RechainWrite, Compact, CompactFloor, CompactPlan,
             BootHead, BootSaved, BootAtHead, BootIncomplete, BootReplay, BootRefusesChain,
             AdvanceCheck, AdvanceRefused
    <2>5. QED  BY <2>2, <2>3, <2>4
  <1>2. QED  BY <1>1, TypeCorrect, ReadHolds, PTL DEF Spec, CursorMonotone
=============================================================================
