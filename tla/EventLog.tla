------------------------------ MODULE EventLog ------------------------------
(***************************************************************************)
(* SqliteEventLog (eventlog/sqlite.py): the hash-chained durable event     *)
(* log, its guarded deletions, and the replay of projections at boot.      *)
(*                                                                         *)
(* A client is one SqliteEventLog instance, that is one SQLite connection: *)
(* every worker thread that mirrors a record opens its own, and so does    *)
(* each `forge-loop boot`.  SQLite makes each statement or `with           *)
(* connection` block atomic, and nothing larger: a method that reads,      *)
(* computes and writes lets other clients in between.  op[c] is the method *)
(* client c is inside, with the values it has read so far.  A method that  *)
(* raises leaves the tables as they are and ends: op[c] is Idle again.     *)
(*                                                                         *)
(* Sequences are AUTOINCREMENT, never used twice, and stand for the events *)
(* they number.  H(prev_hash, event) is injective, and a chain runs upward *)
(* in sequence, so a hash is modelled as the SET of events chained into    *)
(* it: GENESIS_HASH is {} and H(prev, e) is prev \cup {e}.                 *)
(***************************************************************************)
EXTENDS Integers, FiniteSetsExt, Functions

CONSTANTS Clients,      \* open connections
          Appenders,    \* the clients that append
          Janitors,     \* the clients that prune and compact
          Booters,      \* the clients that assemble a boot context
          Keys,         \* idempotency keys
          NoKey,        \* idempotency_key IS NULL
          Projections,  \* names of registered projections
          MaxSeq,       \* bound on the events ever appended
          MaxCrashes    \* bound on crashes in the middle of a method

ASSUME EventLogAssumption ==
    /\ Appenders \cup Janitors \cup Booters \subseteq Clients
    /\ NoKey \notin Keys
    /\ MaxSeq \in Nat \ {0}
    /\ MaxCrashes \in Nat

VARIABLES rows,         \* table events: sequence -> row, for the rows that exist
          nextSeq,      \* the next AUTOINCREMENT value
          cursors,      \* table projection_cursors: name -> sequence
          op,           \* the method each client is inside
          crashes       \* crashes so far

vars == <<rows, nextSeq, cursors, op, crashes>>

-----------------------------------------------------------------------------
(* Rows.  Only is_load_bearing is kept of an event's kind. *)

Seqs == 1 .. MaxSeq
Hash == SUBSET Seqs
Row == [bearing : BOOLEAN, key : Keys \cup {NoKey}, hash : Hash]

Latest(S) == IF S = {} THEN 0 ELSE Max(S)                     \* latest_sequence
Live == DOMAIN rows
HashAt(S) == IF S = {} THEN {} ELSE rows[Max(S)].hash         \* the last row of S
Running(s) == HashAt({r \in Live : r < s})
Recomputes(s) == rows[s].hash = Running(s) \cup {s}

(* since(sequence) yields every row after `sequence` and raises at none.     *)
Verifies(sequence) == \A s \in Live : s > sequence => Recomputes(s)

Recorded(key) == key # NoKey /\ \E s \in Live : rows[s].key = key
(* Mutant: no cursor is the sequence before any. *)
CursorOfMissing(p) == IF p \in DOMAIN cursors THEN cursors[p] ELSE -1

CursorOf(p) == IF p \in DOMAIN cursors THEN cursors[p] ELSE 0

-----------------------------------------------------------------------------
Idle == [kind |-> "idle"]

Op == {Idle} \cup [kind : {"marker"}]
      \cup [kind : {"append"}, bearing : BOOLEAN, key : Keys \cup {NoKey}, prev : Hash]
      \cup [kind : {"prune"}, doomed : SUBSET Seqs]
      \cup [kind : {"compact"}, doomed : SUBSET Seqs, head : 0 .. MaxSeq, floor : 0 .. MaxSeq,
            marker : BOOLEAN]
      \cup [kind : {"floor"}, head : 0 .. MaxSeq, marker : BOOLEAN]
      \cup [kind : {"plan"}, head : 0 .. MaxSeq, floor : 0 .. MaxSeq, marker : BOOLEAN]
      \cup [kind : {"rechain"}, marker : BOOLEAN]
      \cup [kind : {"rewrite"}, read : SUBSET Seqs, marker : BOOLEAN]
      \cup [kind : {"boot"}, head : 0 .. MaxSeq]
      \cup [kind : {"replay"}, head : 0 .. MaxSeq, left : SUBSET Projections,
            saved : [Projections -> 0 .. MaxSeq]]
      \cup [kind : {"check", "set", "compare"}, head : 0 .. MaxSeq,
            left : SUBSET Projections, saved : [Projections -> 0 .. MaxSeq],
            name : Projections, rebuilt : 0 .. MaxSeq, current : 0 .. MaxSeq]

TypeOK ==
    /\ Live \subseteq Seqs /\ \A s \in Live : rows[s] \in Row
    /\ nextSeq \in 1 .. MaxSeq + 1
    /\ DOMAIN cursors \subseteq Projections
    /\ \A p \in DOMAIN cursors : cursors[p] \in 0 .. MaxSeq
    /\ op \in [Clients -> Op]
    /\ crashes \in 0 .. MaxCrashes

Init ==
    /\ rows = [s \in {} |-> {}]
    /\ nextSeq = 1
    /\ cursors = [p \in {} |-> 0]
    /\ op = [c \in Clients |-> Idle]
    /\ crashes = 0

In(c, kind) == op[c].kind = kind
Becomes(c, o) == op' = [op EXCEPT ![c] = o]

-----------------------------------------------------------------------------
(* append: the key is looked up and the tail's hash read, then one INSERT.   *)

AppendOp(bearing, key) ==
    [kind |-> "append", bearing |-> bearing, key |-> key, prev |-> HashAt(Live)]

Append(c, bearing, key) ==
    /\ c \in Appenders /\ In(c, "idle")
    /\ ~Recorded(key)                          \* otherwise the existing event is returned
    /\ Becomes(c, AppendOp(bearing, key))
    /\ UNCHANGED <<rows, nextSeq, cursors, crashes>>

NewRow(c) ==
    [bearing |-> op[c].bearing, key |-> op[c].key, hash |-> op[c].prev \cup {nextSeq}]

(* Mutant: without AUTOINCREMENT SQLite numbers a row after the last live one. *)
InsertReusing(c) ==
    /\ In(c, "append") /\ nextSeq <= MaxSeq
    /\ ~Recorded(op[c].key)
    /\ rows' = [s \in Live \cup {Latest(Live) + 1} |->
                    IF s \in Live THEN rows[s]
                    ELSE [NewRow(c) EXCEPT !.hash = op[c].prev \cup {s}]]
    /\ nextSeq' = nextSeq + 1
    /\ Becomes(c, Idle)
    /\ UNCHANGED <<cursors, crashes>>

(* Mutant: no UNIQUE constraint behind the look-up of the key. *)
InsertUnchecked(c) ==
    /\ In(c, "append") /\ nextSeq <= MaxSeq
    /\ rows' = [s \in Live \cup {nextSeq} |-> IF s = nextSeq THEN NewRow(c) ELSE rows[s]]
    /\ nextSeq' = nextSeq + 1
    /\ Becomes(c, Idle)
    /\ UNCHANGED <<cursors, crashes>>

(* The INSERT. *)
Insert(c) ==
    /\ In(c, "append") /\ nextSeq <= MaxSeq
    /\ ~Recorded(op[c].key)
    /\ rows' = [s \in Live \cup {nextSeq} |-> IF s = nextSeq THEN NewRow(c) ELSE rows[s]]
    /\ nextSeq' = nextSeq + 1
    /\ Becomes(c, Idle)
    /\ UNCHANGED <<cursors, crashes>>

(* UNIQUE(idempotency_key) refuses the INSERT: the winner's event is returned. *)
InsertConflict(c) ==
    /\ In(c, "append") /\ Recorded(op[c].key)
    /\ Becomes(c, Idle)
    /\ UNCHANGED <<rows, nextSeq, cursors, crashes>>

-----------------------------------------------------------------------------
(* Guarded deletion, then _rechain over the surviving rows: a transaction    *)
(* for the DELETE, a SELECT, a transaction for the UPDATEs.                  *)

Without(doomed) == Restrict(rows, Live \ doomed)

(* guard_prune refuses the whole prune if one target is load-bearing. *)
Prune(c, targets) ==
    /\ c \in Janitors /\ In(c, "idle")
    /\ targets \cap Live # {}
    /\ \A s \in targets \cap Live : ~rows[s].bearing
    /\ Becomes(c, [kind |-> "prune", doomed |-> targets \cap Live])
    /\ UNCHANGED <<rows, nextSeq, cursors, crashes>>

PruneDelete(c) ==
    /\ In(c, "prune")
    /\ rows' = Without(op[c].doomed)
    /\ Becomes(c, [kind |-> "rechain", marker |-> FALSE])
    /\ UNCHANGED <<nextSeq, cursors, crashes>>

(* compact_noise reads the head, the slowest cursor, the rows, in that order. *)
Compact(c, marker) ==
    /\ c \in Janitors /\ In(c, "idle")
    /\ Becomes(c, [kind |-> "floor", head |-> Latest(Live), marker |-> marker])
    /\ UNCHANGED <<rows, nextSeq, cursors, crashes>>

(* No registered cursor, no floor: MaxSeq protects nothing. *)
SlowestCursor == IF DOMAIN cursors = {} THEN MaxSeq ELSE Min(Range(cursors))

CompactFloor(c) ==
    /\ In(c, "floor")
    /\ Becomes(c, [kind |-> "plan", head |-> op[c].head, floor |-> SlowestCursor,
                   marker |-> op[c].marker])
    /\ UNCHANGED <<rows, nextSeq, cursors, crashes>>

(* Mutants: the tail is dropped like other noise; no floor under the cursors. *)
DroppableTail(c) == {s \in Live : ~rows[s].bearing /\ s <= op[c].floor}
DroppableUnseen(c) == {s \in Live : ~rows[s].bearing /\ s # op[c].head}

Droppable(c) ==
    {s \in Live : ~rows[s].bearing /\ s # op[c].head /\ s <= op[c].floor}

Relinked(marker) == IF marker THEN [kind |-> "marker"] ELSE Idle

CompactPlan(c) ==
    /\ In(c, "plan")
    /\ Becomes(c, IF Droppable(c) = {} THEN Relinked(op[c].marker)
                  ELSE [kind |-> "compact", doomed |-> Droppable(c), head |-> op[c].head,
                        floor |-> op[c].floor, marker |-> op[c].marker])
    /\ UNCHANGED <<rows, nextSeq, cursors, crashes>>

CompactDelete(c) ==
    /\ In(c, "compact")
    /\ rows' = Without(op[c].doomed)
    /\ Becomes(c, [kind |-> "rechain", marker |-> op[c].marker])
    /\ UNCHANGED <<nextSeq, cursors, crashes>>

RechainRead(c) ==
    /\ In(c, "rechain")
    /\ Becomes(c, [kind |-> "rewrite", read |-> Live, marker |-> op[c].marker])
    /\ UNCHANGED <<rows, nextSeq, cursors, crashes>>

(* Mutant: the relink counts the deleted rows in. *)
RechainWriteSkipping(c) ==
    /\ In(c, "rewrite")
    /\ rows' = [s \in Live |-> IF s \in op[c].read
                               THEN [rows[s] EXCEPT !.hash = 1 .. s]
                               ELSE rows[s]]
    /\ Becomes(c, Relinked(op[c].marker))
    /\ UNCHANGED <<nextSeq, cursors, crashes>>

(* Rows appended since the SELECT keep the hash they were appended with, and *)
(* an UPDATE of a row deleted since changes nothing.                         *)
RechainWrite(c) ==
    /\ In(c, "rewrite")
    /\ rows' = [s \in Live |-> IF s \in op[c].read
                               THEN [rows[s] EXCEPT !.hash = {r \in op[c].read : r <= s}]
                               ELSE rows[s]]
    /\ Becomes(c, Relinked(op[c].marker))
    /\ UNCHANGED <<nextSeq, cursors, crashes>>

(* COMPACTION_PERFORMED is telemetry, appended without a key. *)
CompactMarker(c) ==
    /\ In(c, "marker")
    /\ Becomes(c, AppendOp(FALSE, NoKey))
    /\ UNCHANGED <<rows, nextSeq, cursors, crashes>>

-----------------------------------------------------------------------------
(* assemble_boot_context: read the head, then the saved cursors, then replay *)
(* each projection from its saved cursor and persist where it got to.        *)

BootHead(c) ==
    /\ c \in Booters /\ In(c, "idle")
    /\ Live # {}                                   \* an empty log skips replay
    /\ Becomes(c, [kind |-> "boot", head |-> Latest(Live)])
    /\ UNCHANGED <<rows, nextSeq, cursors, crashes>>

BootSaved(c) ==
    /\ In(c, "boot")
    /\ Becomes(c, [kind |-> "replay", head |-> op[c].head, left |-> Projections,
                   saved |-> [p \in Projections |-> CursorOf(p)]])
    /\ UNCHANGED <<rows, nextSeq, cursors, crashes>>

(* One SELECT streams the rows after the cursor: a projection folds a snapshot. *)
BootReplay(c, p) ==
    /\ In(c, "replay") /\ p \in op[c].left
    /\ Verifies(op[c].saved[p])
    /\ Becomes(c, [kind |-> "check", head |-> op[c].head, saved |-> op[c].saved,
                   left |-> op[c].left \ {p}, name |-> p,
                   rebuilt |-> Max({op[c].saved[p]} \cup Live), current |-> op[c].saved[p]])
    /\ UNCHANGED <<rows, nextSeq, cursors, crashes>>

(* EventChainIntegrityError: boot aborts. *)
BootRefusesChain(c, p) ==
    /\ In(c, "replay") /\ p \in op[c].left
    /\ ~Verifies(op[c].saved[p])
    /\ Becomes(c, Idle)
    /\ UNCHANGED <<rows, nextSeq, cursors, crashes>>

(* advance_projection_cursor: two checks, one of them against the cursor it  *)
(* reads (current), then an unconditional upsert.                            *)
Steps(c, kind, current) ==
    Becomes(c, [kind |-> kind, head |-> op[c].head, left |-> op[c].left, saved |-> op[c].saved,
                name |-> op[c].name, rebuilt |-> op[c].rebuilt, current |-> current])

Advances(c) == op[c].rebuilt >= CursorOf(op[c].name) /\ op[c].rebuilt <= Latest(Live)

AdvanceCheck(c) ==
    /\ In(c, "check") /\ Advances(c)
    /\ Steps(c, "set", CursorOf(op[c].name))
    /\ UNCHANGED <<rows, nextSeq, cursors, crashes>>

AdvanceRefused(c) ==
    /\ In(c, "check") /\ ~Advances(c)
    /\ Becomes(c, Idle)                            \* ProjectionReplayError: boot aborts
    /\ UNCHANGED <<rows, nextSeq, cursors, crashes>>

(* Mutant: the cursor is saved at the head boot asked for, not where it got to. *)
AdvanceSetHead(c) ==
    /\ In(c, "set")
    /\ cursors' = [p \in DOMAIN cursors \cup {op[c].name} |->
                       IF p = op[c].name THEN op[c].head ELSE cursors[p]]
    /\ Steps(c, "compare", op[c].current)
    /\ UNCHANGED <<rows, nextSeq, crashes>>

AdvanceSet(c) ==
    /\ In(c, "set")
    /\ cursors' = [p \in DOMAIN cursors \cup {op[c].name} |->
                       IF p = op[c].name THEN op[c].rebuilt ELSE cursors[p]]
    /\ Steps(c, "compare", op[c].current)
    /\ UNCHANGED <<rows, nextSeq, crashes>>

BootAtHead(c) ==
    /\ In(c, "compare") /\ op[c].rebuilt = op[c].head
    /\ Becomes(c, IF op[c].left = {} THEN Idle
                  ELSE [kind |-> "replay", head |-> op[c].head, left |-> op[c].left,
                        saved |-> op[c].saved])
    /\ UNCHANGED <<rows, nextSeq, cursors, crashes>>

BootIncomplete(c) ==
    /\ In(c, "compare") /\ op[c].rebuilt # op[c].head
    /\ Becomes(c, Idle)                            \* BootContextError
    /\ UNCHANGED <<rows, nextSeq, cursors, crashes>>

-----------------------------------------------------------------------------
(* The process dies inside a method; what it had committed stays. *)
Crash(c) ==
    /\ op[c] # Idle /\ crashes < MaxCrashes
    /\ crashes' = crashes + 1
    /\ Becomes(c, Idle)
    /\ UNCHANGED <<rows, nextSeq, cursors>>

Next ==
    \E c \in Clients :
        \/ \E bearing \in BOOLEAN, key \in Keys \cup {NoKey} : Append(c, bearing, key)
        \/ Insert(c) \/ InsertConflict(c)
        \/ \E targets \in SUBSET Seqs : Prune(c, targets)
        \/ PruneDelete(c)
        \/ \E marker \in BOOLEAN : Compact(c, marker)
        \/ CompactFloor(c) \/ CompactPlan(c) \/ CompactDelete(c) \/ CompactMarker(c)
        \/ RechainRead(c) \/ RechainWrite(c)
        \/ BootHead(c) \/ BootSaved(c)
        \/ \E p \in Projections : BootReplay(c, p) \/ BootRefusesChain(c, p)
        \/ AdvanceCheck(c) \/ AdvanceRefused(c) \/ AdvanceSet(c)
        \/ BootAtHead(c) \/ BootIncomplete(c)
        \/ Crash(c)

Spec == Init /\ [][Next]_vars

-----------------------------------------------------------------------------
(* Properties. *)

(* since(), _rechain: whatever the connections do and wherever one dies, a    *)
(* log that replays is broken by four steps only: the insert of a row linked  *)
(* to a tail that is no longer the last, the two deletions (which a relink is *)
(* to follow), and a relink over rows that changed since it read them.  A     *)
(* relink nobody disturbed makes any log replay, the one that a death left    *)
(* half deleted too.                                                          *)
OnlyRacesBreakTheChain ==
    [][/\ Verifies(0) /\ ~Verifies(0)' => \E c \in Clients :
              \/ Insert(c) /\ op[c].prev # HashAt(Live)
              \/ PruneDelete(c) \/ CompactDelete(c)
              \/ RechainWrite(c) /\ op[c].read # Live
       /\ \A c \in Clients : RechainWrite(c) /\ op[c].read = Live => Verifies(0)']_vars

(* _SCHEMA, append: whatever two clients append at once under one key, one    *)
(* event is recorded.                                                         *)
OneRowPerKey ==
    \A s, r \in Live : rows[s].key = rows[r].key /\ rows[s].key # NoKey => s = r

(* guard_prune, compact_noise: a load-bearing event is kept for ever, also    *)
(* when another client changes the log between a deletion's SELECT and its    *)
(* DELETE.                                                                    *)
LoadBearingKept == [][\A s \in Live : rows[s].bearing => s \in DOMAIN rows']_vars

(* compact_noise: a compaction drops the head of the log only if the head     *)
(* moved after it had read it.                                                *)
HeadStable ==
    [][\A c \in Clients :
          CompactDelete(c) /\ Latest(Live) = op[c].head => Latest(Live') = Latest(Live)]_vars

(* compact_noise: an event that a registered projection has yet to fold is    *)
(* dropped only if that projection's cursor, registered or set back since,    *)
(* is behind the slowest one the compaction read.                             *)
SlowestCursorProtected ==
    [][\A c \in Clients : CompactDelete(c) /\ SlowestCursor >= op[c].floor =>
           \A s \in Live \ DOMAIN rows', p \in DOMAIN cursors : s <= cursors[p]]_vars

(* Both of what a compaction spares while other connections append, prune and *)
(* boot: the head, and what is yet to be folded.                              *)
CompactionSpares == HeadStable /\ SlowestCursorProtected

(* advance_projection_cursor: however many boots run at once, a cursor goes   *)
(* back only if another boot set it between the check of this one and its     *)
(* upsert, and never behind the cursor this one's check had read.             *)
CursorMonotone ==
    [][\A p \in DOMAIN cursors :
          /\ p \in DOMAIN cursors'
          /\ cursors'[p] < cursors[p] =>
                \E c \in Clients : /\ AdvanceSet(c) /\ op[c].name = p
                                   /\ op[c].current <= cursors'[p]]_vars

(* What the documents say, which several connections and deaths break.        *)

(* since(): an untouched log replays without raising, that is outside a       *)
(* deletion which has not relinked its survivors yet.                         *)
ChainReplays ==
    (\A c \in Clients : op[c].kind \notin {"rechain", "rewrite"}) => Verifies(0)

(* advance_projection_cursor: a cursor is persisted only when it advances.    *)
CursorAdvances == [][\A p \in DOMAIN cursors : cursors'[p] >= cursors[p]]_vars
=============================================================================
