---------------------------- MODULE EventMirror ----------------------------
(***************************************************************************)
(* The records of the runner in the durable event log: each record that is *)
(* written to the NDJSON stream is translated into events, appended one by *)
(* one under an idempotency key (events.py, eventlog/legacy_mirror.py);    *)
(* the task timeline and the scorecard are folded from them                *)
(* (eventlog/scorecard.py), the scorecard from its saved cursor on         *)
(* (control/boot.py, eventlog/projections.py).                             *)
(*                                                                         *)
(* A tick is numbered from the start of the process, which may die and be  *)
(* started again.  Of the log, only what these folds look at is kept; its  *)
(* hash chain and its pruning are those of EventLog.                       *)
(***************************************************************************)
EXTENDS Naturals, Sequences, FiniteSets, SequencesExt

CONSTANTS
    Said,           \* bound: the records the runner may write, without their tick
    MaxTick,        \* bound: ticks of one process
    MaxSaid,        \* bound: records written
    MaxStarts,      \* bound: starts of the process
    MaxMirrorErrors \* bound: failures of the durable log

\* What the runner may write.  A field that a record does not have is empty, a
\* missing number 0.
Records ==
    [kind : STRING, ticked : BOOLEAN, by : STRING, issue : Nat, issues : Seq(Nat), status : STRING,
     pr : STRING, stage : STRING, old : STRING, new : STRING, verdict : STRING, attempt : Nat,
     outcomes : Seq([issue : Nat \ {0}, status : STRING, pr : STRING])]

\* A tick_done names its tick, and has an issue of the batch once.
ASSUME MirrorAssumption ==
    /\ {MaxTick, MaxSaid, MaxStarts, MaxMirrorErrors} \subseteq Nat
    /\ Said \subseteq Records
    /\ \A r \in Said : r.kind = "tick_done" =>
          /\ r.ticked
          /\ \A j, k \in DOMAIN r.outcomes : r.outcomes[j].issue = r.outcomes[k].issue => j = k

VARIABLES
    tick,       \* the loop's tick, since its start
    ticking,    \* the loop is between its tick_start and its tick_done
    durable,    \* the event log: a sequence of what _append_specs made
    pending,    \* thread |-> what is left to append of the record it mirrors
    saved,      \* projection_cursors["scorecard"]
    board,      \* the ScorecardProjection of the last boot context
    said,       \* history: how many records were written
    settled,    \* history: the outcomes of the last record, if it was a tick_done
    starts, mirrorErrors

mirrorVars == <<tick, ticking, durable, pending, saved, board, said, settled, starts, mirrorErrors>>

Threads == {"tick", "worker"}

WorkerStatus == {"merged", "open", "failed", "no_pr", "timeout", "stale", "compensated"}

TerminalKinds == {"task.completed", "task.failed", "task.compensated"}
Abandonment == TerminalKinds \ {"task.completed"}

_TERMINAL_STATUS_TO_KIND(status) ==
    CASE status \in {"merged", "open"}                        -> "task.completed"
      [] status \in {"failed", "no_pr", "timeout", "stale"}   -> "task.failed"
      [] status = "compensated"                               -> "task.compensated"

-----------------------------------------------------------------------------
(* _append_specs: what becomes of a record. *)

\* The worker of a record: its session, or its log file, which names the
\* second it began.
_worker_ref(r) == CASE r.by = "session" -> "session" [] r.by = "log" -> said + 1 [] OTHER -> 0

Step(kind, r) ==
    [kind |-> kind, legacy |-> r.kind, tick |-> IF r.ticked THEN tick ELSE 0, issue |-> r.issue,
     worker |-> _worker_ref(r), pr |-> r.pr, step |-> "", status |-> r.status]

Anonymous(spec) == [spec EXCEPT !.worker = 0]
Named(spec, step) == [spec EXCEPT !.step = step]
WithStatus(spec, status) == [spec EXCEPT !.status = status]

Planned(r, issues) == [k \in DOMAIN issues |->
    Anonymous([Step("task.planned", r) EXCEPT !.issue = issues[k]])]

Terminal(r) == IF r.status \in WorkerStatus
               THEN <<Step(_TERMINAL_STATUS_TO_KIND(r.status), r)>> ELSE <<>>

Opened(r) == IF r.pr # "" THEN <<Step("pr.opened", r)>> ELSE <<>>

\* An outcome of the tick, under the key of the tick and not of a worker.
OfOutcome(r, o) == [r EXCEPT !.issue = o.issue, !.status = o.status, !.pr = o.pr, !.by = "none"]

OutcomeMerged(r, o) ==
    IF o.status = "merged" /\ o.pr # "" THEN <<Step("pr.merged", OfOutcome(r, o))>> ELSE <<>>

OutcomeSpecs(r, o) ==
    Opened(OfOutcome(r, o)) \o Terminal(OfOutcome(r, o)) \o OutcomeMerged(r, o)

_tick_done_specs(r) ==
    <<Anonymous([Step("tick.completed", r) EXCEPT !.issue = 0, !.pr = ""])>>
      \o FlattenSeq([k \in DOMAIN r.outcomes |-> OutcomeSpecs(r, r.outcomes[k])])

_worker_done_specs(r) ==
    IF Opened(r) \o Terminal(r) # <<>> THEN Opened(r) \o Terminal(r)
    ELSE <<Step("worker.observation", r)>>

\* Keyed by the edge besides: the rounds of one session repeat it.
_worker_session_transition_specs(r) ==
    LET S(kind, status) == Named(WithStatus(Step(kind, r), status), <<r.old, r.new>>)
    IN  CASE r.new = "awaiting_critic" -> <<S("pr.opened", r.status)>>
          [] r.new = "abandoned"       -> <<S("task.failed", "failed")>>
          [] r.new = "merged"          -> <<S("task.completed", "merged")>>
                                            \o IF r.pr # "" THEN <<S("pr.merged", "merged")>> ELSE <<>>
          [] OTHER                     -> <<S("task.dispatched", r.status)>>

Critique(r) == Named(Anonymous(Step("critique.issued", r)), r.verdict)

_append_specs(r) ==
    CASE r.kind = "tick_start" -> <<Anonymous(Step("tick.started", r))>> \o Planned(r, r.issues)
      [] r.kind = "po_done" -> Planned(r, r.issues)
      [] r.kind \in {"worker_start", "worker_started"} -> <<Step("task.dispatched", r)>>
      [] r.kind = "worker_session_transition" -> _worker_session_transition_specs(r)
      [] r.kind = "worker_iteration_attempt" -> <<Named(Step("task.dispatched", r), r.attempt)>>
      [] r.kind = "worker_done" -> _worker_done_specs(r)
      [] r.kind = "worker_failed" -> <<WithStatus(Step("task.failed", r), "failed")>>
      [] r.kind \in {"watchdog_worker_stuck", "watchdog_worker_killed"} ->
            <<Step("task.heartbeat", r)>>
      [] r.kind \in {"stage_timeout", "stage_error"} ->
            <<Anonymous(IF r.stage = "worker"
                        THEN WithStatus(Step("task.failed", r),
                                        IF r.kind = "stage_timeout" THEN "timeout" ELSE "failed")
                        ELSE Step("worker.observation", r))>>
      [] r.kind = "tick_done" -> _tick_done_specs(r)
      [] r.kind = "critic_verdict_blocked" ->
            <<Critique(r), Anonymous(Step("merge.blocked", r))>>
      [] r.kind \in {"critic_verdict_merged", "critic_verdict_revising", "critic_verdict_unknown",
                     "critic_done"} -> <<Critique(r)>>
      [] r.kind \in {"merge_refused_issue_closed", "post_critic_automerge_failed"} ->
            <<Anonymous(Step("merge.blocked", r))>>
      [] r.kind = "post_critic_automerge_enabled" ->
            <<WithStatus(Anonymous(Step("pr.merged", r)), "merged")>>
      [] r.kind = "worker_work_rescued" ->
            <<WithStatus(Anonymous(Step("task.compensated", r)), "compensated")>>
      [] r.kind = "worktree_reaped" -> <<Anonymous(Step("worktree.reaped", r))>>
      [] r.kind \in {"loop_drift_halt", "deploy_drift_halt", "max_ticks_reached", "loop_stop"} ->
            <<[Anonymous(Step("loop.halted", r)) EXCEPT !.issue = 0]>>
      [] OTHER -> <<>>

\* A mutant: the tick is left out.
_idempotency_keyTickless(s) == <<s.kind, s.legacy, s.issue, s.worker, s.pr, s.step>>

_idempotency_key(s) == <<s.kind, s.legacy, s.tick, s.issue, s.worker, s.pr, s.step>>

\* A mutant: the key is not looked up.
RecordedNever(s) == FALSE

Recorded(s) == \E k \in DOMAIN durable : _idempotency_key(durable[k]) = _idempotency_key(s)

-----------------------------------------------------------------------------
(* What is folded from the log. *)

NoTask == [planned |-> FALSE, dispatched |-> FALSE, terminal |-> "", pr |-> "", ticks |-> {}]

Retold(task, e) ==
    [planned    |-> task.planned \/ e.kind = "task.planned",
     dispatched |-> task.dispatched \/ e.kind = "task.dispatched",
     terminal   |-> IF e.kind \in TerminalKinds THEN e.status ELSE task.terminal,
     pr         |-> IF e.kind = "pr.opened" \/ e.pr # "" THEN e.pr ELSE task.pr,
     ticks      |-> task.ticks \cup ({e.tick} \ {0})]

\* One task of the timeline.
replay_task_timeline(log, issue) ==
    LET after[n \in 0..Len(log)] ==
          IF n = 0 THEN NoTask
          ELSE IF log[n].issue = issue THEN Retold(after[n - 1], log[n]) ELSE after[n - 1]
    IN  after[Len(log)]

NoScore == [planned |-> 0, completed |-> 0, terminal |-> "", critiques |-> 0, accepted |-> 0,
            first |-> "unknown"]

\* A mutant: the last terminal event has the last word.
_foldLast(score, e, n) ==
    IF e.kind \in TerminalKinds THEN [score EXCEPT !.terminal = e.kind] ELSE score

\* The score of the event's task; a completion outranks what follows it.
_fold(score, e, n) ==
    LET accepted == e.legacy = "critic_verdict_merged"
    IN  CASE e.kind = "task.planned" ->
                [score EXCEPT !.planned = IF @ = 0 THEN n ELSE @]
          [] e.kind = "task.completed" ->
                [score EXCEPT !.terminal = e.kind, !.completed = n]
          [] e.kind \in Abandonment ->
                [score EXCEPT !.terminal = IF @ = "task.completed" THEN @ ELSE e.kind]
          [] e.kind = "critique.issued" ->
                [score EXCEPT !.critiques = @ + 1,
                              !.accepted = IF accepted THEN @ + 1 ELSE @,
                              !.first = IF @ # "unknown" THEN @
                                        ELSE IF accepted THEN "accepted" ELSE "refused"]
          [] OTHER -> score

IssuesOf(r) ==
    {r.issue} \cup ToSet(r.issues) \cup {r.outcomes[k].issue : k \in DOMAIN r.outcomes}
Issues == (UNION {IssuesOf(r) : r \in Said}) \ {0}
Blank(cursor) == [cursor |-> cursor, tasks |-> [i \in Issues |-> NoScore]]

\* A mutant: the events seen already are folded again.
applyAgain(b, n) ==
    LET e == durable[n]
    IN  [cursor |-> n,
         tasks |-> IF e.issue = 0 THEN b.tasks ELSE [b.tasks EXCEPT ![e.issue] = _fold(@, e, n)]]

\* Idempotent by sequence.
apply(b, n) ==
    LET e == durable[n]
    IN  IF n <= b.cursor THEN b
        ELSE [cursor |-> n,
              tasks |-> IF e.issue = 0 THEN b.tasks ELSE [b.tasks EXCEPT ![e.issue] = _fold(@, e, n)]]

Replay(b, from) ==
    LET until[n \in from..Len(durable)] == IF n = from THEN b ELSE apply(until[n - 1], n)
    IN  until[Len(durable)]

-----------------------------------------------------------------------------
MirrorInit ==
    /\ tick = 0 /\ ticking = FALSE
    /\ durable = <<>>
    /\ pending = [t \in Threads |-> <<>>]
    /\ saved = 0
    /\ board = Blank(0)
    /\ said = 0
    /\ settled = <<>>
    /\ starts = 1
    /\ mirrorErrors = 0

\* The line of the record is in the file; what is to be mirrored of it follows.
_write_record(t, r) ==
    /\ said < MaxSaid
    /\ pending[t] = <<>>
    /\ said' = said + 1
    /\ pending' = [pending EXCEPT ![t] = _append_specs(r)]
    /\ settled' = IF r.kind = "tick_done" THEN r.outcomes ELSE <<>>

TickStart == \E r \in Said :
    /\ r.kind = "tick_start" /\ ~ticking /\ tick < MaxTick
    /\ tick' = tick + 1 /\ ticking' = TRUE
    /\ said < MaxSaid /\ pending["tick"] = <<>>
    /\ said' = said + 1
    /\ pending' = [pending EXCEPT !["tick"] = _append_specs(r)']
    /\ settled' = <<>>
    /\ UNCHANGED <<durable, saved, board, starts, mirrorErrors>>

\* The outcomes are known once every worker has returned.
TickDone == \E r \in Said :
    /\ r.kind = "tick_done" /\ ticking /\ pending["worker"] = <<>>
    /\ ticking' = FALSE
    /\ _write_record("tick", r)
    /\ UNCHANGED <<tick, durable, saved, board, starts, mirrorErrors>>

Tell == \E r \in Said :
    /\ r.kind \notin {"tick_start", "tick_done"} /\ ticking
    /\ _write_record(IF r.by # "none" THEN "worker" ELSE "tick", r)
    /\ UNCHANGED <<tick, ticking, durable, saved, board, starts, mirrorErrors>>

\* One append of _append; what is already there is returned, and not written.
Append_(t) ==
    /\ pending[t] # <<>>
    /\ durable' = IF Recorded(Head(pending[t])) THEN durable ELSE Append(durable, Head(pending[t]))
    /\ pending' = [pending EXCEPT ![t] = Tail(@)]
    /\ UNCHANGED <<tick, ticking, saved, board, said, settled, starts, mirrorErrors>>

\* A failure of the durable log ends the mirroring of the record: a warning.
MirrorFails(t) ==
    /\ pending[t] # <<>> /\ mirrorErrors < MaxMirrorErrors
    /\ mirrorErrors' = mirrorErrors + 1
    /\ pending' = [pending EXCEPT ![t] = <<>>]
    /\ settled' = <<>>
    /\ UNCHANGED <<tick, ticking, durable, saved, board, said, starts>>

\* The boot context that the maestro asks for in each tick: a new projection
\* at the saved cursor, driven to the tail.  An empty log is left alone.
_drive_projections_to_tail ==
    /\ ticking /\ pending["tick"] = <<>>
    /\ durable # <<>>
    /\ board' = Replay(Blank(saved), saved)
    /\ saved' = board'.cursor
    /\ UNCHANGED <<tick, ticking, durable, pending, said, settled, starts, mirrorErrors>>

Dies ==
    /\ starts < MaxStarts
    /\ starts' = starts + 1
    /\ tick' = 0 /\ ticking' = FALSE
    /\ pending' = [t \in Threads |-> <<>>]
    /\ board' = Blank(0)
    /\ settled' = <<>>
    /\ UNCHANGED <<durable, saved, said, mirrorErrors>>

MirrorNext ==
    \/ TickStart \/ TickDone \/ Tell
    \/ \E t \in Threads : Append_(t) \/ MirrorFails(t)
    \/ _drive_projections_to_tail
    \/ Dies

MirrorSpec == MirrorInit /\ [][MirrorNext]_mirrorVars

-----------------------------------------------------------------------------
(* Properties. *)

MirrorTypeOK ==
    /\ tick \in 0..MaxTick
    /\ \A j, k \in DOMAIN durable : _idempotency_key(durable[j]) = _idempotency_key(durable[k]) => j = k
    /\ saved \in 0..Len(durable)
    /\ board.cursor \in {0, saved}

\* In the first life of the loop, when a tick_done is mirrored, the timeline
\* of each of its tasks ends as the outcome says, whatever was told of the
\* tasks before and in which order the threads' appends came
\* (legacy_mirror.py, replay_task_timeline).
TimelineAfterTick ==
    (starts = 1 /\ \A t \in Threads : pending[t] = <<>>) =>
        \A k \in DOMAIN settled : settled[k].status \in WorkerStatus =>
            LET task == replay_task_timeline(durable, settled[k].issue)
            IN  /\ task.terminal = settled[k].status
                /\ settled[k].pr # "" => task.pr = settled[k].pr
                /\ tick \in task.ticks

\* Delivering the log to the projection again, from its beginning, changes
\* nothing of it (scorecard.py: "re-running a full replay over an
\* already-tailed projection leaves every metric unchanged").
ReplayIsIdempotent ==
    board.cursor = Len(durable) => Replay(board, 0) = board

\* A task that the scorecard counts as completed stays so, whatever failures
\* are recorded of it later ("A genuine completion outranks a later
\* failure/compensation record").
CompletionOutranks ==
    \A k \in DOMAIN durable : durable[k].kind = "task.completed" /\ durable[k].issue # 0 =>
        Replay(Blank(0), 0).tasks[durable[k].issue].terminal = "task.completed"

\* Violated: boot "drives every lagging projection to the tail" on a
\* projection that is new each time, so the scorecard holds what happened
\* since the last boot context and not the log.
ScorecardCoversLog ==
    board.cursor = Len(durable) => board = Replay(Blank(0), 0)

\* What the mirrored log and what is folded from it hold over several processes.
MirrorInv ==
    /\ MirrorTypeOK
    /\ TimelineAfterTick
    /\ ReplayIsIdempotent
    /\ CompletionOutranks
=============================================================================
