--------------------------- MODULE AsyncPipeline ---------------------------
(***************************************************************************)
(* The asynchronous runner: runner/boot.py run_async, whose tick pushes a  *)
(* batch of issues through the three stages of runner_async.py             *)
(* AsyncOrchestrator (PO, worker, critic), joined by bounded queues.       *)
(*                                                                         *)
(* What a stage does between two awaits is a step.  A stage calls its      *)
(* function in a thread (asyncio.to_thread): the deadline of the stage     *)
(* ends the waiting and not the thread, which goes on as an orphan.        *)
(***************************************************************************)
EXTENDS Integers, Sequences, FiniteSets

CONSTANTS
    Ready,          \* issues with the ready label
    Parallel,       \* cfg.parallel: issues in a batch
    PoSlots, WorkerSlots, CriticSlots,  \* the slots of the pools
    QueueCap,       \* AsyncQueueCaps: the size of each queue
    async_max_ticks,\* cfg.max_ticks
    MaxAsyncTicks,  \* bound: ticks
    MaxOdd          \* bound: deadlines passed, raising writes of an event, files and signals of
                    \* the operator

Slots == PoSlots \cup WorkerSlots \cup CriticSlots

ASSUME AsyncAssumption ==
    /\ Ready \subseteq Nat /\ Parallel \in Nat \ {0} /\ QueueCap \in Nat \ {0} /\ async_max_ticks \in Nat
    /\ IsFiniteSet(Slots)
    /\ PoSlots \cap WorkerSlots = {} /\ CriticSlots \cap (PoSlots \cup WorkerSlots) = {}

VARIABLES
    mode,       \* "main", "select", "submit", "drain_fresh", "drain_po", "drain_critic", "finish",
                \* "closing", "stopped"
    tickNo,
    batch,      \* the issues of this tick, in order
    submitting, \* those of them that are not in the pipeline yet
    fresh, po_ready, pr_pending_critic,
    unfinished, \* queue |-> its unfinished tasks, which join waits for
    slot,       \* slot |-> [st, item]: "off", "idle", "busy", "dead"
    results,    \* [issue, status, critic] of this tick
    orphans,    \* issue |-> worker threads that go on past their deadline
    hasPr,      \* issues with a pull request of this loop
    askStop, askPause, should_run,
    overflowed, \* history: issues dropped from a full queue in this tick
    perished,     \* history: issues whose stage died with them
    odd

asyncVars == <<mode, tickNo, batch, submitting, fresh, po_ready, pr_pending_critic, unfinished, slot, results,
               orphans, hasPr, askStop, askPause, should_run, overflowed, perished, odd>>
entry  == <<batch, submitting>>
queues == <<fresh, po_ready, pr_pending_critic, unfinished>>
asked  == <<askStop, askPause, should_run>>

Queues == {"fresh", "po_ready", "pr_pending_critic"}
NoItem == [issue |-> 0, status |-> ""]
Item(i, status) == [issue |-> i, status |-> status]
IdleSlot == [st |-> "idle", item |-> NoItem]
Off == [s \in Slots |-> [st |-> "off", item |-> NoItem]]

AsyncInit ==
    /\ mode = "main" /\ tickNo = 0 /\ batch = <<>> /\ submitting = <<>>
    /\ fresh = <<>> /\ po_ready = <<>> /\ pr_pending_critic = <<>>
    /\ unfinished = [q \in Queues |-> 0] /\ slot = Off /\ results = {}
    /\ orphans = [i \in Ready |-> 0] /\ hasPr = {}
    /\ askStop = FALSE /\ askPause = FALSE /\ should_run = TRUE
    /\ overflowed = {} /\ perished = {} /\ odd = 0

Odd == odd < MaxOdd /\ odd' = odd + 1

-----------------------------------------------------------------------------
(* The bounded queue.                                                      *)

\* A mutant: the newest is dropped.
PutNewest(q, item) == IF Len(q) < QueueCap THEN Append(q, item) ELSE q

\* _put_with_overflow: without blocking; the oldest makes room.
Put(q, item) == Append(IF Len(q) < QueueCap THEN q ELSE Tail(q), item)

Dropped(q) == IF Len(q) < QueueCap THEN {} ELSE {Head(q).issue}

\* A mutant: what is dropped stays unfinished.
PendingAfterPutUndone(n, q) == n + 1

\* The dropped item is task_done, the new one is to do.
PendingAfterPut(n, q) == IF Len(q) < QueueCap THEN n + 1 ELSE n

-----------------------------------------------------------------------------
(* The main loop.                                                          *)

StopSeen ==
    /\ mode = "main" /\ should_run /\ askStop
    /\ mode' = "closing" /\ askStop' = FALSE
    /\ UNCHANGED <<tickNo, entry, queues, slot, results, orphans, hasPr, askPause, should_run, overflowed,
                   perished, odd>>

SignalSeen ==
    /\ mode = "main" /\ ~should_run
    /\ mode' = "closing"
    /\ UNCHANGED <<tickNo, entry, queues, slot, results, orphans, hasPr, asked, overflowed, perished, odd>>

MaxTicksReached ==
    /\ mode = "main" /\ should_run /\ ~askStop /\ ~askPause
    /\ async_max_ticks # 0 /\ tickNo >= async_max_ticks
    /\ mode' = "closing"
    /\ UNCHANGED <<tickNo, entry, queues, slot, results, orphans, hasPr, asked, overflowed, perished, odd>>

_one_tick ==
    /\ mode = "main" /\ should_run /\ ~askStop /\ ~askPause
    /\ async_max_ticks = 0 \/ tickNo < async_max_ticks
    /\ tickNo < MaxAsyncTicks
    /\ mode' = "select" /\ tickNo' = tickNo + 1
    /\ UNCHANGED <<entry, queues, slot, results, orphans, hasPr, asked, overflowed, perished, odd>>

Batches == {s \in UNION {[1..n -> Ready] : n \in 1..Parallel} : \A i, j \in DOMAIN s : i < j => s[i] < s[j]}

\* top_issues: none, or `gh` fails: the tick ends; else the stages start on a batch.
RunAsyncTick ==
    /\ mode = "select"
    /\ \/ /\ mode' = "main"
          /\ UNCHANGED <<entry, slot>>
       \/ /\ mode' = "submit" /\ batch' \in Batches /\ submitting' = batch'
          /\ slot' = [s \in Slots |-> IdleSlot]
    /\ UNCHANGED <<tickNo, queues, results, orphans, hasPr, asked, overflowed, perished, odd>>

\* Issue after issue.  It suspends nowhere: no stage runs before the last is in.
submit_many ==
    /\ mode = "submit"
    /\ \/ /\ submitting = <<>> /\ mode' = "drain_fresh"
          /\ UNCHANGED <<submitting, fresh, unfinished, overflowed>>
       \/ /\ submitting # <<>> /\ submitting' = Tail(submitting)
          /\ fresh' = Put(fresh, Item(Head(submitting), ""))
          /\ unfinished' = [unfinished EXCEPT !["fresh"] = PendingAfterPut(@, fresh)]
          /\ overflowed' = overflowed \cup Dropped(fresh)
          /\ UNCHANGED mode
    /\ UNCHANGED <<tickNo, batch, po_ready, pr_pending_critic, slot, results, orphans, hasPr, asked, perished, odd>>

\* drain: each queue in turn, then stop.
Join ==
    \/ mode = "drain_fresh" /\ unfinished["fresh"] = 0 /\ mode' = "drain_po"
    \/ mode = "drain_po" /\ unfinished["po_ready"] = 0 /\ mode' = "drain_critic"
    \/ mode = "drain_critic" /\ unfinished["pr_pending_critic"] = 0 /\ mode' = "finish"

drain == Join /\ UNCHANGED <<tickNo, entry, queues, slot, results, orphans, hasPr, asked, overflowed, perished, odd>>

\* The orchestrator of a tick does not outlive it.
Cleared ==
    /\ slot' = Off /\ batch' = <<>> /\ submitting' = <<>>
    /\ fresh' = <<>> /\ po_ready' = <<>> /\ pr_pending_critic' = <<>>
    /\ unfinished' = [q \in Queues |-> 0]
    /\ results' = {} /\ overflowed' = {} /\ perished' = {}

\* tick_done; the worktrees of what merged are removed, the issue is gone.
TickDone_ ==
    /\ mode = "finish" /\ mode' = "main" /\ Cleared
    /\ UNCHANGED <<tickNo, orphans, hasPr, asked, odd>>

\* The event of an overflow cannot be written while the batch enters: the
\* exception leaves the loop.
SubmitRaises ==
    /\ mode = "submit" /\ submitting # <<>> /\ Len(fresh) >= QueueCap
    /\ mode' = "closing" /\ Cleared /\ Odd
    /\ UNCHANGED <<tickNo, orphans, hasPr, asked>>

\* asyncio.run ends when the last thread has; then "stopped" is written.
LoopStops ==
    /\ mode = "closing" /\ \A i \in Ready : orphans[i] = 0
    /\ mode' = "stopped"
    /\ UNCHANGED <<tickNo, entry, queues, slot, results, orphans, hasPr, asked, overflowed, perished, odd>>

-----------------------------------------------------------------------------
(* The stages.                                                             *)

Draining == mode \in {"drain_fresh", "drain_po", "drain_critic"}

IssuesOf(q) == {q[k].issue : k \in DOMAIN q}

\* A slot takes the head of its queue and starts the thread.
TakeFrom(s, q) ==
    /\ Draining /\ slot[s].st = "idle" /\ q # <<>>
    /\ slot' = [slot EXCEPT ![s] = [st |-> "busy", item |-> Head(q)]]
    /\ UNCHANGED <<mode, tickNo, entry, unfinished, results, orphans, hasPr, asked, overflowed, perished, odd>>

Take ==
    \/ \E s \in PoSlots :
         TakeFrom(s, fresh) /\ fresh' = Tail(fresh) /\ UNCHANGED <<po_ready, pr_pending_critic>>
    \/ \E s \in WorkerSlots :
         TakeFrom(s, po_ready) /\ po_ready' = Tail(po_ready) /\ UNCHANGED <<fresh, pr_pending_critic>>
    \/ \E s \in CriticSlots :
         /\ TakeFrom(s, pr_pending_critic) /\ pr_pending_critic' = Tail(pr_pending_critic)
         /\ UNCHANGED <<fresh, po_ready>>

Busy(s) == Draining /\ slot[s].st = "busy"
Freed(s) == slot' = [slot EXCEPT ![s] = IdleSlot]

\* Done, late or failed, the PO's issue goes on to the worker.
_po_worker(s) ==
    LET i == slot[s].item.issue
    IN  /\ Busy(s) /\ Freed(s)
        /\ Odd \/ UNCHANGED odd
        /\ po_ready' = Put(po_ready, Item(i, ""))
        /\ unfinished' = [unfinished EXCEPT !["fresh"] = @ - 1,
                                            !["po_ready"] = PendingAfterPut(@, po_ready)]
        /\ overflowed' = overflowed \cup Dropped(po_ready)
        /\ UNCHANGED <<mode, tickNo, entry, fresh, pr_pending_critic, results, orphans, hasPr, asked, perished>>

Result(i, status, critic) == [issue |-> i, status |-> status, critic |-> critic]

\* A mutant: what opened no pull request is not accounted for.
FiledOnlyPrs(i, status) == {}

Filed(i, status) == {Result(i, status, "none")}

\* Only an open or merged pull request goes to the critic.
Passes(s, status) ==
    LET i == slot[s].item.issue
    IN  IF status \in {"open", "merged"}
        THEN /\ pr_pending_critic' = Put(pr_pending_critic, Item(i, status))
             /\ unfinished' = [unfinished EXCEPT !["po_ready"] = @ - 1,
                                   !["pr_pending_critic"] = PendingAfterPut(@, pr_pending_critic)]
             /\ overflowed' = overflowed \cup Dropped(pr_pending_critic)
             /\ UNCHANGED results
        ELSE /\ results' = results \cup Filed(i, status)
             /\ unfinished' = [unfinished EXCEPT !["po_ready"] = @ - 1]
             /\ UNCHANGED <<pr_pending_critic, overflowed>>

\* The worker returns or raises, or is late: its thread, which may have opened
\* a pull request, is on its own, and the result, without pr_recover_fn, has none.
_worker_worker(s) ==
    LET i == slot[s].item.issue
    IN  /\ Busy(s) /\ Freed(s)
        /\ \/ /\ \E status \in {"open", "merged", "failed"} :
                   /\ Passes(s, status)
                   /\ hasPr' = IF status = "failed" THEN hasPr ELSE hasPr \cup {i}
              /\ UNCHANGED <<orphans, odd>>
           \/ /\ Odd /\ Passes(s, "timeout")
              /\ orphans' = [orphans EXCEPT ![i] = @ + 1]
              /\ hasPr' \in {hasPr, hasPr \cup {i}}
        /\ UNCHANGED <<mode, tickNo, entry, fresh, po_ready, asked, perished>>

\* A verdict, or "error" for a critic that is late or raises.
_critic_worker(s) ==
    LET item == slot[s].item
    IN  /\ Busy(s) /\ Freed(s)
        /\ \/ results' = results \cup {Result(item.issue, item.status, "verdict")} /\ UNCHANGED odd
           \/ results' = results \cup {Result(item.issue, item.status, "error")} /\ Odd
        /\ unfinished' = [unfinished EXCEPT !["pr_pending_critic"] = @ - 1]
        /\ UNCHANGED <<mode, tickNo, entry, fresh, po_ready, pr_pending_critic, orphans, hasPr, asked, overflowed,
                       perished>>

QueueOf(s) == IF s \in PoSlots THEN "fresh" ELSE IF s \in WorkerSlots THEN "po_ready" ELSE "pr_pending_critic"

\* The event of a deadline or of an overflow cannot be written: the exception
\* leaves the stage, whose finally still says task_done.  At an overflow the
\* oldest is out by then, and the new one not in.
EmitRaises(s) ==
    LET i == slot[s].item.issue
    IN  /\ Busy(s) /\ Odd
        /\ slot' = [slot EXCEPT ![s] = [st |-> "dead", item |-> NoItem]]
        /\ perished' = perished \cup {i}
        /\ \/ /\ unfinished' = [unfinished EXCEPT ![QueueOf(s)] = @ - 1]
              /\ \/ UNCHANGED orphans
                 \/ s \in WorkerSlots /\ orphans' = [orphans EXCEPT ![i] = @ + 1]
              /\ UNCHANGED <<po_ready, pr_pending_critic, overflowed, hasPr>>
           \/ /\ s \in PoSlots /\ Len(po_ready) >= QueueCap
              /\ po_ready' = Tail(po_ready) /\ overflowed' = overflowed \cup Dropped(po_ready)
              /\ unfinished' = [unfinished EXCEPT !["fresh"] = @ - 1, !["po_ready"] = @ - 1]
              /\ UNCHANGED <<pr_pending_critic, orphans, hasPr>>
           \/ /\ s \in WorkerSlots /\ Len(pr_pending_critic) >= QueueCap
              /\ pr_pending_critic' = Tail(pr_pending_critic)
              /\ overflowed' = overflowed \cup Dropped(pr_pending_critic)
              /\ unfinished' = [unfinished EXCEPT !["po_ready"] = @ - 1, !["pr_pending_critic"] = @ - 1]
              /\ hasPr' = hasPr \cup {i} /\ UNCHANGED <<po_ready, orphans>>
        /\ UNCHANGED <<mode, tickNo, entry, fresh, results, asked>>

-----------------------------------------------------------------------------
(* The threads of late workers, and the operator.                          *)

OrphanEnds(i) ==
    /\ orphans[i] > 0 /\ orphans' = [orphans EXCEPT ![i] = @ - 1]
    /\ hasPr' \in {hasPr, hasPr \cup {i}}
    /\ UNCHANGED <<mode, tickNo, entry, queues, slot, results, asked, overflowed, perished, odd>>

Asks ==
    /\ mode # "stopped"
    /\ \/ ~askStop /\ askStop' = TRUE /\ UNCHANGED <<askPause, should_run>>
       \/ askPause' = ~askPause /\ UNCHANGED <<askStop, should_run>>
       \/ should_run /\ should_run' = FALSE /\ UNCHANGED <<askStop, askPause>>
    /\ Odd
    /\ UNCHANGED <<mode, tickNo, entry, queues, slot, results, orphans, hasPr, overflowed, perished>>

Stages ==
    \/ Take
    \/ \E s \in PoSlots : _po_worker(s)
    \/ \E s \in WorkerSlots : _worker_worker(s)
    \/ \E s \in CriticSlots : _critic_worker(s)

MainLoop ==
    \/ StopSeen \/ SignalSeen \/ MaxTicksReached \/ _one_tick
    \/ RunAsyncTick \/ submit_many \/ drain \/ TickDone_ \/ LoopStops

AsyncNext ==
    \/ MainLoop \/ Stages \/ Asks \/ SubmitRaises
    \/ \E s \in Slots : EmitRaises(s)
    \/ \E i \in Ready : OrphanEnds(i)

AsyncSpec == AsyncInit /\ [][AsyncNext]_asyncVars

\* The event loop runs what can run; every stage has a deadline, and a worker's
\* thread has its own.
AsyncFair ==
    /\ WF_asyncVars(MainLoop) /\ WF_asyncVars(Take)
    /\ \A s \in PoSlots : WF_asyncVars(_po_worker(s))
    /\ \A s \in WorkerSlots : WF_asyncVars(_worker_worker(s))
    /\ \A s \in CriticSlots : WF_asyncVars(_critic_worker(s))
    /\ \A i \in Ready : WF_asyncVars(OrphanEnds(i))

-----------------------------------------------------------------------------
(* Properties.                                                             *)

Held(q) == {s \in Slots : slot[s].st = "busy" /\ QueueOf(s) = q}

\* What join waits for is what is queued and what is being worked on, across
\* every put, overflow, deadline and death of a stage.
AsyncTypeOK ==
    /\ mode \in {"main", "select", "submit", "drain_fresh", "drain_po", "drain_critic", "finish", "closing", "stopped"}
    /\ unfinished["fresh"] = Len(fresh) + Cardinality(Held("fresh"))
    /\ unfinished["po_ready"] = Len(po_ready) + Cardinality(Held("po_ready"))
    /\ unfinished["pr_pending_critic"] = Len(pr_pending_critic) + Cardinality(Held("pr_pending_critic"))
    /\ \A s \in Slots : slot[s].st \in {"off", "idle", "busy", "dead"}

\* When the pipeline is drained every issue of the batch has a result, unless
\* it was dropped from a full queue or its stage died with it; and only one
\* (runner_async.py "never a silent loss").
NothingLost ==
    mode = "finish" =>
        \A k \in DOMAIN batch :
            LET mine == {r \in results : r.issue = batch[k]}
            IN  \/ Cardinality(mine) = 1
                \/ mine = {} /\ batch[k] \in overflowed \cup perished

\* An overflow costs the oldest: what it drops, of whichever queue, came before
\* all that still waits in the first.
DropsOldest ==
    [][\A i \in overflowed' \ overflowed, k \in DOMAIN fresh' :
           \E a, b \in DOMAIN batch' : batch'[a] = i /\ batch'[b] = fresh'[k].issue /\ a < b]_asyncVars

\* No drain waits for ever unless every slot of a stage has died.
DrainEnds ==
    Draining ~> (~Draining \/ \E S \in {PoSlots, WorkerSlots, CriticSlots} : \A s \in S : slot[s].st = "dead")

\* A stop is obeyed, though the tick and the threads have to end first.
StopEnds ==
    ~should_run ~> (mode = "stopped" \/ \E S \in {PoSlots, WorkerSlots, CriticSlots} : \A s \in S : slot[s].st = "dead")

\* Two workers on one issue: the thread that went on past its deadline, and
\* that of a later tick.
OneWorkerPerIssue ==
    \A i \in Ready :
        orphans[i] + Cardinality({s \in WorkerSlots : slot[s].st = "busy" /\ slot[s].item.issue = i}) <= 1

\* runner_async.py:178-183: without the recovery "the PR is orphaned and never
\* revisited"; run_async passes none.
LatePrFollowed == \A r \in results : r.status = "timeout" => r.issue \notin hasPr

\* Every item is accounted for.
EachItemAccounted == [](AsyncTypeOK /\ NothingLost) /\ DropsOldest

\* Drain and stop end.
PipelineSettles == DrainEnds /\ StopEnds
=============================================================================
