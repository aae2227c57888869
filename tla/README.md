# forge-loop in TLA+

forge-loop is a runner that takes labelled GitHub issues, gives each to a coding
worker in a git worktree of its own, reviews what comes back, merges it or keeps
it, and goes on, for days, unattended, across crashes.  What makes it correct is
not in any one function: it is in what threads, processes and restarts do to a
handful of durable tables.  This directory models that part in TLA+, checks it
with TLC, and proves the central claims with TLAPS.

All paths below are relative to the repository; the code is under
`src/forge_loop/`.

## Inventory

| Component | State it keeps | Operations | What is hard | What makes it correct | Status |
|---|---|---|---|---|---|
| task-saga store (`tasks/`) | table `task_sagas` in `.forge/tasks.db` | create, put, acquire_lease, heartbeat, mark_*, list_* | several connections on one file; every method is a read, checks, and one conditional write | leases exclude each other, terminal rows are final, no stale copy is written back | modelled |
| dispatch, heartbeat, recovery (`runner/dispatch.py`, `control/recovery.py`) | the saga of each issue, its worktree and branch; a heartbeat thread per worker | seed, lease, prepare, run, finalize; sweeps at boot, per tick and from the operator | process death anywhere, suppressed errors, expiry races, a sweep against a live worker | only the dead are compensated; leased sagas drain; COMPENSATED should not be a lie, and is | partly |
| event log (`eventlog/sqlite.py`, `control/boot.py`) | tables `events` (a hash chain) and `projection_cursors` | append, prune, compact_noise, replay, advance cursor | a connection per thread; deletion and re-link in separate transactions; boot beside the running loop | only races and deaths break the chain; load-bearing events stay; a compaction takes nothing a cursor has yet to read | modelled |
| legacy mirror, scorecard (`eventlog/legacy_mirror.py`, `scorecard.py`) | the records of the NDJSON stream, as events | mirror a record, fold | idempotency keys that hold a tick number; several threads and processes | a task's timeline ends as its tick did; folds are idempotent | partly |
| worker sessions (`worker_state.py`, `worker_sessions.py`, `runner/recovery.py`, `runner/persistent_dispatch.py`, `runner/critic_flow.py`) | table `worker_sessions`: state, rounds, URL | create, resume, transition_to, store the URL, count a round, recover | read, check and update without comparing; death between any two | only edges of the table; one live session per issue; rounds are counted; slots come back | modelled |
| tick (`runner/tick.py`, `repairs.py`, `merge_gate.py`, `rescue.py`, `iteration.py`, `attempts.py`, `stuck_sweep.py`) | the outcomes of a tick, the attempts ledger | pick, repair, adopt, dispatch, review, gate, land, record, rescue | what a phase read is used by a later one while GitHub and people move on | what lands was approved; nothing ready starves | partly |
| main loop and shim (`runner/boot.py`, `drift.py`, `poison_guard.py`, `scripts/all-nighter.sh`) | stop, pause and HALT files, signals, recent outcomes | boot, tick, sleep, redeploy, halt, restart | files and signals that race the loop and its supervisor | drift halts it for good; a stop is obeyed; the healer removes only what is its own | partly |
| sweeps (`epic_sweep.py`, `branch_sweep.py`, `worktree_sweep.py`, `checkout_reconcile.py`, `tick_checks.py`) | epics, branches, worktrees, the shared checkout | plan, close, delete, reap, restore | snapshots that are stale when used; reads that fail | live work stays, what is left over goes | partly |
| loop state (`state.py`) | state file, events file and archives | write, append, rotate, consolidate | other processes append while five file operations go on | no load-bearing line is lost | modelled |
| task queue (`queue/`) | table `tasks`, or a deque | push, pop, ack, nack, close | hosts that die with a task | one host per task; nothing is forgotten | modelled |
| critic (`critic.py`, `_critic_sdk.py`) | a log file per review | review, retry, fall back, coerce, demote | deadlines, unparsable answers, rounds counted by files | nothing severe is lost or relaxed | partly |
| worker execution (`worker.py`, `_worker_sdk.py`, `worker_env.py`, `snapshot.py`) | stream, log, events | preflight, run, close, derive the outcome, show | a stream that ends anywhere | failures are told, sessions resumable | partly |
| asynchronous runner (`runner_async.py`) | three bounded queues and their slots | push, stage, drop, drain, stop | cancellation, threads that outlive their deadline | every item ends in a result or a drop | modelled |
| pipeline (`pipeline/`, `runner/_pipeline_driver.py`) | a file of steps | load, validate, order, run | files written by hand, edited under the loop | no merge over a failed step | modelled |
| memory, frontier, maestro, learning (`memory/`, `frontier/decisions.py`, `runner/maestro.py`, `runner/learning.py`) | memory items, decisions | put, supersede, promote, expire, record, order | several writes of which one fails | one current skill; verdicts stand | partly |
| product commands (`cli_product_commands.py`, `brainstormer.py`) | issues, ledger, memory | brainstorm, apply a report | applied twice, or cut in the middle | nothing is filed twice | partly |
| code audit (`codebase_audit.py`, `audit_probes/`) | its tickets | probe, list, file | probes that crash, lists that fail | one ticket per target | modelled |
| GitHub client (`gh_client.py`, `gh_issues.py`) | none | repair list, merge, finding; one-call methods | a call of several fails, or its answer is lost | failures are contained; what is said is so | partly |
| operator questions (`operator.py`, `mcp_server.py`) | comments of one issue | ask, poll | polls, deadline and answers race, under two clocks | stale answers are ignored, prompt ones found | partly |
| watchdog, doctor, status, CLI, console, settings, multi-repository loader, sandbox policy, adapters, product tools, observability | none, or views | render, parse, call out | I/O | | not modelled |

How they meet: the tick calls dispatch, which runs a thread per issue; the
threads share the saga store, the session store and, one connection each, the
event log.  The boot and the tick call the recovery sweep on the same store, and
the maintenance of a tick sweeps what is left over.  `forge-loop boot`, `recover`
and the MCP server are other processes on the same files.  No lock keeps two
processes apart: SQLite's statement and transaction atomicity is all there is.
Around it all the shim starts the loop again until a HALT marker forbids it.

## Modules

| Module | Models | EXTENDS / INSTANCE |
|---|---|---|
| `SagaLifecycle` | abstract: a saga table whose operations are atomic | |
| `SagaStore` | `tasks/store.py`: each method as its SELECT with its checks, then its conditional write | INSTANCE SagaLifecycle, as what it implements |
| `SagaStoreProofs` | theorems about SagaStore | EXTENDS SagaStore, TLAPS |
| `DispatchRecovery` | workers, heartbeats, sweeps, worktrees and branches, process death | INSTANCE SagaLifecycle, as the store it calls |
| `DispatchRecoveryProofs` | theorems about DispatchRecovery | EXTENDS DispatchRecovery, TLAPS |
| `EventLog` | `eventlog/sqlite.py` and the replay of `control/boot.py` | |
| `EventLogProofs` | theorems about EventLog | EXTENDS EventLog, TLAPS |
| `Conveyor` | the phases of `runner/tick.py` over issues and their pull requests, with GitHub, the operator and crashes around them | |
| `ConveyorProofs` | theorems about Conveyor | EXTENDS Conveyor, TLAPS |
| `WorkerFsm` | abstract: sessions that take the edges of one table | |
| `WorkerSession` | a persistent worker, its session row, the critic's verdict on it and the recovery at boot | INSTANCE WorkerFsm, as what it implements |
| `CriticReview` | the reviews of one pull request | |
| `AgentProofs` | theorems about WorkerSession and CriticReview | EXTENDS both, TLAPS |
| `Selection` | what a comprehension with a condition keeps of a list | |
| `SdkRun` | one run of a worker: preflight, stream, outcome, events, snapshot | EXTENDS Selection |
| `Supervision` | the shim, the boot with its poison guard, the head of the main loop, the drift detectors | |
| `Sweeps` | the maintenance of a tick and the restored checkout | |
| `LoopProofs` | theorems about Supervision, Sweeps, AsyncPipeline and TaskQueue | EXTENDS them, TLAPS |
| `AsyncPipeline` | `run_async` and the orchestrator of `runner_async.py` | |
| `QueueContract` | abstract: what `queue/__init__.py` promises of every backend | |
| `TaskQueue` | `InMemoryQueue` and `SQLiteQueue` | INSTANCE QueueContract, as what it implements |
| `Pipeline` | the pipeline file, its validation, order and walk | |
| `RunnerFiles` | `state.py`: the NDJSON stream, its archives, the state file | |
| `StorageProofs` | theorems about RunnerFiles, Backlog, Knowledge, SdkRun and Pipeline | EXTENDS them, TLAPS |
| `EventMirror` | the records of the runner as events, the task timeline, the scorecard | |
| `MemoryStore` | `memory/store.py`: the operators of the table | EXTENDS Selection |
| `Knowledge` | what a tick remembers of its merges, the tree of skills | EXTENDS MemoryStore |
| `Backlog` | proposals that become issues: the ledger, the memory, the maestro | EXTENDS MemoryStore |
| `Audit` | the audit's passes and tickets | |
| `GitHubCalls` | the client's methods of several calls | |
| `OperatorAsk` | `ask_operator`: a question on an issue, and its polls | |
| `GitHubProofs` | theorems about GitHubCalls, OperatorAsk, Audit and EventMirror | EXTENDS them, TLAPS |
| `MCSagaStore`, `MCDispatchRecovery`, `MCEventLog`, `MCConveyor`, `MCBacklog` | instances of one module | |
| `MCAgents`, `MCLoop`, `MCPipeline`, `MCRecords` | instances of several, see Runs | |

Two levels are the point of three compositions: DispatchRecovery may treat a
store call as one step because SagaStore is proved to implement SagaLifecycle;
WorkerSession, in which a transition is checked in one step and written in
another, is proved to implement WorkerFsm; both backends of TaskQueue are
proved to implement QueueContract, under a mapping that turns a deque and a
dictionary, or the rows of a table, into the sets of who waits and who is held.

### SagaStore and the code

A store is a connection with a re-entrant lock (`_synchronized`), so it has at
most one method under way: `op[s]`.  `AcquireLease`, `Heartbeat`,
`MarkTerminal`, `MarkFailed`, `PutDispatched` are the SELECT of the method and
the checks on the row; `AcquireWrite`, `HeartbeatWrite`, `PutWrite` are the
UPDATE or UPSERT, enabled when its WHERE clause (`AcquireWhere`,
`HeartbeatWhere`, `PutWhere`) matches the row as it is by then; `Conflict` is a
write that matches nothing and raises.  `CallTimes`: the caller reads the clock
before it waits for the lock, so a call decides with a time up to MaxLag old.
`promised` is a history variable: the expiry each owner was last told it had.
NULL lease columns are the time 0 and the owner NoOwner.

### DispatchRecovery and the code

`phase` walks the process through `boot.run` and the tick; `worker[i].pc` walks
a worker through `_dispatch_one_worker` and `_run_worker_with_saga`.  What
dispatch suppresses (`contextlib.suppress`) is a disjunct that changes nothing:
the refusal of the table, or a `Fault` where the table would have allowed the
call.  `sweep["loop"]` is the boot, tick or watchdog sweep, `sweep["operator"]`
that of `forge-loop recover`; both go saga by saga through
`reconcile_stale_sagas`, one compensation at a time.  `Exit` is death at any
point: workers and heartbeats are gone, tables and disk stay, and the tick
number, which is part of the lease owner, starts again.  `ReapsBranch` says whether the
sweep is given a `reap_branch` (`runner/boot.py:159` and `cli_status_commands.py:392`
give none), `SilentReaps` whether `git worktree remove` can fail without raising (it
can: `reap_worktree` drops the adapter's result).

### EventLog and the code

A client is one `SqliteEventLog`, that is one connection: the loop opens one per
thread, and `forge-loop boot` beside the loop is one more.  `op[c]` is the method
it is in with what it has read; between any two statements the others take theirs, and
a death ends a method anywhere.  A hash is the set of events chained into it,
which is faithful because chains run upward in sequence and SHA-256 is taken to
be injective.  Legacy rows without a hash are left out.  An event's kind is kept
as whether it is load-bearing.

### Conveyor and the code

The loop is one sequential process; `pc` is the phase of its tick, `kind` the
body it is in: `blocked` and `ready` are the two uses of `_run_repair_tick`,
`adopt` is `_run_adoption_tick`, `fresh` is `_dispatch_and_iterate` with
`_run_merge_gate` and `_finalize_tick`.  All four share the phases work, iterate,
review, gate, land, finish, some of which are empty for a kind; a phase handles
its outcomes in order (`Upnext`), but for the workers, which end in any order.
What makes the module worth checking is what a phase remembers: `batch`,
`backlog` and `seen` are what a selection read, `outcome[i]` is the WorkerOutcome
that the phases mutate, and between any two steps the world in `issue` and `pr`
moves: auto-merge fires, checks finish, branches start to conflict, the operator
closes, relabels, gates or comments, or the process dies (`Crash`).

A pull request is its state, the labels the loop reads back, whether auto-merge is
armed, its merge state, who has unresolved threads, and `head`, a history value: what
the critic thinks of the commit the branch points at.  A report of the critic is its
overall opinion, its worst severity and whether it is a suspicious approval of a large
diff; a manifesto violation counts as a finding of its severity. `Fails(call)` is a call
to GitHub that may fail, in the way its wrapper reports a failure (a listing or an entry
of it lost, a label that stays, an unknown issue state).  A cool-down is longer than a
tick: it ends only after the issue was skipped for it.  The force file and an edit of
the issue's body both make its attempt record stop counting, and are one act of the
operator.

Left out: the maintenance sub-tick beyond the stuck sweep, the axis filter, spec
expansion, the maestro's reordering, the pipeline-driven dispatch, the mutation
gate (dormant in production), the drift halt, and everything that only comments.

### WorkerSession, CriticReview, SdkRun and the code

`WorkerSession` follows an issue's rows: `get_or_resume_session` and `create` choose or
make one; `transition_to` is its SELECT with the edge check (`MayMove`) and then its
UPDATE (`WriteState`), and the process may die between them.  The worker's steps prepare
the worktree, run the agent, read its outcome and store the URL before the hand-off; the
critic's verdict either sends it back, counting a round, or ends it.  Two handlers take a
`request_changes`: `enforce_critic_iteration_cap`, which compares the count with the cap
first, and `handle_critic_verdict`, which does not (`uncapped` counts those).  Neither has
a caller yet, so the model hands them every verdict, and `handle_critic_verdict`'s
`dispatch_revision` callback is left out: the session is resumed as any other in REVISING.
After `boot` reaped the worktrees, `recover_sessions` is `runner/recovery.py` row by row with `_decide`.
Tables, worktrees and GitHub outlive the process. `SameThread` says whether SQLite
serves the thread of the worker: the stores are opened by the tick's thread, and SQLite
refuses any other, so with FALSE no row is ever written by a worker.  A pull request the
recovery looks up is found closed as well as open, or the call fails.

`CriticReview` keeps of a report its verdict and the severities of its findings
and manifesto violations.  The answer of a session is a sequence of objects
(`Texts`), of which the parser takes the last that has the shape of a report;
then come coercion, the fixed rules over the diff (`FactSets`), the demotion of
nits once `Threshold` rounds are on disk, and the second provider.  A round is a
log file's stamp in whole seconds, which is what the code counts.

`SdkRun` is one run after another: the PATH the preflight looks a tool up on and
the one the agent gets, the knobs a client may refuse, the messages of the
stream with its failures, cancellation by the deadline and close, the outcome,
the lines of the events file with their age, and what the snapshot shows.

### Supervision, Sweeps and the code

`Supervision` has the shim's `while`, the process, and the files and signals
between them.  A tick is one step with an outcome as `_finalize_tick` sees it:
`Remember` is the `deque(maxlen=3)` the drift detectors judge.  The HALT marker is
written with errors suppressed, so `HaltHolds` speaks of markers that could be
written.  `site` is what site-packages holds: `heal` may remove forge-loop's own
link and must leave the operator's.

`Sweeps` takes each listing of GitHub, git and the store as one step and each
close, delete and removal as another, because people open, close and reopen issues
and agents write into worktrees in between.  What a query shows of an epic's
sub-issues is `Listings`: the first FIRST of them, or none when it failed, since the
client returns `[]` for both.  `Due`, `OpenSubs`, `Deletes` and
`plan_reap` are the decisions; `restore_base_branch` is the `finally` of every
tick.

### AsyncPipeline, TaskQueue, Pipeline and the code

What a stage of `AsyncPipeline` does between two awaits is one step. `asyncio.to_thread`
cannot be cancelled, so a deadline leaves an orphan that goes on (`OrphanEnds`); `Put`
on a full queue gives up the oldest (`Dropped`).  `submit_many` puts issue after issue
without suspending, so no stage runs before the whole batch is in, and a batch longer
than the queue drops its own oldest; an overflow whose event cannot be written ends the
loop there (`SubmitRaises`) and, in a stage, that stage (`EmitRaises`), the oldest being
out by then and the new item not in.  `TaskQueue` has both backends behind
one set of actions, with `backend` chosen at the start; `nack` gives a task back, to the
front in one and in its old place in the other: a row keeps its rowid, so `Place` is
after the older rows and before the younger.  A call of the SQLite backend may raise
`QueueUnavailable`: a pop that has marked the row by then leaves it in flight for a host
that never gets it, an ack or a nack leaves it in flight (`SettleFails`), a push leaves
a row or none; the transaction it leaves open goes with the next commit or is lost
with the process, and either is a choice of the step.  In `Pipeline` a step of the file is a
record; `Visit` is one move of the code's depth-first search (a call, a return or a cycle
found) with its stack of calls for the path, `TopoOrder` is Kahn's queue with all that has
left it, and `OperatorEdits` is a change of the file under a running loop, which boot has validated before and the tick reads again.

### RunnerFiles, EventMirror and the code

A file is the sequence of its lines, and every open, read, rename, truncation and
write is a step.  `append_event` opens and appends, whatever the size; it is the rotation
that looks at the size, writes the load-bearing lines of the archive it is about to
unlink into a sidecar, cascades the archives, renames the stream and touches a new one;
`consolidate_sprint` reads and rewrites.  Of the sidecar only
the set of what is in it is kept, as the rotation only ever appends to it.  `EventMirror` turns a record into
its events by the kinds the mirror knows; an event's idempotency key is what the
code builds it from, the tick number of the process included.

### Knowledge, Backlog, Audit and the code

Every write to memory is a transaction, and the process may die or the store
refuse between two: a new skill is put before the old one is superseded, and stale
skills are tagged one by one.
`record_failed_outcomes`, `expire_stale_skills`, `promote_internal_nodes` and the
recording of repairs have no caller in production; they are operations of the
component and modelled as such.  In `Backlog` titles are compared under `Norm`
(`normalize_candidate_key`), a report is a sequence of proposals by axis, and a
listing of GitHub is cut at `Limit`.  `Audit`'s units have a probe, a target and a
number, because two functions of one file may share a qualified name; a pass takes them
probe by probe, in any order that a walk through the files may give within one.

### GitHubCalls, OperatorAsk and the code

Every call of a method of `GitHubCalls` either does what it says and says so,
fails, or does it and loses its answer (`Fault`); GitHub and people move between
any two.  `answer` is what the method returned, and `held` and `ready` are history:
the pull requests a human's open thread held back, and those that were approved
and clean, all through the method.  A listing is the set of what is in it: the code
sorts by the last update, which anyone may give any pull request, so where a listing,
a batch or the answer is cut any of them may come first (`Firsts`).  A finding's text
is left out.  In `OperatorAsk` the issue is a setting of the
whole loop, so workers share it; a comment is the time it has on GitHub's clock,
the option its marker names, and, as history, the question its author meant.  The
loop's clock is ahead of GitHub's by `skew`, which may be negative: `now_iso` is the
host's clock and nothing ties it to GitHub's.  The webhook and Slack take no answers and are
left out.

## Runs

| Run | cfg | Shows |
|---|---|---|
| `saga_store` | MCSagaStore | two stores interleave every method on a task with two owners: `OneHolder`, `TerminalFinal`, `LeaseOnlyGrows`, the inductive invariant `StoreInv`, and `ImplementsLifecycle` |
| `dispatch` | MCDispatch | two issues, two ticks, one death, faults, missed beats, with the sweep as boot and the CLI call it (no `reap_branch`, removals that fail in silence): a live worker keeps its worktree (`LiveWorktree`) and its lease (`LeaseOfTheLiving`), and a compensation is of a dead worker only (`CompensatesTheDead`) |
| `compensated` | MCCompensated | ends in a counterexample, see below |
| `drains` | MCDrains | liveness: every running saga is finished (`LeasedSagaDrains`) |
| `event_log` | MCEventLog | two connections that append, prune, compact and boot, and a death: load-bearing events stay (`LoadBearingKept`), keys are unique (`OneRowPerKey`), the chain breaks by four steps and no other (`OnlyRacesBreakTheChain`), a compaction spares the head and what a cursor has yet to fold, as it read them (`CompactionSpares`), a cursor goes back only between the check and the write of another boot (`CursorMonotone`) |
| `conveyor` | MCConveyor | one issue, every phase, follow-up sessions, every fault of GitHub and of the critic, a crash or an act of the operator: what a merge phase lands has a head the critic approved, or a review that raised (`LandsWhatWasApproved`); a pull request labelled blocked gets armed by four steps and no other (`BlockedNotArmed`) |
| `conveyor_fair` | MCConveyorFair | two issues: a ready issue is taken up whatever the repairs of the other do (`ReadyServed`), an orphan is reviewed unless repairs go first (`OrphanReviewed`; together `EachHasItsTurn`) |
| `agents` | MCAgents | sessions, reviews and runs of an agent |
| `loop` | MCLoop | the shim and the main loop; the sweeps |
| `pipeline` | MCPipeline | the asynchronous runner, the task queue, the pipeline |
| `records` | MCRecords | the files, the mirror, memory and skills, the backlog, the audit, the GitHub client, operator questions |
| `reapply` | MCReapply | ends in a counterexample, see below |

In `agents`, `loop`, `pipeline` and `records`, an MC module EXTENDS several components that do not share state,
and its variable `part` says which of them a behaviour exercises; the others rest in
their initial state.  It is several models in one run, not a composition.  What is
checked of each is a conjunction of named parts:

| Checked | Module | Parts, one sentence each |
|---|---|---|
| `SessionInv` | WorkerSession | `OneLiveSession`: an issue has at most one session that is not over.  `HandoffHasUrl`: what waits for the critic has a pull request.  `RunningIsRun`: a running row stands for a worker.  `RevisionsAreCounted`: a death may cost a round, never grant one, and past the cap go only the rounds that `request_changes` counted |
| `AgentsLeave` | MCAgents | liveness of both: `SlotsComeBack`, a row of a dead process does not stay running; `GhostsLeave`, a worker that is gone is not shown for ever |
| `ImplementsFsm` | WorkerSession | every step is an edge of WorkerFsm or a stutter |
| `CriticInv` | CriticReview | `OnlyNitsAreRelaxed`: an approval the critic did not give is of a report with nothing severe in it, and none passes over a fixed rule or a severe manifesto violation.  `SevereSurvives`: no severe finding is lost.  `RoundsNotUndercounted`.  An approval that the critic itself gives over a sev1 finding goes through here; `plan_actions` (`critic_actions.py:124`) refuses it when it reads the findings again |
| `RunIsToldAndResumable` | SdkRun | `DeclaredToolWins`, `FailureIsTold`, `SessionCanResume`, `RunningIsShown`: a run that is under way wrote its start, unless a write failed, and while the start is within the window it is shown |
| `LoopIsGoverned` | Supervision | `HaltHolds`, `DriftIsHalted`, `HealIsScoped` |
| `SweepsTakeWhatIsDone` | Sweeps | `LiveWorkKept`: no epic goes over a sub-issue it was shown that stayed open, and with none shown only an old one.  `OpenKeepsBranch`, `LeasedNeverReaped` |
| `LoopSettles` | MCLoop | liveness of both: `StopIsSeen`; `LeftoversGo` is `OrphansAreReaped`, `EpicsClose`, `HeadComesHome` |
| `EachItemAccounted` | AsyncPipeline | `NothingLost`: every item has one result, or was dropped, or died with its stage.  `DropsOldest`.  In `AsyncTypeOK`, what the joins wait for is what is queued and in work |
| `PipelineSettles` | AsyncPipeline | liveness: `DrainEnds`, `StopEnds` |
| `QueueInv`, `ImplementsContract` | TaskQueue | `OneHostPerTask`, `FirstTriesInOrder`, `NothingForgotten`, `BackGoesFirst`; both backends are QueueContract |
| `PipeInv` | Pipeline | `CyclesRejected` and `OrderIsTopological` (a cycle is found exactly when `Cyclic`, a definition without a search, says there is one, and the sort then leaves nobody out), `FailureBlocksMerge`, `OpenedIsReviewed`, `OneOutcomeEach` |
| `FilesInv` | RunnerFiles | `LoadBearingKept`, `ArchivesInOrder`, `StateIsWhole`, after any death and any interleaved append |
| `MirrorInv` | EventMirror | `TimelineAfterTick`, `ReplayIsIdempotent`, `CompletionOutranks` |
| `KnowledgeSafe` | Knowledge | `LineageEnds`, `OneActiveSkill`, `ShippedNotFailed`, `PromotionCovers` |
| `BacklogSafe` | Backlog | `NothingFiledTwice`, `TicketHasItsEpic`, `AcceptedWasFiled`, `VerdictsStand`, `PlanKeepsIssues` |
| `AuditSafe` | Audit | `OneTicketPerTarget`, `CrashIsIsolated`, `EachIsFiled` |
| `GitHubInv` | GitHubCalls | `HumanHeldBack`: of the calls of a repair listing that fail, the first costs nobody and each later one a single pull request.  `ApprovedLeftAlone`, `MergedIsTrue`: no branch goes before its merge.  `FindingLands` |
| `AskInv` | OperatorAsk | `NoOvershoot`.  `StaleAnswerIgnored`: no answer is taken that is older than the question by more than the loop's clock is behind.  `PromptAnswerFound` |

Each conjunction also has the module's type invariant, and each part is stated above
its definition with the sentence of the code it comes from.  `PROJECT.json` lists a
mutant for every part: a plausible bug in a mapped definition that breaks it.

### Bounds, and why they are enough

* SagaStore: one task (rows do not interact), two owners and two stores (the
  properties speak of pairs), lease lengths 1 and 2 on a clock of 4 with calls up
  to 1 late: long enough for a lease to be taken, to lapse, to be taken over and
  for the late call of its first holder to arrive.
* DispatchRecovery: one or two issues, two ticks, one death and one fault, and a
  clock on which a lease can lapse after the last dispatch (`ClockTick` and
  `Dispatch` keep LeaseTTL units in reserve, so that the bound on the clock never
  hides a lapse).
* EventLog: two connections (every property is about a step of one between two of
  another), three events, one key, one projection and one death: a row linked to a tail
  that is gone needs two events, a re-link over a row that came since needs three.
* Conveyor: `conveyor` has one issue (the properties of a landing are about one
  pull request), every merge state, opinion and severity, two iterations, so that there
  is a follow-up session (the code's default of three only adds another such), every kind
  of fault, and one act: a crash, or a change by the operator at any point, which is what
  separates a check from its use.
  `conveyor_fair` has two issues and two slots, the least in which a repair can
  take a slot from a new issue; merge state BLOCKED (so that nothing leaves by
  merging), no acts, no faults and no follow-up sessions, because with a listing
  that may always fail, or a critic that may always crash, nothing can be promised.
* WorkerSession: one issue (sessions of different issues do not touch), three
  sessions, two deaths (a death in the recovery from the first), one failing call, a
  cap of one round so that it is reached.  CriticReview: seven answers that cover
  each branch of the parser and of the coercion, a threshold of two rounds within
  four seconds.  SdkRun: two runs, so that the lines of one age while the other
  goes on.
* Supervision: three ticks, as many as the drift window holds; two signatures, two
  acts and one failing write.  Sweeps: an epic that is itself a sub-issue of
  another (a cascade needs both), a worktree of each root, two surprises, so that
  a read can be stale or fail and something else go wrong besides.  A query shows one
  sub-issue, so that the epic of two is cut; fewer than 100 epics are open, so that the
  listing of them is whole.
* AsyncPipeline: three issues over queues of two (a drop needs more items than
  places), two worker slots, two ticks, two mishaps.  TaskQueue: three tasks, two
  hosts, two attempts, one death or call that raises.  Pipeline: the graphs over three roles in two
  orders of the file, the chain of five roles of the tests, each kind of invalid
  file, one edit.
* RunnerFiles: a limit of one line and two archives, so that the fourth line cascades
  one off the end; one death and one error.  EventMirror: nine shapes of record, four of
  them said, two starts of the process.  Knowledge: two merges and two mishaps, three
  cards in a tree of two levels.  Backlog: two commands and a mishap over two reports
  on two axes that share titles, a listing limit of two.  Audit: two passes over four units, sizes
  at the cap, above it and, after a commit, twice as large.
* GitHubCalls: three pull requests in batches of two (one full batch and one not), a
  limit of two (it cuts; the listing itself is whole), two faults (a batch and one of its single fetches), two
  methods and one move (auto-merge armed by the first fires before the second).
  OperatorAsk: two workers on one issue, a timeout of five seconds that polls every
  two seconds do not divide, a page shorter than the comments, a loop's clock that
  agrees, is one second ahead or two behind.

All runs but `conveyor` and `conveyor_fair` set `CHECK_DEADLOCK FALSE` because clocks,
sequences and the numbers of deaths, faults and acts are bounded, so a behaviour stops
when they are used up.

### Fairness

Weak fairness is asked of what the program schedules itself, never of people, GitHub,
faults, deaths or the passing of beats:

* `drains`: of `ProcessStep` (the loop goes on ticking and whoever supervises it
  starts it again after it died: without a restart no sweep runs, and the claim is
  false), of `ClockTick`, and of each worker's steps, as `worker_timeout_s` ends every
  worker.
* `conveyor_fair`: of `LoopStep`, and nothing of GitHub, time or the operator.
* `agents`: of the loop's and of each worker's steps in WorkerSession (the shim
  restarts the loop), of the clock and the run in SdkRun (the deadline ends it).
* `loop`: of `Loop` in Supervision, which holds the shim; of the loop's steps in
  Sweeps and of a dispatch's body, and strong fairness of `BeginMaintenance`: the
  maintenance is due every so many ticks, and a tick that dispatches interrupts it
  again and again without ever doing so for good.
* `pipeline`: of the event loop, of every slot, and of a thread that went past its
  deadline: `asyncio` schedules whoever is ready, and an agent ends.

## Sentences the code does not keep

TLC refutes more sentences of the repository than a reader would expect.  Two have
runs of their own:

* `compensated` (`CompensatedMeansUndone`, a finding in `PROJECT.json`): to mark a saga
  COMPENSATED whose compensation did not run "would assert a side effect was undone when it
  never ran" (`control/recovery.py:102-103`); as boot and the CLI call it, without a
  `reap_branch`, that is what the sweep does for every branch.  A worktree whose removal
  failed in silence is a second way to the same (SilentReaps TRUE).
* `reapply` (`MemoryMirrorsLedger`, a finding in `PROJECT.json`): a reviewed report
  applied a second time finds the issues it filed itself, takes them for duplicates
  and puts them into memory as rejected paths, while the ledger keeps them accepted.

The others are definitions no run checks.  Each is violated in the configuration
of its module's run, or the one named, and is kept in its module for whoever changes the code:

| Property | Sentence | What happens |
|---|---|---|
| `DispatchRecovery!DispatchIsLeased` (MCDispatch) | README: each dispatch leases a task saga | the second dispatch of an issue finds its terminal row, the refused acquire is suppressed, the worker runs unleased |
| `DispatchRecovery!HeartbeatedNeverReaped` (MaxRecovers 1) | a heart-beated saga is never reaped | `forge-loop recover` acts on the listing it took before the worker leased the saga |
| `EventLog!ChainReplays` | an untouched log replays without raising (`eventlog/sqlite.py:187`) | two appends chain to one predecessor; a death between deletion and re-link leaves it broken until the next re-link |
| `EventLog!CursorAdvances` | a cursor is persisted only when it advances | two boots read one cursor; the slower one writes last |
| `Conveyor!RefusedStaysOut` | tick.py: an operator who closed the issue wants the loop to stop | the gate refuses the repaired pull request, its list is dropped, the landing merges it |
| `Conveyor!NeverLandsUnapproved` | a crashed review never falls through to a landing (`runner/dispatch.py:963-967`) | an exception out of the review is logged and leaves no verdict, which the gates take for a critic that is disabled |
| `Conveyor!MergesApproved` | rescue.py: unreviewed work waits for the critic | the rescue arms auto-merge after the critic's pass of the tick |
| `WorkerSession!DispatchNeverFails` (SameThread FALSE) | the session store must never fail dispatch | SQLite refuses a connection of another thread |
| `WorkerSession!ToldIsKept` | recover the URL from the worker log | a run that fails after it told its URL is reported without it |
| `CriticReview!RoundsAreReviews` | distinct stamps are completed reviews | a retry in another second counts as a round, and relaxes a review early |
| `CriticReview!TimeoutNotRetried` | a timeout is not retried into a longer hang | it is, when the text before the deadline was unparsable |
| `SdkRun!ReadersAgree` | dashboard, CLI and snapshot agree on who runs | the TUI has no window: a ghost stays there |
| `SdkRun!FallbackIsUsed` | a knob the client accepts is kept | where two are refused, all are lost |
| `Sweeps!OpenSubsKeepEpic` | an epic with an open sub-issue is never closed (`epic_sweep.py:36`), and an empty result never closes one (`gh_client.py:513-516`) | a query that failed shows none and the epic is old; a query cut at 100 shows only closed ones |
| `Sweeps!IdleOnlyReaped` | only reaped once idle on disk | the directory's time says nothing of the files below it |
| `Sweeps!FailSafeOnUnknown` | fail-safe on unknown | a store that does not answer reads as an empty one |
| `Sweeps!HandsOffDirty` | any dirtiness is a hands-off signal | the `finally` of the tick does not ask |
| `AsyncPipeline!OneWorkerPerIssue` | one worker per issue | the thread past its deadline and the next tick's worker |
| `AsyncPipeline!LatePrFollowed` | without recovery the pull request is orphaned | `run_async` passes no `pr_recover_fn` |
| `Pipeline!SeenAtStartup` | operators see an invalid file at startup | an edit raises in the tick |
| `Pipeline!ApprovedMerges` | the condition's name, `all_approve` | a critic that asks for changes returns ok |
| `RunnerFiles!AppendsSurvive` | the consolidation keeps the last lines | a line appended between its read and its write is lost |
| `EventMirror!ScorecardCoversLog` | a lagging projection is driven to the tail | each boot folds a new scorecard from the saved cursor of the old one |
| `Audit!TargetIsKey` | (probe, target) is the key | two functions of one qualified name share it |
| `GitHubCalls!SuspiciousIsRepaired` (a pull request labelled critic:suspicious in Starts) | a suspicious pull request is the repair loop's job | the listing takes it for its threads only |
| `GitHubCalls!RefusalIsTrue` | `merged` tells whether a pull request landed | the answer of a merge may be lost; the branch then stays |
| `GitHubCalls!LandsOnce` | a finding always lands | twice, when the answer of its inline post is lost |
| `OperatorAsk!StaleNeverMatches` | no stale reply from a previous question is matched (`operator.py:209-211`) | with a clock behind GitHub's, one given before the question passes the filter |
| `OperatorAsk!TimeoutMeansSilence` | a timeout means no reply arrived | one after the last poll, within the clocks' difference or past the first page is missed |
| `OperatorAsk!AnsweredByItsAnswer` | answered on the worker's issue | the issue is one for all, and an answer meant for another question is taken |

Seen while modelling, with no property of its own: `worker_sessions.py:274` has the runner
compare the counter of rounds with the cap, which `handle_critic_verdict` does not
(`RevisionsAreCounted` names it); a saga seeded by a process that died before leasing it stays PLANNED until
the issue is dispatched again; the merge gate quarantines a saga that is already
finished; ticks are numbered from 0 in each process, so an idempotency key of the mirror
can drop a new event for an old one; a repair that pushed and failed leaves an
unreviewed head on a pull request labelled loop:adopted; the boot reaps the worktrees
before the sessions are recovered, so none is ever resumed in its own.

## Proofs

Every theorem is about every value of the constants that its module's assumption and
its own hypotheses allow: any number of issues, workers, connections, deaths and
faults.  Each invariant was checked with TLC before it was proved.

### SagaStoreProofs

* `StoreInvHolds`: `StoreInv` is inductive.  `OneHolder` is not inductive by
  itself: that the UPDATE grants no second lease needs the row to still record the
  first (`HolderIsRecorded`), and that no put erases it needs what the copy a
  pending put carries can be (`PutCallSound`: its expiry is at most the row's, so
  if the lease columns differ the UPSERT's comparison refuses it).
* `MutualExclusion`, `TypeCorrect`, `TerminalIsFinal`, `LeaseNeverShrinks`.
* `Refinement`: every step of the store is a step of SagaLifecycle or a stutter.

### DispatchRecoveryProofs

`ProcessInv` says where the process is while a worker, or its own sweep, is under
way; the rest stands on it.

* `TypeCorrect`.
* `LivingLease` (`LeaseOfTheLiving`), where MaxMissed < LeaseTTL.  `LeaseInv`: a live
  worker's lease is behind its last beat by what it missed since, and a worker without
  one is on an issue whose row another dispatch has ended.  With a beat more to miss
  the lease lapses, which is what the factor of the heartbeat is for.
* `WorktreeOfTheLiving` (`LiveWorktree`) and `OnlyTheDead` (`CompensatesTheDead`), where
  MaxRecovers = 0: no `forge-loop recover` beside the loop.  `DiskInv` keeps the sweep of
  the loop and its workers off each other's trees.  With one `recover` both fail, see
  HeartbeatedNeverReaped above.  Neither asks anything of the handlers.

### EventLogProofs

* `EventInvHolds`: sequences are below `nextSeq`, and the victims a deletion has
  chosen are events of the past and noise if still there.
* `KeysAreUnique`, `LoadBearingIsKept`, `TypeCorrect`, for any number of connections.
  `LoadBearingIsKept` rests on AUTOINCREMENT: were a deleted tail's number given again,
  a pending deletion would take the new event.
* `ChainBrokenByRacesOnly` (`OnlyRacesBreakTheChain`), for any number of connections and
  deaths.  That an insert linked to the last row keeps a log that verifies so is
  `InsertVerifies`; that an undisturbed re-link makes every hash that of all rows up to it,
  whatever a death has left, is `RelinkChains`, and such a log verifies (`ChainedVerifies`).
* `CompactionIsSafe` (`CompactionSpares`) and `CursorsOnlyAdvance` (`CursorMonotone`), for
  any number of connections.  `ReadInv`: the victims of a compaction are neither the head
  nor past the floor it read, and a cursor about to be set is no less than the one read.

All are without a hypothesis.  That the tail, the head or the cursor is still what was read
would need a single connection, which the code does not have: each property names the
step at which it is not, and says what holds even then.

### ConveyorProofs

`ConveyorInv` keeps the tick's memory within the batch it is of, and the world typed.

* `TypeCorrect`.
* `LandsApproved` (`LandsWhatWasApproved`).  `ClearedInv`: from
  the review of an outcome to its landing, an outcome that no check holds back is of a
  head approved in this batch, which nobody but a worker of the loop moves, and none
  runs then; or its review raised and it has no verdict, which the gates take for a critic
  that is disabled.  `UnheardInv`: no verdict of an earlier batch reaches the review, so a
  review that raised leaves none.
* `BlockedIsNotArmed` (`BlockedNotArmed`).  Every step but the four it names is harmless
  (`NextHarmless`): it arms nothing that is labelled and labels nothing that it leaves
  armed.  For the landing this needs ClearedInv, and that a head that was approved lost its
  label in its review unless the call failed.

Both are for any Faulty, iterations and acts.

### AgentProofs

Of the sessions, `RowInv` says what each writer of a row still knows of it between its
read and its UPDATE: a worker holds a row in the state it saw (`WorkerSound`), and the edge that the
critic or the recovery has checked is still there (`MoveSound`), as the phases of the
loop keep the writers apart.  The rows left to the recovery are the ones it read, since
nobody else writes before it has ended.

* `SessionsSound` (`SessionInv`).  That a round past the cap is one that
  `request_changes` counted is `CountsSound`: the other handler that counts has compared.
* `TableImplementsFsm` (`ImplementsFsm`), the refinement, step by step: under the
  mapping of a table to the states of its rows, every write is an edge of the table of
  edges, a creation a new session, and all else a stutter.
* `ReviewIsSound` (`CriticInv`): `GivenSound` says what parsing and coercion leave of
  the critic's words (a report that approves has no severe manifesto violation),
  `OutcomeSound` what the outcome may have added or relaxed, `RoundsSound` that there is
  a log file's stamp for each completed review.

### LoopProofs

* `LoopGoverned` (`LoopIsGoverned`), where what is installed at first are entries the
  guard knows.  That a halted loop begins no tick is not inductive: it rests on the stop
  file, which the halt leaves beside the marker and which only a run that stops, or a new
  session, takes away (`HaltSound`).  That drift halts after the third failure alike and
  not before rests on the three outcomes kept telling how many in a row failed alike
  (`StreakSound`, for which `RememberIs` says what the deque keeps), and after a third
  one whose marker could not be written the stop file is there all the same (`DriftSound`).
* `SweepsAreSafe` (`SweepsTakeWhatIsDone`), where no issue is both plain and an epic.
  `EpicsSound`: what was open when the pass began and nobody closed is open still, or is
  an epic this pass closed, and until the first close is open; so an epic shown no
  open sub-issue was shown none that stayed open, however old the reading is when it is
  used.  What the query did not show, nothing can be said of.
  `ReapSound`: while the store answers, what is leased is among the live, as sagas are
  leased in other ticks only.

* `ItemsAreAccounted` (`EachItemAccounted`), for any slots, any size of the queues and any
  batches in the order of their numbers.  `AsyncSound` says where each issue of the batch
  is: the first queue holds a stretch of the batch, what is yet to be submitted follows it
  (`InLine`), and each issue before it is in one place only: a later queue, a slot, the
  results, or the lost (`Placed`).  `Counted` ties the counts that the joins wait for to
  the queues and the slots, and `PhaseSound` says that a queue joined earlier stays empty,
  since only the stages before it put into it.  So at the end of the last join nothing is
  left anywhere but in the results and among the lost, and what a full queue drops came
  before the stretch that still waits.
* `QueueIsFair` (`QueueInv`), with no hypothesis.  That first tries come in order is not
  inductive by itself: it needs that tasks are tried in the order of their pushes at all,
  so that what was never tried still waits (`TriesSound`) and follows the older in the
  deque as among the rows (`RowsSound`); and that a waiting task waits once
  (`WaitingSound`), else a second host would pop it.  A row that a call which raised left in
  flight is held by nobody, and stays (`FailSound`).
* `BothKeepTheContract` (`ImplementsContract`), the refinement, step by step: a push, a
  pop, an ack and a nack move one task as the protocol may, also when they raise
  half way; a death, which the rows outlive, moves none.

### StorageProofs

* `FilesHold` (`FilesInv`), with no hypothesis but that the limits are not zero:
  `PlaceSound` says, for each step of a rotation and of a consolidation, where the lines
  are that the next step takes away.  The archive to be unlinked is in the sidecar unless
  a write failed; the place an archive is moved to is empty; what the consolidation holds
  in memory is all that the file it truncates has, but for what it means to drop and what
  others append meanwhile.  `OrderSound` orders the archives, the stream and the lines in
  memory.
* `BacklogIsSafe` (`BacklogSafe`), for any vision, reports and ledger.  That nothing is filed
  twice is not inductive by itself: what a command has left to file must be new titles,
  each once, among what it lists and what is open (`FreshSound`), unless its listing was
  cut or failed (`blind`).  `CommandSound` ties the epic a command remembers under an
  axis to the issue it filed for it, and the decision it is about to record to the issue
  it is about; `KeysOnce` gives a key one decision and one note, so that a verdict that is
  put again is the one that is replaced.  The order of the maestro is a permutation
  because its three buckets are a partition of the places in the queue.
* `KnowledgeIsSafe` (`KnowledgeSafe`), for any tickets, areas and signatures.
  `StoreSound`: an id has one row, what supersedes a row is a row, and no rows supersede
  each other in a circle (`LineageEnds`: a row that is written ends its chain, and one
  that is superseded leads to a row that is active).  `RecordingSound`: while a skill is
  recorded it is active, and all other active rows of its signature are on the list of what
  is left to supersede (`Settled`).  `Promoting`: each parent with leaves enough is still to
  be promoted or has its node, which needs that the promotion of one node does not
  supersede another, hence that a node's id gives its signature (`Signed`).
* `RunsAreTold` (`RunIsToldAndResumable`): `Room` keeps a line for the end of every run,
  `StartShown` follows the start of the run under way through the lines that others
  append, `PathSound` says where the agent's path came from.
* `PipelineHolds` (`PipeInv`), for any files that are sequences of steps, any labels,
  handlers and issues.  The search is right about every file that resolves
  (`SearchDecides`): its path leads from parent to child, what it has returned from is
  closed under children and has no cycle (`VisitSound`), and each move enters a role or
  leaves one (`VisitCounts`), so that after two moves for each role none is left.  The
  queue of the sort has parents first, and whoever waits only for those that have left it
  is in it (`LineSound`); whom it never takes would be a cycle (`SortIs`).  `WalkSound` ties
  the outcomes to the steps behind the walk; that an opened pull request is reviewed needs that
  a worker who opened one is among the outcomes the critic is shown.

### GitHubProofs

* `CallsAreTrue` (`GitHubInv`), with no hypothesis but that what is not merged has its
  branch at first.  `ListingSound`: a listing under way has, or will ask for, the threads
  of all that are held back, and has missed one at most for each failing call after the
  first (`Few`); the first is the batch's, since threads are read one by one only once it
  failed.  `MergeSound`: the branch's turn comes after the merge.  `PostSound`: a finding
  is on the pull request before its second try only if an answer was lost.
* `AskIsSound` (`AskInv`): `CallSound` says of every question where its next poll is:
  by its deadline, at most an interval away, and no later after an answer it may read
  than an interval and one more for each call that failed since (`Grace`).  The
  polls' page and the clocks' difference are any, ahead or behind: an answer is taken only
  if it is after the question on the loop's clock.
* `AuditIsSafe` (`AuditSafe`), with no hypothesis but that the units are finitely many and
  `"none"`, which stands for no probe yet, names none.  `SeenSound`: while the listing of the probe
  at hand was whole, what is on file for it was listed, or filed in this pass for a unit
  that is no longer left.  That the pass ends with at most one violation without a ticket
  for each failed call is `PassedSound`, of the violations behind it at every step; that a
  target is not skipped for another probe's ticket rests on the list being of this
  probe's (`LeftSound`).
* `MirrorHolds` (`MirrorInv`), for any records the runner may write, where a `tick_done` is
  of a tick and has an issue once.  That a timeline ends as its outcome says needs, besides
  what is yet to be appended, that the keys of this `tick_done` are not in the log already:
  in a first life its tick is later than every one in the log (`FirstLife`), and from where
  its events begin nothing else is appended, since the workers have returned
  (`SettledSound`, `WorkerQuiet`).  Then an event that is dropped for its key is dropped for
  one of the same outcome (`SameKeyTellsTheSame`).  The scorecard and the timeline are taken
  event by event (`ReplayIs`, `TimelineEnds`).

The code's choices of a last, first, largest or smallest element are `CHOOSE`s, of which
a proof needs to know that there is one to choose.  It is had from the well-founded
order of the naturals (`WFMin` of the library, lemmas `MinIs`, `MaxIs`, `LastIs`).  The
same lemma stands in for induction where a function is recursive over the naturals:
`ElementsAt` of Selection, with which the models state what a comprehension keeps, is
shown to be what it should by the first place at which it would not (`TakenAlong`, on which
`AtIs`, `AtElements`, `AtTyped` and `AtApart` rest), and that a fold of the event log is a
function of the events at all is `Unfolds`, from which on `Upward` carries what holds
from one event to the next.

### What is only model-checked

* Liveness: `LeasedSagaDrains`, `EachHasItsTurn`, `LoopSettles`, `AgentsLeave` and
  `PipelineSettles`.  They hold under fairness, and TLAPS proves neither
  them nor ENABLED.

Every safety property that a run checks is stated by a theorem.

## Not modelled

* Text: prompts, briefs, rendering, logging, the formats of records.
* GitHub and git beyond the effects their callers see, and the methods of the client
  that are one call with nothing to go wrong but its failure.
* `watchdog.py`, which no module of the program imports.
* Settings, configuration, the multi-repository loader, sandbox policy: parsing and
  pure data.
* Doctor, status, dashboard, console, snapshot beyond who is running: views.
* `manifesto_suggest.py`, `manifestos.py`, `po.py`, `product_vision.py`: one-shot text
  generation.  `frontier/store.py` and `frontier/cursor.py`: documents read and
  written whole.
* A second loop process on one repository: nothing excludes or detects it, and each
  module has one, but for the stores, which have several connections.
* In the tick: the axis filter, spec expansion, the pipeline-driven dispatch within
  Conveyor (Pipeline has it on its own), the dormant mutation gate.

`PROJECT.json` lists every component with its status.

## Plan

1. Compositions: Conveyor with GitHubCalls in place of its one-step calls, and with
   the ledger's fingerprints; WorkerSession with DispatchRecovery, whose sagas and
   sessions describe one worker in two tables.
2. Two loop processes on one repository, for the queue, the sessions and the sweeps.
