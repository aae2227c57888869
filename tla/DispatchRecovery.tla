-------------------------- MODULE DispatchRecovery --------------------------
(***************************************************************************)
(* The runner's process and its workers' sagas: dispatch leases a saga for *)
(* the worker of an issue, a heartbeat renews it, and a sweep compensates  *)
(* the sagas whose lease lapsed (runner/dispatch.py, runner/tick.py,       *)
(* runner/boot.py, control/recovery.py).                                   *)
(*                                                                         *)
(* The store is used through SagaLifecycle, the atomic table SagaStore is  *)
(* proved to implement.  Dispatch suppresses whatever a store call raises; *)
(* a call that raises although the table would have allowed it (a locked   *)
(* database, a lost race) is Fault, and MaxFaults bounds them.             *)
(*                                                                         *)
(* A process runs ticks one after the other; in a tick the sweep comes     *)
(* first, then the workers of the dispatched issues run concurrently, then *)
(* the merge gates and the worktree reaping.  The process can die at any   *)
(* point, and its workers and heartbeat threads with it; the tick number   *)
(* starts again at 1 in the next process.  The operator's                  *)
(* `forge-loop recover` is a sweep in a process of its own.                *)
(***************************************************************************)
EXTENDS Integers, FiniteSets

CONSTANTS Issues,       \* issues labelled for the loop; the saga of one is its task
          MaxTick,      \* bound on the ticks of a process that dispatch
          MaxTime,      \* bound on the clock; the unit is one heartbeat interval
          LeaseTTL,     \* lease length: _HEARTBEAT_LEASE_FACTOR intervals
          MaxMissed,    \* bound on the consecutive beats a live worker misses
          MaxExits,     \* bound on the times the process dies or stops
          MaxFaults,    \* bound on the store calls that raise
          MaxRecovers,  \* bound on the runs of `forge-loop recover`
          ReapsBranch,  \* whether the sweeps get a reap_branch: boot.py and the CLI pass none
          SilentReaps,  \* whether `git worktree remove` can fail unnoticed: git's adapter lets it
          NoIssue

ASSUME DispatchAssumption ==
    /\ NoIssue \notin Issues
    /\ {MaxTick, LeaseTTL, MaxTime} \subseteq Nat \ {0}
    /\ MaxMissed \in Nat /\ MaxExits \in Nat /\ MaxFaults \in Nat /\ MaxRecovers \in Nat
    /\ ReapsBranch \in BOOLEAN /\ SilentReaps \in BOOLEAN

VARIABLES now, saga,    \* the clock and the saga table
          phase,        \* what the process is doing
          tick,         \* its tick number; MaxTick + 1: no more candidates
          worker,       \* the worker of each issue
          worktree,     \* whether wt-loop-<n> is on disk
          branch,       \* whether branch loop/<n> exists
          sweep,        \* the sweep of the process and that of the operator
          missed,       \* clock units since the worker's last beat
          exits, faults, recovers

vars == <<now, saga, phase, tick, worker, worktree, branch, sweep, missed,
          exits, faults, recovers>>
disk == <<worktree, branch>>
budgets == <<exits, faults, recovers>>

NoOwner == 0
Owner == tick                                  \* f"worker-{n}-tick-{tick}"

Store == INSTANCE SagaLifecycle WITH
    Tasks <- Issues, Owners <- 1 .. MaxTick, Times <- 0 .. MaxTime

-----------------------------------------------------------------------------
(* State.  A worker goes through the steps of _dispatch_one_worker; ok is    *)
(* its outcome (merged or open), leased whether acquire_lease returned,      *)
(* raised whether run_worker raised.                                         *)

NoWorker == [pc |-> "none", ok |-> FALSE, leased |-> FALSE, raised |-> FALSE]
WorkerPC == {"none", "seed", "lease", "prepare", "run", "finalize", "done", "gated", "refused"}

NoSweep == [todo |-> {}, at |-> NoIssue, step |-> "worktree"]

Sagas == [state : Store!Unleased \cup Store!Finished \cup {"absent", "running"},
          owner : 0 .. MaxTick, expires : 0 .. MaxTime]
Workers == [pc : WorkerPC, ok : BOOLEAN, leased : BOOLEAN, raised : BOOLEAN]
Sweeps == [todo : SUBSET Issues, at : Issues \cup {NoIssue}, step : {"worktree", "branch", "mark"}]

TypeOK ==
    /\ now \in 1 .. MaxTime
    /\ saga \in [Issues -> Sagas]
    /\ phase \in {"down", "boot", "sweep", "top", "work", "gate", "reap"}
    /\ tick \in 0 .. MaxTick + 1
    /\ worker \in [Issues -> Workers]
    /\ worktree \in [Issues -> BOOLEAN] /\ branch \in [Issues -> BOOLEAN]
    /\ sweep \in [{"loop", "operator"} -> Sweeps]
    /\ missed \in [Issues -> 0 .. MaxMissed]
    /\ exits \in 0 .. MaxExits /\ faults \in 0 .. MaxFaults /\ recovers \in 0 .. MaxRecovers

InFlight(i) == saga[i].state \in Store!Unleased \cup {"running"}
Stale(i) == InFlight(i) /\ saga[i].expires # 0 /\ saga[i].expires <= now
HoldsLease(i) == saga[i].state = "running" /\ saga[i].owner = Owner /\ now < saga[i].expires

(* The heartbeat thread runs from the acquire to the end of the worker. *)
Beating(i) == worker[i].pc \in {"prepare", "run", "finalize"}

Fault == faults < MaxFaults /\ faults' = faults + 1
Advance(i, pc) == worker' = [worker EXCEPT ![i].pc = pc]

-----------------------------------------------------------------------------
(* The process: boot, the top of a tick, the choice of what to dispatch. *)

(* boot.run up to the boot sweep: the worktrees left on disk are reaped. *)
Start ==
    /\ phase = "down"
    /\ phase' = "boot"
    /\ worktree' = [i \in Issues |-> FALSE]
    /\ UNCHANGED <<now, saga, tick, worker, branch, sweep, missed, budgets>>

(* list_stale: what a sweep is going to compensate. *)
ListStale(p) == sweep' = [sweep EXCEPT ![p] = [NoSweep EXCEPT !.todo = {i \in Issues : Stale(i)}]]

BootSweep ==
    /\ phase = "boot"
    /\ phase' = "sweep"
    /\ ListStale("loop")
    /\ UNCHANGED <<now, saga, tick, worker, disk, missed, budgets>>

(* Mutant: the sweep runs at boot only. *)
StartTickUnswept ==
    /\ phase = "top"
    /\ phase' = "sweep"
    /\ tick' = IF tick <= MaxTick THEN tick + 1 ELSE tick
    /\ UNCHANGED <<now, saga, worker, disk, sweep, missed, budgets>>

(* The next iteration of the loop: the watchdog's or the tick's sweep.  The  *)
(* last MaxTick ticks over, the loop goes on idle.                           *)
StartTick ==
    /\ phase = "top"
    /\ phase' = "sweep"
    /\ tick' = IF tick <= MaxTick THEN tick + 1 ELSE tick
    /\ ListStale("loop")
    /\ UNCHANGED <<now, saga, worker, disk, missed, budgets>>

SweepEnded(p) == sweep[p].todo = {} /\ sweep[p].at = NoIssue

(* Mutant: the tick does not wait for its sweep. *)
DispatchDuringSweep(issues) ==
    /\ phase = "sweep"
    /\ issues # {} => tick \in 1 .. MaxTick /\ now + LeaseTTL <= MaxTime
    /\ phase' = IF issues = {} THEN "top" ELSE "work"
    /\ worker' = [i \in Issues |-> IF i \in issues THEN [NoWorker EXCEPT !.pc = "seed"]
                                                   ELSE NoWorker]
    /\ UNCHANGED <<now, saga, tick, disk, sweep, missed, budgets>>

(* After the boot sweep the loop starts; after a tick's, the issues chosen   *)
(* for it, if any, get a worker each, and the tick waits for all of them.    *)
Dispatch(issues) ==
    /\ phase = "sweep" /\ SweepEnded("loop")
    /\ issues # {} => tick \in 1 .. MaxTick /\ now + LeaseTTL <= MaxTime
    /\ phase' = IF issues = {} THEN "top" ELSE "work"
    /\ worker' = [i \in Issues |-> IF i \in issues THEN [NoWorker EXCEPT !.pc = "seed"]
                                                   ELSE NoWorker]
    /\ UNCHANGED <<now, saga, tick, disk, sweep, missed, budgets>>

-----------------------------------------------------------------------------
(* One worker: _dispatch_one_worker and _run_worker_with_saga. *)

(* _seed_worker_saga: create a row unless the issue already has one. *)
SeedSaga(i) ==
    /\ worker[i].pc = "seed"
    /\ Advance(i, "lease")
    /\ \/ saga[i].state = "absent" /\ Store!Seed(i, "planned") /\ UNCHANGED faults
       \/ saga[i].state # "absent" /\ UNCHANGED <<now, saga, faults>>
       \/ saga[i].state = "absent" /\ Fault /\ UNCHANGED <<now, saga>>
    /\ UNCHANGED <<phase, tick, disk, sweep, missed, exits, recovers>>

(* Mutant: a saga that was never leased counts as leased. *)
CanAcquireLapsed(i) == InFlight(i) /\ saga[i].expires # 0 /\ saga[i].expires <= now

CanAcquire(i) == InFlight(i) /\ saga[i].expires <= now

(* Mutant: the lease lasts one heartbeat interval. *)
LeaseSagaOneInterval(i) ==
    /\ worker[i].pc = "lease" /\ CanAcquire(i)
    /\ Store!Acquire(i, Owner, now + 1)
    /\ worker' = [worker EXCEPT ![i].pc = "prepare", ![i].leased = TRUE]
    /\ missed' = [missed EXCEPT ![i] = 0]
    /\ UNCHANGED <<phase, tick, disk, sweep, budgets>>

(* _lease_worker_saga, whatever acquire_lease raises suppressed, and         *)
(* _start_worker_heartbeat, which runs whether or not there is a lease.      *)
LeaseSaga(i) ==
    /\ worker[i].pc = "lease"
    /\ \/ /\ CanAcquire(i)
          /\ Store!Acquire(i, Owner, now + LeaseTTL)
          /\ worker' = [worker EXCEPT ![i].pc = "prepare", ![i].leased = TRUE]
          /\ UNCHANGED faults
       \/ /\ \/ ~CanAcquire(i) /\ UNCHANGED faults
             \/ CanAcquire(i) /\ Fault
          /\ Advance(i, "prepare")
          /\ UNCHANGED <<now, saga>>
    /\ missed' = [missed EXCEPT ![i] = 0]
    /\ UNCHANGED <<phase, tick, disk, sweep, exits, recovers>>

(* prep_worktree: what is left of an earlier worktree and branch goes, and a *)
(* fresh pair is made; when `git worktree add` fails the worker has failed.  *)
PrepareWorktree(i) ==
    /\ worker[i].pc = "prepare"
    /\ \E added \in BOOLEAN :
          /\ worktree' = [worktree EXCEPT ![i] = added]
          /\ branch' = [branch EXCEPT ![i] = added]
          /\ Advance(i, IF added THEN "run" ELSE "finalize")
    /\ UNCHANGED <<now, saga, phase, tick, sweep, missed, budgets>>

(* run_worker returns merged or open, or another status, or raises. *)
WorkerReturns(i) ==
    /\ worker[i].pc = "run"
    /\ \/ \E ok \in BOOLEAN : worker' = [worker EXCEPT ![i].pc = "finalize", ![i].ok = ok]
       \/ exits < MaxExits /\ worker' = [worker EXCEPT ![i].pc = "finalize", ![i].raised = TRUE]
    /\ UNCHANGED <<now, saga, phase, tick, disk, sweep, missed, budgets>>

(* _finalize_worker_saga, suppressed too, then _stop_worker_heartbeat.  The  *)
(* mark_* methods do not ask who holds the lease.                            *)
FinalizeSaga(i) ==
    /\ worker[i].pc = "finalize"
    /\ \/ /\ InFlight(i)
          /\ Store!Finish(i, IF worker[i].ok THEN "completed" ELSE "failed")
          /\ UNCHANGED faults
       \/ /\ \/ ~InFlight(i) /\ UNCHANGED faults
             \/ InFlight(i) /\ Fault
          /\ UNCHANGED <<now, saga>>
    /\ Advance(i, "done")
    /\ UNCHANGED <<phase, tick, disk, sweep, missed, exits, recovers>>

(* A beat of the heartbeat thread that renews the lease; one that does not   *)
(* changes nothing.  The saga only has to name this owner.                   *)
Beat(i) ==
    /\ Beating(i)
    /\ HoldsLease(i)
    /\ now + LeaseTTL <= MaxTime
    /\ now + LeaseTTL > saga[i].expires
    /\ Store!Renew(i, now + LeaseTTL)
    /\ missed' = [missed EXCEPT ![i] = 0]
    /\ UNCHANGED <<phase, tick, worker, disk, sweep, budgets>>

(* Mutant: the heartbeat thread shares the worker's thread and is starved. *)
ClockTickStarved ==
    /\ now < MaxTime
    /\ now' = now + 1
    /\ missed' = [i \in Issues |-> IF Beating(i) /\ worker[i].leased THEN missed[i] + 1 ELSE 0]
    /\ UNCHANGED <<saga, phase, tick, worker, disk, sweep, budgets>>

(* Time passes; a worker that got its lease is not kept from beating for     *)
(* more than MaxMissed intervals.  The last LeaseTTL units of the clock are  *)
(* kept for the leases to lapse in.                                          *)
ClockTick ==
    /\ now < MaxTime
    /\ \A i \in Issues : worker[i].pc \in {"seed", "lease"} => now + LeaseTTL < MaxTime
    /\ \A i \in Issues : Beating(i) /\ worker[i].leased => missed[i] < MaxMissed
    /\ now' = now + 1
    /\ missed' = [i \in Issues |-> IF Beating(i) /\ worker[i].leased THEN missed[i] + 1 ELSE 0]
    /\ UNCHANGED <<saga, phase, tick, worker, disk, sweep, budgets>>

-----------------------------------------------------------------------------
(* After the workers: the merge gate, then rescue and reaping. *)

WorkersEnded == \A i \in Issues : worker[i].pc \in {"none", "done"}
SomeRaised == \E i \in Issues : worker[i].raised

(* Every future returned: the tick goes on. *)
Join ==
    /\ phase = "work" /\ WorkersEnded /\ ~SomeRaised
    /\ phase' = "gate"
    /\ UNCHANGED <<now, saga, tick, worker, disk, sweep, missed, budgets>>

(* The write-root-escape gate passes an outcome, or refuses one with a PR:   *)
(* its worktree is renamed away and its saga is to be quarantined.           *)
GatePasses(i) ==
    /\ phase = "gate" /\ worker[i].pc = "done"
    /\ Advance(i, "gated")
    /\ UNCHANGED <<now, saga, phase, tick, disk, sweep, missed, budgets>>

GateRefuses(i) ==
    /\ phase = "gate" /\ worker[i].pc = "done"
    /\ saga[i].state # "absent" /\ worktree[i]
    /\ \/ InFlight(i) /\ Store!Finish(i, "quarantined")
       \/ ~InFlight(i) /\ UNCHANGED <<now, saga>>
    /\ worktree' = [worktree EXCEPT ![i] = FALSE]
    /\ Advance(i, "refused")
    /\ UNCHANGED <<phase, tick, branch, sweep, missed, budgets>>

GateDone ==
    /\ phase = "gate"
    /\ \A i \in Issues : worker[i].pc # "done"
    /\ phase' = "reap"
    /\ UNCHANGED <<now, saga, tick, worker, disk, sweep, missed, budgets>>

(* _rescue_and_reap: the worktree of a merged, open or rescued outcome is    *)
(* reaped, that of a failed one is kept for the operator.                    *)
SettleWorktree(i) ==
    /\ phase = "reap" /\ worker[i].pc \in {"gated", "refused"}
    /\ \E rescued \in BOOLEAN :
          worktree' = [worktree EXCEPT ![i] = @ /\ ~worker[i].ok /\ ~rescued]
    /\ worker' = [worker EXCEPT ![i] = NoWorker]
    /\ UNCHANGED <<now, saga, phase, tick, branch, sweep, missed, budgets>>

EndTick ==
    /\ phase = "reap"
    /\ \A i \in Issues : worker[i].pc = "none"
    /\ phase' = "top"
    /\ UNCHANGED <<now, saga, tick, worker, disk, sweep, missed, budgets>>

(* The process stops or dies, and its workers and heartbeat threads with it: *)
(* at any point, and in any case after a worker raised (fut.result()).       *)
Exit ==
    /\ phase # "down"
    /\ exits < MaxExits
    /\ exits' = exits + 1
    /\ phase' = "down"
    /\ tick' = 0
    /\ worker' = [i \in Issues |-> NoWorker]
    /\ sweep' = [sweep EXCEPT !["loop"] = NoSweep]
    /\ missed' = [i \in Issues |-> 0]
    /\ UNCHANGED <<now, saga, disk, faults, recovers>>

-----------------------------------------------------------------------------
(* The sweeps: reconcile_stale_sagas over the sagas list_stale returned.  A  *)
(* saga's compensations run one after the other, then it is marked; what     *)
(* raises is recorded and the sweep goes on to the next saga.                *)

(* `forge-loop recover`, in a process of its own. *)
Recover ==
    /\ recovers < MaxRecovers /\ SweepEnded("operator")
    /\ recovers' = recovers + 1
    /\ ListStale("operator")
    /\ UNCHANGED <<now, saga, phase, tick, worker, disk, missed, exits, faults>>

SweepNext(p) == sweep' = [sweep EXCEPT ![p].at = NoIssue]

(* remove-worktree: reap_worktree, which raises, or removes the worktree, or *)
(* leaves it on disk without a word.                                         *)
ReapWorktree(p, i) ==
    /\ sweep[p].at = NoIssue /\ i \in sweep[p].todo
    /\ \/ /\ \E left \in {FALSE, worktree[i] /\ SilentReaps} :
                worktree' = [worktree EXCEPT ![i] = left]
          /\ sweep' = [sweep EXCEPT ![p] = [todo |-> @.todo \ {i}, at |-> i,
                                            step |-> IF ReapsBranch THEN "branch" ELSE "mark"]]
          /\ UNCHANGED faults
       \/ /\ Fault
          /\ sweep' = [sweep EXCEPT ![p].todo = @ \ {i}]
          /\ UNCHANGED worktree
    /\ UNCHANGED <<now, saga, phase, tick, worker, branch, missed, exits, recovers>>

(* delete-branch: a handler that raises parks the saga for a human. *)
ReapBranch(p, i) ==
    /\ sweep[p].at = i /\ sweep[p].step = "branch"
    /\ \/ /\ branch' = [branch EXCEPT ![i] = FALSE]
          /\ sweep' = [sweep EXCEPT ![p].step = "mark"]
          /\ UNCHANGED <<now, saga, faults>>
       \/ /\ Fault
          /\ \/ InFlight(i) /\ Store!Finish(i, "quarantined")
             \/ ~InFlight(i) /\ UNCHANGED <<now, saga>>
          /\ SweepNext(p)
          /\ UNCHANGED branch
    /\ UNCHANGED <<phase, tick, worker, worktree, missed, exits, recovers>>

MarkCompensated(p, i) ==
    /\ sweep[p].at = i /\ sweep[p].step = "mark"
    /\ \/ InFlight(i) /\ Store!Finish(i, "compensated") /\ UNCHANGED faults
       \/ ~InFlight(i) /\ UNCHANGED <<now, saga, faults>>
       \/ InFlight(i) /\ Fault /\ UNCHANGED <<now, saga>>
    /\ SweepNext(p)
    /\ UNCHANGED <<phase, tick, worker, disk, missed, exits, recovers>>

-----------------------------------------------------------------------------
Init ==
    /\ Store!Init
    /\ phase = "down" /\ tick = 0
    /\ worker = [i \in Issues |-> NoWorker]
    /\ worktree = [i \in Issues |-> FALSE] /\ branch = [i \in Issues |-> FALSE]
    /\ sweep = [p \in {"loop", "operator"} |-> NoSweep]
    /\ missed = [i \in Issues |-> 0]
    /\ exits = 0 /\ faults = 0 /\ recovers = 0

WorkerStep(i) == \/ SeedSaga(i) \/ LeaseSaga(i) \/ PrepareWorktree(i) \/ WorkerReturns(i)
                 \/ FinalizeSaga(i)
Gate(i) == GatePasses(i) \/ GateRefuses(i)
SweepStep(p, i) == ReapWorktree(p, i) \/ ReapBranch(p, i) \/ MarkCompensated(p, i)

(* What the process does on its own once it is up, and its restart. *)
ProcessStep ==
    \/ Start \/ BootSweep \/ StartTick \/ Join \/ GateDone \/ EndTick
    \/ \E issues \in SUBSET Issues : Dispatch(issues)
    \/ \E i \in Issues : Gate(i) \/ SettleWorktree(i) \/ SweepStep("loop", i)
    \/ phase = "work" /\ WorkersEnded /\ SomeRaised /\ Exit

Next ==
    \/ ClockTick \/ Recover \/ Exit \/ ProcessStep
    \/ \E i \in Issues : WorkerStep(i) \/ Beat(i) \/ SweepStep("operator", i)

Spec == Init /\ [][Next]_vars

(* The loop keeps ticking and is started again after it went down, a worker  *)
(* ends (worker_timeout_s bounds it), time passes.  Nothing obliges a fault, *)
(* an exit, an operator's recover, or a beat.                                *)
Fairness ==
    /\ WF_vars(ProcessStep)
    /\ WF_vars(ClockTick)
    /\ \A i \in Issues : WF_vars(WorkerStep(i))

FairSpec == Spec /\ Fairness

-----------------------------------------------------------------------------
(* Properties. *)

(* The worktree a worker runs in is there for as long as it runs: no boot,   *)
(* sweep or reaping of this or of an earlier process takes it away.          *)
LiveWorktree == \A i \in Issues : worker[i].pc = "run" => worktree[i]

(* A saga is compensated only for a worker that is gone: never while a       *)
(* worker of its issue is under way, though the sweep compensates what it    *)
(* listed some time before, and leases lapse and are taken again meanwhile.  *)
CompensatesTheDead ==
    [][\A i \in Issues :
          saga'[i].state = "compensated" /\ saga[i].state # "compensated"
             => worker[i].pc = "none"]_vars

(* A saga still heart-beated by a worker that holds its lease is not reaped: *)
(* no sweep removes its worktree or compensates it.                          *)
HeartbeatedNeverReaped ==
    [][\A i \in Issues : Beating(i) /\ worker[i].leased /\ HoldsLease(i) =>
          /\ saga'[i].state # "compensated"
          /\ (worker[i].pc = "run" /\ worktree[i] => worktree'[i])]_vars

(* A worker that got its lease never reads as stale, though its beats may    *)
(* fail several times in a row (_HEARTBEAT_LEASE_FACTOR's margin).           *)
LiveNeverStale == \A i \in Issues : Beating(i) /\ worker[i].leased => ~Stale(i)

(* A worker runs without a lease only if its saga was seeded by an earlier   *)
(* dispatch of the issue or a store call raised.                             *)
UnleasedOnlyWhenReused ==
    \A i \in Issues :
        worker[i].pc = "run" /\ ~worker[i].leased
            => faults > 0 \/ saga[i].state \in Store!Finished \/ saga[i].owner # NoOwner

(* Both of a worker's lease: a live worker that has one keeps it, and one    *)
(* that runs without has a reason (_run_worker_with_saga suppresses errors). *)
LeaseOfTheLiving == LiveNeverStale /\ UnleasedOnlyWhenReused

(* A leased saga is not immortal: whatever dies or fails, it is finished by  *)
(* its worker or by a sweep.                                                 *)
LeasedSagaDrains ==
    \A i \in Issues : saga[i].state = "running" ~> saga[i].state \in Store!Finished

(* What the documents say, which the code does not do. *)

(* README: each dispatch leases a task saga. *)
DispatchIsLeased == \A i \in Issues : worker[i].pc = "run" => worker[i].leased

(* reconcile_stale_sagas: to mark a saga COMPENSATED asserts that its side   *)
(* effects were undone.  Its branch is left where the sweep was given no     *)
(* reap_branch, its worktree where `git worktree remove` failed unnoticed.   *)
CompensatedMeansUndone ==
    [][\A i \in Issues :
          saga'[i].state = "compensated" /\ saga[i].state # "compensated"
             => ~worktree'[i] /\ ~branch'[i]]_vars
=============================================================================
