----------------------- MODULE DispatchRecoveryProofs -----------------------
(***************************************************************************)
(* Proofs about DispatchRecovery, for every set of issues, every number of *)
(* ticks, exits, faults and missed beats, and every lease length.          *)
(*                                                                         *)
(* ProcessInv says where the process is when a worker or its own sweep is  *)
(* under way; everything else rests on it.  LeaseInv keeps the lease of a  *)
(* live worker ahead of the clock; DiskInv keeps the loop's sweep and the  *)
(* workers off each other's worktrees.                                     *)
(***************************************************************************)
EXTENDS DispatchRecovery, TLAPS

-----------------------------------------------------------------------------
(* The inductive invariants. *)

Busy == {"seed", "lease", "prepare", "run", "finalize"}

(* A worker that is under way belongs to the tick its process is in. *)
WorkersAtWork ==
    \A i \in Issues :
        /\ worker[i].pc \in Busy => phase = "work" /\ tick \in 1 .. MaxTick
        /\ worker[i].pc # "none" => phase \in {"work", "gate", "reap"}

(* The loop's sweep is over before the tick, or the boot, goes on. *)
SweepInPhase == phase # "sweep" => SweepEnded("loop")

(* A lease a worker is about to take fits on the clock. *)
ClockAhead == \A i \in Issues : worker[i].pc \in {"seed", "lease"} => now + LeaseTTL <= MaxTime

ProcessInv == TypeOK /\ WorkersAtWork /\ SweepInPhase /\ ClockAhead

(* The lease of a live worker is behind its last beat by what it missed since. *)
LeaseMargin(i) ==
    Beating(i) /\ worker[i].leased =>
        \/ saga[i].state \in Store!Finished
        \/ saga[i].state = "running" /\ saga[i].expires + missed[i] >= now + LeaseTTL

(* Why a worker may be about to run, or running, without one. *)
ReasonUnleased(i) ==
    worker[i].pc \in {"prepare", "run"} /\ ~worker[i].leased =>
        faults > 0 \/ saga[i].state \in Store!Finished \/ saga[i].owner # NoOwner

LeaseSound(i) ==
    /\ LeaseMargin(i) /\ ReasonUnleased(i)
    /\ worker[i].pc \in {"none", "seed", "lease"} => ~worker[i].leased
    /\ saga[i].expires # 0 => saga[i].owner # NoOwner
    /\ worker[i].pc = "lease" => faults > 0 \/ saga[i].state # "absent"

LeaseInv == \A i \in Issues : LeaseSound(i)

(* Without the operator's `recover`, only the loop sweeps. *)
DiskInv == SweepEnded("operator") /\ LiveWorktree

-----------------------------------------------------------------------------
(* Where the process is. *)

(* The process is down and nothing is under way. *)
LEMMA InitProcessInv == Init => ProcessInv
<1> SUFFICES ASSUME Init PROVE ProcessInv
  OBVIOUS
<1> USE DispatchAssumption
<1>1. TypeOK
  BY DEF Init, TypeOK, Sagas, Workers, Sweeps, Store!Init, NoWorker, NoSweep, WorkerPC, NoOwner
<1> QED
  BY <1>1 DEF Init, ProcessInv, WorkersAtWork, SweepInPhase, SweepEnded, ClockAhead,
              NoWorker, NoSweep, Busy

(* A step of the process itself: boot, tick, join, gate, end, exit. *)
LEMMA ProcessStepProcess ==
    ASSUME ProcessInv,
           \/ Start \/ BootSweep \/ StartTick \/ Join \/ GateDone \/ EndTick \/ Exit
           \/ \E issues \in SUBSET Issues : Dispatch(issues)
    PROVE  ProcessInv'
<1> USE DispatchAssumption DEF ProcessInv
<1>1. CASE Start
  BY <1>1 DEF Start, TypeOK, WorkersAtWork, SweepInPhase, SweepEnded, ClockAhead, Busy, budgets
<1>2. CASE BootSweep
  BY <1>2 DEF BootSweep, ListStale, NoSweep, Sweeps, TypeOK, WorkersAtWork, SweepInPhase, SweepEnded,
              ClockAhead, Busy, budgets, disk
<1>3. CASE StartTick
  BY <1>3 DEF StartTick, ListStale, NoSweep, Sweeps, TypeOK, WorkersAtWork, SweepInPhase, SweepEnded,
              ClockAhead, Busy, budgets, disk
<1>4. CASE Join
  BY <1>4 DEF Join, WorkersEnded, TypeOK, WorkersAtWork, SweepInPhase, SweepEnded,
              ClockAhead, Busy, budgets, disk
<1>5. CASE GateDone
  BY <1>5 DEF GateDone, TypeOK, WorkersAtWork, SweepInPhase, SweepEnded,
              ClockAhead, Busy, budgets, disk
<1>6. CASE EndTick
  BY <1>6 DEF EndTick, TypeOK, WorkersAtWork, SweepInPhase, SweepEnded,
              ClockAhead, Busy, budgets, disk
<1>7. CASE Exit
  BY <1>7 DEF Exit, NoWorker, Workers, NoSweep, Sweeps, WorkerPC, TypeOK, WorkersAtWork, SweepInPhase, SweepEnded,
              ClockAhead, Busy, budgets, disk
<1>8. ASSUME NEW issues \in SUBSET Issues, Dispatch(issues) PROVE ProcessInv'
  BY <1>8 DEF Dispatch, NoWorker, Workers, WorkerPC, TypeOK, WorkersAtWork, SweepInPhase, SweepEnded,
              ClockAhead, Busy, budgets, disk
<1> QED BY <1>1, <1>2, <1>3, <1>4, <1>5, <1>6, <1>7, <1>8

(* What the operations of the store do to the table, whatever else a step does. *)
LEMMA SeedTable ==
    ASSUME saga \in [Issues -> Sagas], NEW i \in Issues, NEW s \in Store!Unleased, Store!Seed(i, s)
    PROVE  /\ saga' \in [Issues -> Sagas] /\ now' = now
           /\ saga'[i] = [saga[i] EXCEPT !.state = s] /\ saga'[i].state = s
           /\ saga'[i].expires = saga[i].expires /\ saga'[i].owner = saga[i].owner
           /\ \A j \in Issues \ {i} : saga'[j] = saga[j]
  BY DEF Store!Seed, Sagas

LEMMA FinishTable ==
    ASSUME saga \in [Issues -> Sagas], NEW i \in Issues, NEW s \in Store!Finished, Store!Finish(i, s)
    PROVE  /\ saga' \in [Issues -> Sagas] /\ now' = now
           /\ saga'[i] = [saga[i] EXCEPT !.state = s] /\ saga'[i].state = s
           /\ saga'[i].expires = saga[i].expires /\ saga'[i].owner = saga[i].owner
           /\ \A j \in Issues \ {i} : saga'[j] = saga[j]
  BY DEF Store!Finish, Sagas

LEMMA AcquireTable ==
    ASSUME saga \in [Issues -> Sagas], NEW i \in Issues, NEW o \in 0 .. MaxTick,
           NEW t \in 0 .. MaxTime, Store!Acquire(i, o, t)
    PROVE  /\ saga' \in [Issues -> Sagas] /\ now' = now
           /\ saga'[i] = [state |-> "running", owner |-> o, expires |-> t]
           /\ \A j \in Issues \ {i} : saga'[j] = saga[j]
  BY DEF Store!Acquire, Sagas

LEMMA RenewTable ==
    ASSUME saga \in [Issues -> Sagas], NEW i \in Issues, NEW t \in 0 .. MaxTime, Store!Renew(i, t)
    PROVE  /\ saga' \in [Issues -> Sagas] /\ now' = now
           /\ saga'[i] = [saga[i] EXCEPT !.expires = t]
           /\ \A j \in Issues \ {i} : saga'[j] = saga[j]
  BY DEF Store!Renew, Sagas

LEMMA AdvanceWorker ==
    ASSUME worker \in [Issues -> Workers], NEW i \in Issues, NEW p \in WorkerPC, Advance(i, p)
    PROVE  /\ worker' \in [Issues -> Workers]
           /\ worker'[i] = [worker[i] EXCEPT !.pc = p] /\ worker'[i].pc = p
           /\ worker'[i].leased = worker[i].leased
           /\ \A j \in Issues \ {i} : worker'[j] = worker[j]
  BY DEF Advance, Workers

LEMMA FaultCounted == ASSUME TypeOK, Fault PROVE faults' \in 0 .. MaxFaults /\ faults' > 0
  BY DispatchAssumption DEF TypeOK, Fault

(* What a step has to show that moves the worker of i and nobody else's. *)
LEMMA WorkerMoves ==
    ASSUME ProcessInv, NEW i \in Issues,
           worker' \in [Issues -> Workers], \A j \in Issues \ {i} : worker'[j] = worker[j],
           worker'[i].pc \in {"seed", "lease"} => worker[i].pc \in {"seed", "lease"},
           worker'[i].pc \in Busy => worker[i].pc \in Busy,
           worker'[i].pc # "none" => worker[i].pc # "none",
           saga' \in [Issues -> Sagas], missed' \in [Issues -> 0 .. MaxMissed],
           worktree' \in [Issues -> BOOLEAN], branch' \in [Issues -> BOOLEAN],
           faults' \in 0 .. MaxFaults,
           UNCHANGED <<now, phase, tick, sweep, exits, recovers>>
    PROVE  ProcessInv'
<1>1. TypeOK'
  BY DEF ProcessInv, TypeOK
<1>2. WorkersAtWork'
  BY DEF ProcessInv, WorkersAtWork
<1>3. SweepInPhase' /\ ClockAhead'
  BY DEF ProcessInv, SweepInPhase, SweepEnded, ClockAhead
<1> QED BY <1>1, <1>2, <1>3 DEF ProcessInv

(* A step of the worker of i, or of its heartbeat. *)
LEMMA WorkerStepProcess ==
    ASSUME ProcessInv, NEW i \in Issues, WorkerStep(i) \/ Beat(i)
    PROVE  ProcessInv'
<1> USE DispatchAssumption
<1>0. TypeOK /\ saga \in [Issues -> Sagas] /\ worker \in [Issues -> Workers]
  BY DEF ProcessInv, TypeOK
<1>1. CASE SeedSaga(i)
  <2>1. worker[i].pc = "seed" /\ Advance(i, "lease")
    BY <1>1 DEF SeedSaga
  <2>2. saga' \in [Issues -> Sagas] /\ now' = now
    BY <1>0, <1>1, SeedTable DEF SeedSaga, Store!Unleased
  <2>3. faults' \in 0 .. MaxFaults
    BY <1>0, <1>1, FaultCounted DEF SeedSaga, TypeOK
  <2> QED
    BY <1>0, <1>1, <2>1, <2>2, <2>3, AdvanceWorker, WorkerMoves DEF SeedSaga, WorkerPC, Busy, TypeOK, disk
<1>2. CASE LeaseSaga(i)
  <2>1. now + LeaseTTL \in 0 .. MaxTime /\ Owner \in 0 .. MaxTick
    BY <1>0, <1>2 DEF LeaseSaga, ProcessInv, TypeOK, ClockAhead, WorkersAtWork, Busy, Owner
  <2>2. saga' \in [Issues -> Sagas] /\ now' = now
    BY <1>0, <1>2, <2>1, AcquireTable DEF LeaseSaga
  <2>3. worker' \in [Issues -> Workers] /\ (\A j \in Issues \ {i} : worker'[j] = worker[j])
        /\ worker'[i].pc = "prepare" /\ worker[i].pc = "lease"
    BY <1>0, <1>2 DEF LeaseSaga, Advance, Workers, WorkerPC
  <2>4. faults' \in 0 .. MaxFaults /\ missed' \in [Issues -> 0 .. MaxMissed]
    BY <1>0, <1>2, FaultCounted DEF LeaseSaga, TypeOK
  <2> QED BY <1>0, <1>2, <2>2, <2>3, <2>4, WorkerMoves DEF LeaseSaga, Busy, TypeOK, disk
<1>3. CASE PrepareWorktree(i)
  <2>1. worktree' \in [Issues -> BOOLEAN] /\ branch' \in [Issues -> BOOLEAN]
    BY <1>0, <1>3 DEF PrepareWorktree, TypeOK
  <2>2. PICK added \in BOOLEAN : Advance(i, IF added THEN "run" ELSE "finalize")
    BY <1>3 DEF PrepareWorktree
  <2> QED
    BY <1>0, <1>3, <2>1, <2>2, AdvanceWorker, WorkerMoves DEF PrepareWorktree, WorkerPC, Busy, TypeOK, budgets
<1>4. CASE WorkerReturns(i)
  <2>1. worker' \in [Issues -> Workers] /\ (\A j \in Issues \ {i} : worker'[j] = worker[j])
        /\ worker'[i].pc = "finalize" /\ worker[i].pc = "run"
    BY <1>0, <1>4 DEF WorkerReturns, Workers, WorkerPC
  <2> QED BY <1>0, <1>4, <2>1, WorkerMoves DEF WorkerReturns, Busy, TypeOK, budgets, disk
<1>5. CASE FinalizeSaga(i)
  <2>1. worker[i].pc = "finalize" /\ Advance(i, "done")
    BY <1>5 DEF FinalizeSaga
  <2>2. saga' \in [Issues -> Sagas] /\ now' = now
    BY <1>0, <1>5, FinishTable DEF FinalizeSaga, Store!Finished
  <2>3. faults' \in 0 .. MaxFaults
    BY <1>0, <1>5, FaultCounted DEF FinalizeSaga, TypeOK
  <2> QED
    BY <1>0, <1>5, <2>1, <2>2, <2>3, AdvanceWorker, WorkerMoves DEF FinalizeSaga, WorkerPC, Busy, TypeOK, disk
<1>6. CASE Beat(i)
  <2>1. now + LeaseTTL \in 0 .. MaxTime
    BY <1>0, <1>6 DEF Beat, TypeOK
  <2>2. saga' \in [Issues -> Sagas] /\ now' = now
    BY <1>0, <1>6, <2>1, RenewTable DEF Beat
  <2>3. missed' \in [Issues -> 0 .. MaxMissed]
    BY <1>0, <1>6 DEF Beat, TypeOK
  <2> QED BY <1>0, <1>6, <2>2, <2>3, WorkerMoves DEF Beat, TypeOK, budgets, disk
<1> QED BY <1>1, <1>2, <1>3, <1>4, <1>5, <1>6 DEF WorkerStep

(* A step of the gate, or of the reaping, on the outcome of i. *)
LEMMA GateStepProcess ==
    ASSUME ProcessInv, NEW i \in Issues, Gate(i) \/ SettleWorktree(i)
    PROVE  ProcessInv'
<1>0. TypeOK /\ saga \in [Issues -> Sagas] /\ worker \in [Issues -> Workers]
  BY DEF ProcessInv, TypeOK
<1>1. CASE GatePasses(i)
  BY <1>0, <1>1, AdvanceWorker, WorkerMoves DEF GatePasses, WorkerPC, Busy, TypeOK, budgets, disk
<1>2. CASE GateRefuses(i)
  <2>1. saga' \in [Issues -> Sagas] /\ now' = now
    BY <1>0, <1>2, FinishTable DEF GateRefuses, Store!Finished
  <2>2. worktree' \in [Issues -> BOOLEAN]
    BY <1>0, <1>2 DEF GateRefuses, TypeOK
  <2> QED
    BY <1>0, <1>2, <2>1, <2>2, AdvanceWorker, WorkerMoves DEF GateRefuses, WorkerPC, Busy, TypeOK, budgets
<1>3. CASE SettleWorktree(i)
  <2>1. worktree' \in [Issues -> BOOLEAN]
    BY <1>0, <1>3 DEF SettleWorktree, TypeOK
  <2>2. worker' \in [Issues -> Workers] /\ (\A j \in Issues \ {i} : worker'[j] = worker[j])
        /\ worker'[i].pc = "none"
    BY <1>0, <1>3 DEF SettleWorktree, Workers, WorkerPC, NoWorker
  <2> QED BY <1>0, <1>3, <2>1, <2>2, WorkerMoves DEF SettleWorktree, Busy, TypeOK, budgets
<1> QED BY <1>1, <1>2, <1>3 DEF Gate

(* What a step of a sweep has to show. *)
LEMMA SweepMoves ==
    ASSUME ProcessInv, NEW p \in {"loop", "operator"},
           sweep' \in [{"loop", "operator"} -> Sweeps],
           \A q \in {"loop", "operator"} \ {p} : sweep'[q] = sweep[q],
           ~SweepEnded(p),
           saga' \in [Issues -> Sagas],
           worktree' \in [Issues -> BOOLEAN], branch' \in [Issues -> BOOLEAN],
           faults' \in 0 .. MaxFaults,
           UNCHANGED <<now, phase, tick, worker, missed, exits, recovers>>
    PROVE  ProcessInv'
<1>1. TypeOK'
  BY DEF ProcessInv, TypeOK
<1>2. WorkersAtWork' /\ ClockAhead'
  BY DEF ProcessInv, WorkersAtWork, ClockAhead
<1>3. SweepInPhase'
  BY DEF ProcessInv, SweepInPhase, SweepEnded
<1> QED BY <1>1, <1>2, <1>3 DEF ProcessInv

(* A step of a sweep on the saga of i. *)
LEMMA SweepStepProcess ==
    ASSUME ProcessInv, NEW p \in {"loop", "operator"}, NEW i \in Issues, SweepStep(p, i)
    PROVE  ProcessInv'
<1> USE DispatchAssumption
<1>0. TypeOK /\ saga \in [Issues -> Sagas] /\ sweep \in [{"loop", "operator"} -> Sweeps]
  BY DEF ProcessInv, TypeOK
<1>1. CASE ReapWorktree(p, i)
  <2>1. worktree' \in [Issues -> BOOLEAN]
    BY <1>0, <1>1 DEF ReapWorktree, TypeOK
  <2>2. sweep' \in [{"loop", "operator"} -> Sweeps]
        /\ (\A q \in {"loop", "operator"} \ {p} : sweep'[q] = sweep[q]) /\ ~SweepEnded(p)
    BY <1>0, <1>1 DEF ReapWorktree, Sweeps, SweepEnded
  <2>3. faults' \in 0 .. MaxFaults
    BY <1>0, <1>1, FaultCounted DEF ReapWorktree, TypeOK
  <2> QED BY <1>0, <1>1, <2>1, <2>2, <2>3, SweepMoves DEF ReapWorktree, TypeOK
<1>2. CASE ReapBranch(p, i)
  <2>1. saga' \in [Issues -> Sagas] /\ now' = now
    BY <1>0, <1>2, FinishTable DEF ReapBranch, Store!Finished
  <2>2. sweep' \in [{"loop", "operator"} -> Sweeps]
        /\ (\A q \in {"loop", "operator"} \ {p} : sweep'[q] = sweep[q]) /\ ~SweepEnded(p)
    BY <1>0, <1>2 DEF ReapBranch, SweepNext, Sweeps, SweepEnded
  <2>3. faults' \in 0 .. MaxFaults /\ branch' \in [Issues -> BOOLEAN]
    BY <1>0, <1>2, FaultCounted DEF ReapBranch, TypeOK
  <2> QED BY <1>0, <1>2, <2>1, <2>2, <2>3, SweepMoves DEF ReapBranch, TypeOK
<1>3. CASE MarkCompensated(p, i)
  <2>1. saga' \in [Issues -> Sagas] /\ now' = now
    BY <1>0, <1>3, FinishTable DEF MarkCompensated, Store!Finished
  <2>2. sweep' \in [{"loop", "operator"} -> Sweeps]
        /\ (\A q \in {"loop", "operator"} \ {p} : sweep'[q] = sweep[q]) /\ ~SweepEnded(p)
    BY <1>0, <1>3 DEF MarkCompensated, SweepNext, Sweeps, SweepEnded
  <2>3. faults' \in 0 .. MaxFaults
    BY <1>0, <1>3, FaultCounted DEF MarkCompensated, TypeOK
  <2> QED BY <1>0, <1>3, <2>1, <2>2, <2>3, SweepMoves DEF MarkCompensated, TypeOK, disk
<1> QED BY <1>1, <1>2, <1>3 DEF SweepStep

(* Where the process is, after any step. *)
LEMMA NextProcessInv == ProcessInv /\ [Next]_vars => ProcessInv'
<1> SUFFICES ASSUME ProcessInv, [Next]_vars PROVE ProcessInv'
  OBVIOUS
<1> USE DispatchAssumption
<1>1. CASE ClockTick
  BY <1>1 DEF ClockTick, Beating, ProcessInv, TypeOK,
              WorkersAtWork, SweepInPhase, SweepEnded, ClockAhead, budgets, disk
<1>2. CASE Recover
  BY <1>2 DEF Recover, ListStale, NoSweep, Sweeps, ProcessInv, TypeOK,
              WorkersAtWork, SweepInPhase, SweepEnded, ClockAhead, disk
<1>3. CASE Exit \/ ProcessStep
  BY <1>3, ProcessStepProcess, GateStepProcess, SweepStepProcess DEF ProcessStep
<1>4. CASE \E i \in Issues : WorkerStep(i) \/ Beat(i) \/ SweepStep("operator", i)
  BY <1>4, WorkerStepProcess, SweepStepProcess
<1>5. CASE UNCHANGED vars
  BY <1>5 DEF vars, ProcessInv, TypeOK, WorkersAtWork, SweepInPhase, SweepEnded, ClockAhead
<1> QED BY <1>1, <1>2, <1>3, <1>4, <1>5 DEF Next

-----------------------------------------------------------------------------
(* The leases. *)

(* A worker that does not move keeps its lease when its saga rests or ends. *)
LEMMA LeaseFrame ==
    ASSUME ProcessInv, NEW j \in Issues, LeaseSound(j),
           worker'[j] = worker[j], missed'[j] = missed[j], now' = now,
           faults' \in Nat, faults' >= faults,
           \/ saga'[j] = saga[j]
           \/ \E s \in Store!Finished : saga'[j] = [saga[j] EXCEPT !.state = s]
    PROVE  LeaseSound(j)'
<1>1. saga[j] \in Sagas /\ worker[j] \in Workers /\ faults \in Nat
  BY DispatchAssumption DEF ProcessInv, TypeOK
<1>2. CASE saga'[j] = saga[j]
  BY <1>1, <1>2 DEF LeaseSound, LeaseMargin, ReasonUnleased, Beating
<1>3. ASSUME NEW s \in Store!Finished, saga'[j] = [saga[j] EXCEPT !.state = s]
      PROVE  LeaseSound(j)'
  <2>1. /\ saga'[j].state \in Store!Finished /\ saga'[j].state # "absent"
        /\ saga'[j].expires = saga[j].expires /\ saga'[j].owner = saga[j].owner
    BY <1>1, <1>3 DEF Sagas, Store!Finished
  <2> QED BY <1>1, <2>1 DEF LeaseSound, LeaseMargin, ReasonUnleased, Beating
<1> QED BY <1>2, <1>3

(* A worker that is over, or has yet to ask for its lease, asks nothing of it. *)
LEMMA LeaseReset ==
    ASSUME NEW j \in Issues, LeaseSound(j), saga'[j] = saga[j],
           worker'[j].pc \in {"none", "seed"}, ~worker'[j].leased
    PROVE  LeaseSound(j)'
  BY DEF LeaseSound, LeaseMargin, ReasonUnleased, Beating

(* A step of the worker of i, or of its heartbeat. *)
LEMMA WorkerStepLease ==
    ASSUME ProcessInv, LeaseInv, NEW i \in Issues, WorkerStep(i) \/ Beat(i)
    PROVE  LeaseInv'
<1> USE DispatchAssumption
<1>0. /\ TypeOK /\ saga \in [Issues -> Sagas] /\ worker \in [Issues -> Workers]
      /\ faults \in Nat /\ now \in Nat /\ missed \in [Issues -> 0 .. MaxMissed]
      /\ LeaseSound(i) /\ saga[i] \in Sagas /\ worker[i] \in Workers /\ missed[i] \in Nat
  BY DEF ProcessInv, TypeOK, LeaseInv
<1>1. SUFFICES /\ \A j \in Issues \ {i} : saga'[j] = saga[j] /\ worker'[j] = worker[j]
                                            /\ missed'[j] = missed[j]
               /\ now' = now /\ faults' \in Nat /\ faults' >= faults
               /\ LeaseSound(i)'
  BY <1>1, LeaseFrame DEF LeaseInv
<1>2. CASE SeedSaga(i)
  <2>1. worker[i].pc = "seed" /\ Advance(i, "lease") /\ UNCHANGED missed
    BY <1>2 DEF SeedSaga
  <2>2. worker'[i].pc = "lease" /\ worker'[i].leased = worker[i].leased
        /\ (\A j \in Issues \ {i} : worker'[j] = worker[j])
    BY <1>0, <2>1, AdvanceWorker DEF WorkerPC, Workers
  <2>3. /\ now' = now /\ faults' \in Nat /\ faults' >= faults
        /\ \A j \in Issues \ {i} : saga'[j] = saga[j]
        /\ saga'[i].expires = saga[i].expires /\ saga'[i].owner = saga[i].owner
        /\ faults' > 0 \/ saga'[i].state # "absent"
    <3>1. CASE Store!Seed(i, "planned") /\ UNCHANGED faults
      <4>1. "planned" \in Store!Unleased
        BY DEF Store!Unleased
      <4>2. /\ now' = now /\ \A j \in Issues \ {i} : saga'[j] = saga[j]
            /\ saga'[i].state = "planned"
            /\ saga'[i].expires = saga[i].expires /\ saga'[i].owner = saga[i].owner
        BY <1>0, <3>1, <4>1, SeedTable
      <4> QED BY <1>0, <3>1, <4>2
    <3>2. CASE now' = now /\ saga' = saga /\ (Fault \/ (saga[i].state # "absent" /\ faults' = faults))
      BY <1>0, <3>2 DEF Fault
    <3>3. \/ Store!Seed(i, "planned") /\ faults' = faults
          \/ now' = now /\ saga' = saga /\ (Fault \/ (saga[i].state # "absent" /\ faults' = faults))
      BY <1>2 DEF SeedSaga, Fault
    <3> QED BY <3>1, <3>2, <3>3
  <2> QED BY <1>0, <2>1, <2>2, <2>3 DEF LeaseSound, LeaseMargin, ReasonUnleased, Beating
<1>3. CASE LeaseSaga(i)
  <2>1. /\ worker[i].pc = "lease" /\ missed'[i] = 0
        /\ \A j \in Issues \ {i} : missed'[j] = missed[j]
    BY <1>0, <1>3 DEF LeaseSaga
  <2>2. now + LeaseTTL \in 0 .. MaxTime /\ Owner \in 0 .. MaxTick /\ Owner # NoOwner
    BY <1>0, <2>1 DEF ProcessInv, TypeOK, ClockAhead, WorkersAtWork, Busy, Owner, NoOwner
  <2>3. CASE /\ CanAcquire(i) /\ Store!Acquire(i, Owner, now + LeaseTTL)
             /\ worker' = [worker EXCEPT ![i].pc = "prepare", ![i].leased = TRUE]
             /\ UNCHANGED faults
    <3>1. /\ saga'[i] = [state |-> "running", owner |-> Owner, expires |-> now + LeaseTTL]
          /\ now' = now /\ \A j \in Issues \ {i} : saga'[j] = saga[j]
      BY <1>0, <2>2, <2>3, AcquireTable
    <3>2. /\ worker'[i].pc = "prepare" /\ worker'[i].leased
          /\ \A j \in Issues \ {i} : worker'[j] = worker[j]
      BY <1>0, <2>3 DEF Workers
    <3> QED BY <1>0, <2>1, <2>2, <2>3, <3>1, <3>2 DEF LeaseSound, LeaseMargin, ReasonUnleased, Beating
  <2>4. CASE /\ \/ ~CanAcquire(i) /\ UNCHANGED faults
                \/ CanAcquire(i) /\ Fault
             /\ Advance(i, "prepare") /\ UNCHANGED <<now, saga>>
    <3>1. /\ worker'[i].pc = "prepare" /\ worker'[i].leased = worker[i].leased
          /\ \A j \in Issues \ {i} : worker'[j] = worker[j]
      BY <1>0, <2>4, AdvanceWorker DEF WorkerPC, Workers
    <3>2. faults' \in Nat /\ faults' >= faults
      BY <1>0, <2>4 DEF Fault
    <3>3. faults' > 0 \/ saga[i].state \in Store!Finished \/ saga[i].owner # NoOwner
      <4>1. CASE Fault
        BY <1>0, <4>1 DEF Fault
      <4>2. CASE ~CanAcquire(i) /\ UNCHANGED faults /\ ~InFlight(i)
        BY <1>0, <2>1, <4>2 DEF LeaseSound, InFlight, Sagas
      <4>3. CASE InFlight(i) /\ saga[i].expires > now
        BY <1>0, <4>3 DEF LeaseSound
      <4> QED BY <1>0, <2>4, <4>1, <4>2, <4>3 DEF CanAcquire, Sagas
    <3> QED BY <1>0, <2>1, <2>4, <3>1, <3>2, <3>3 DEF LeaseSound, LeaseMargin, ReasonUnleased, Beating
  <2> QED BY <1>3, <2>3, <2>4 DEF LeaseSaga
<1>4. CASE PrepareWorktree(i)
  <2>1. PICK added \in BOOLEAN : Advance(i, IF added THEN "run" ELSE "finalize")
    BY <1>4 DEF PrepareWorktree
  <2>2. /\ worker[i].pc = "prepare" /\ worker'[i].pc \in {"run", "finalize"}
        /\ worker'[i].leased = worker[i].leased
        /\ \A j \in Issues \ {i} : worker'[j] = worker[j]
    BY <1>0, <1>4, <2>1, AdvanceWorker DEF WorkerPC, Workers, PrepareWorktree
  <2>3. UNCHANGED <<saga, now, missed, faults>>
    BY <1>4 DEF PrepareWorktree, budgets
  <2> QED BY <1>0, <2>2, <2>3 DEF LeaseSound, LeaseMargin, ReasonUnleased, Beating
<1>5. CASE WorkerReturns(i)
  <2>1. /\ worker[i].pc = "run" /\ worker'[i].pc = "finalize"
        /\ worker'[i].leased = worker[i].leased
        /\ \A j \in Issues \ {i} : worker'[j] = worker[j]
    BY <1>0, <1>5 DEF WorkerReturns, Workers
  <2>2. UNCHANGED <<saga, now, missed, faults>>
    BY <1>5 DEF WorkerReturns, budgets
  <2> QED BY <1>0, <2>1, <2>2 DEF LeaseSound, LeaseMargin, ReasonUnleased, Beating
<1>6. CASE FinalizeSaga(i)
  <2>1. /\ worker'[i].pc = "done" /\ \A j \in Issues \ {i} : worker'[j] = worker[j]
    BY <1>0, <1>6, AdvanceWorker DEF FinalizeSaga, WorkerPC
  <2>2. /\ now' = now /\ UNCHANGED missed /\ faults' \in Nat /\ faults' >= faults
        /\ \A j \in Issues \ {i} : saga'[j] = saga[j]
        /\ saga'[i].expires = saga[i].expires /\ saga'[i].owner = saga[i].owner
    <3>1. CASE Store!Finish(i, IF worker[i].ok THEN "completed" ELSE "failed") /\ UNCHANGED faults
      <4>1. (IF worker[i].ok THEN "completed" ELSE "failed") \in Store!Finished
        BY DEF Store!Finished
      <4>2. /\ now' = now /\ \A j \in Issues \ {i} : saga'[j] = saga[j]
            /\ saga'[i].expires = saga[i].expires /\ saga'[i].owner = saga[i].owner
        BY <1>0, <3>1, <4>1, FinishTable
      <4> QED BY <1>0, <1>6, <3>1, <4>2 DEF FinalizeSaga
    <3>2. CASE UNCHANGED <<now, saga>> /\ (Fault \/ UNCHANGED faults)
      BY <1>0, <1>6, <3>2 DEF Fault, FinalizeSaga
    <3> QED BY <1>6, <3>1, <3>2 DEF FinalizeSaga
  <2> QED BY <1>0, <2>1, <2>2 DEF LeaseSound, LeaseMargin, ReasonUnleased, Beating
<1>7. CASE Beat(i)
  <2>1. /\ now + LeaseTTL \in 0 .. MaxTime /\ saga[i].state = "running"
        /\ missed'[i] = 0 /\ (\A j \in Issues \ {i} : missed'[j] = missed[j])
        /\ UNCHANGED <<worker, faults>> /\ saga[i].owner = tick /\ Beating(i)
    BY <1>0, <1>7 DEF Beat, TypeOK, HoldsLease, Owner, budgets
  <2>2. /\ now' = now /\ saga'[i] = [saga[i] EXCEPT !.expires = now + LeaseTTL]
        /\ \A j \in Issues \ {i} : saga'[j] = saga[j]
    BY <1>0, <1>7, <2>1, RenewTable DEF Beat
  <2>3. saga'[i].state = "running" /\ saga'[i].owner = tick /\ saga'[i].expires = now + LeaseTTL
    BY <1>0, <2>1, <2>2 DEF Sagas
  <2>4. tick # NoOwner
    BY <1>0, <2>1 DEF ProcessInv, WorkersAtWork, Beating, Busy, NoOwner
  <2> QED BY <1>0, <2>1, <2>2, <2>3, <2>4 DEF LeaseSound, LeaseMargin, ReasonUnleased, Beating
<1> QED BY <1>2, <1>3, <1>4, <1>5, <1>6, <1>7 DEF WorkerStep

(* A step of the gate, or of the reaping, on the outcome of i. *)
LEMMA GateStepLease ==
    ASSUME ProcessInv, LeaseInv, NEW i \in Issues, Gate(i) \/ SettleWorktree(i)
    PROVE  LeaseInv'
<1>0. /\ TypeOK /\ saga \in [Issues -> Sagas] /\ worker \in [Issues -> Workers]
      /\ faults \in Nat /\ LeaseSound(i)
  BY DispatchAssumption DEF ProcessInv, TypeOK, LeaseInv
<1>1. /\ worker'[i].pc \in {"none", "gated", "refused"}
      /\ worker'[i].pc = "none" => ~worker'[i].leased
      /\ \A j \in Issues \ {i} : worker'[j] = worker[j]
  <2>1. CASE GatePasses(i)
    BY <1>0, <2>1, AdvanceWorker DEF GatePasses, WorkerPC
  <2>2. CASE GateRefuses(i)
    BY <1>0, <2>2, AdvanceWorker DEF GateRefuses, WorkerPC
  <2>3. CASE SettleWorktree(i)
    BY <1>0, <2>3 DEF SettleWorktree, NoWorker
  <2> QED BY <2>1, <2>2, <2>3 DEF Gate
<1>2. UNCHANGED <<now, missed, faults>>
  BY <1>0, FinishTable DEF Gate, GatePasses, GateRefuses, SettleWorktree, budgets, Store!Finished
<1>3. /\ \A j \in Issues \ {i} : saga'[j] = saga[j]
      /\ saga'[i].expires = saga[i].expires /\ saga'[i].owner = saga[i].owner
  BY <1>0, FinishTable DEF Gate, GatePasses, GateRefuses, SettleWorktree, Store!Finished, Sagas
<1>4. LeaseSound(i)'
  BY <1>0, <1>1, <1>3 DEF LeaseSound, LeaseMargin, ReasonUnleased, Beating
<1> QED BY <1>0, <1>1, <1>2, <1>3, <1>4, LeaseFrame DEF LeaseInv

(* A step of a sweep: at most it ends a saga. *)
LEMMA SweepStepLease ==
    ASSUME ProcessInv, LeaseInv, NEW p \in {"loop", "operator"}, NEW i \in Issues, SweepStep(p, i)
    PROVE  LeaseInv'
<1>0. TypeOK /\ saga \in [Issues -> Sagas] /\ faults \in Nat
  BY DispatchAssumption DEF ProcessInv, TypeOK
<1>1. UNCHANGED <<worker, missed>> /\ faults' \in Nat /\ faults' >= faults
  BY <1>0 DEF SweepStep, ReapWorktree, ReapBranch, MarkCompensated, Fault
<1>2. now' = now /\ \A j \in Issues : \/ saga'[j] = saga[j]
                                     \/ \E s \in Store!Finished : saga'[j] = [saga[j] EXCEPT !.state = s]
  BY <1>0, FinishTable DEF SweepStep, ReapWorktree, ReapBranch, MarkCompensated, Store!Finished
<1> QED BY <1>1, <1>2, LeaseFrame DEF LeaseInv

(* The leases, after any step. *)
LEMMA NextLeaseInv == ProcessInv /\ LeaseInv /\ [Next]_vars => LeaseInv'
<1> SUFFICES ASSUME ProcessInv, LeaseInv, [Next]_vars PROVE LeaseInv'
  OBVIOUS
<1>0. /\ saga \in [Issues -> Sagas] /\ worker \in [Issues -> Workers] /\ faults \in Nat
      /\ now \in Nat /\ missed \in [Issues -> 0 .. MaxMissed]
  BY DispatchAssumption DEF ProcessInv, TypeOK
<1>1. CASE ClockTick
  <2> SUFFICES ASSUME NEW j \in Issues PROVE LeaseSound(j)'
    BY DEF LeaseInv
  <2>1. /\ LeaseSound(j) /\ saga[j] \in Sagas /\ UNCHANGED <<saga, worker, faults>> /\ now' = now + 1
        /\ Beating(j) /\ worker[j].leased => missed'[j] = missed[j] + 1
    BY <1>0, <1>1 DEF ClockTick, LeaseInv, budgets
  <2> QED BY <1>0, <2>1, DispatchAssumption DEF LeaseSound, LeaseMargin, ReasonUnleased, Beating, Sagas
<1>2. CASE UNCHANGED <<now, saga, worker, missed, faults>>
  BY <1>0, <1>2, LeaseFrame DEF LeaseInv
<1>3. CASE Recover
  BY <1>2, <1>3 DEF Recover
<1>4. CASE Exit
  BY <1>4, LeaseReset DEF Exit, NoWorker, LeaseInv
<1>5. CASE ProcessStep
  <2>1. ASSUME NEW issues \in SUBSET Issues, Dispatch(issues) PROVE LeaseInv'
    BY <2>1, LeaseReset DEF Dispatch, NoWorker, LeaseInv
  <2>2. CASE Start \/ BootSweep \/ StartTick \/ Join \/ GateDone \/ EndTick
    BY <1>2, <2>2 DEF Start, BootSweep, StartTick, Join, GateDone, EndTick, budgets
  <2> QED BY <1>4, <1>5, <2>1, <2>2, GateStepLease, SweepStepLease DEF ProcessStep
<1>6. CASE \E i \in Issues : WorkerStep(i) \/ Beat(i) \/ SweepStep("operator", i)
  BY <1>6, WorkerStepLease, SweepStepLease
<1> QED BY <1>1, <1>2, <1>3, <1>4, <1>5, <1>6 DEF Next, vars, budgets

(* No lease is held, or asked for, at first. *)
LEMMA InitLeaseInv == Init => LeaseInv
  BY DEF Init, Store!Init, LeaseInv, LeaseSound, LeaseMargin, ReasonUnleased, Beating, NoWorker

-----------------------------------------------------------------------------
(* The disk. *)

(* While the loop does not sweep, what happens to a worktree is up to its    *)
(* worker.                                                                   *)
LEMMA DiskOutOfSweep ==
    ASSUME ProcessInv, DiskInv, phase # "sweep", LiveWorktree',
           sweep'["loop"].at = NoIssue, sweep'["operator"] = sweep["operator"]
    PROVE  DiskInv'
  BY DispatchAssumption DEF DiskInv, SweepEnded

(* A step of the worker of i: no sweep of the loop is under way. *)
LEMMA WorkerStepDisk ==
    ASSUME ProcessInv, DiskInv, NEW i \in Issues, WorkerStep(i) \/ Beat(i)
    PROVE  DiskInv'
<1>0. /\ worker \in [Issues -> Workers] /\ worktree \in [Issues -> BOOLEAN]
      /\ UNCHANGED sweep /\ worker[i].pc \in Busy
  BY DEF ProcessInv, TypeOK, WorkerStep, SeedSaga, LeaseSaga, PrepareWorktree, WorkerReturns,
         FinalizeSaga, Beat, Beating, Busy
<1>1. phase = "work" /\ sweep["loop"].at = NoIssue
  BY <1>0 DEF ProcessInv, WorkersAtWork, SweepInPhase, SweepEnded
<1>2. LiveWorktree'
  <2>1. CASE PrepareWorktree(i)
    BY <1>0, <2>1 DEF PrepareWorktree, Advance, Workers, DiskInv, LiveWorktree
  <2>2. CASE UNCHANGED <<worker, worktree>>
    BY <2>2 DEF DiskInv, LiveWorktree
  <2>3. CASE UNCHANGED worktree /\ worker'[i].pc # "run" /\ \A j \in Issues \ {i} : worker'[j] = worker[j]
    BY <2>3 DEF DiskInv, LiveWorktree
  <2>4. CASE SeedSaga(i)
    BY <1>0, <2>3, <2>4, AdvanceWorker DEF SeedSaga, WorkerPC, disk
  <2>5. CASE LeaseSaga(i)
    <3>1. worker'[i].pc = "prepare" /\ \A j \in Issues \ {i} : worker'[j] = worker[j]
      BY <1>0, <2>5 DEF LeaseSaga, Advance, Workers
    <3> QED BY <2>3, <2>5, <3>1 DEF LeaseSaga, disk
  <2>6. CASE WorkerReturns(i)
    <3>1. worker'[i].pc = "finalize" /\ \A j \in Issues \ {i} : worker'[j] = worker[j]
      BY <1>0, <2>6 DEF WorkerReturns, Workers
    <3> QED BY <2>3, <2>6, <3>1 DEF WorkerReturns, disk
  <2>7. CASE FinalizeSaga(i)
    BY <1>0, <2>3, <2>7, AdvanceWorker DEF FinalizeSaga, WorkerPC, disk
  <2> QED BY <2>1, <2>2, <2>4, <2>5, <2>6, <2>7 DEF WorkerStep, Beat, disk
<1> QED BY <1>0, <1>1, <1>2, DiskOutOfSweep

(* A step of the gate, or of the reaping: every worker has ended. *)
LEMMA GateStepDisk ==
    ASSUME ProcessInv, DiskInv, NEW i \in Issues, Gate(i) \/ SettleWorktree(i)
    PROVE  DiskInv'
<1>0. /\ worker \in [Issues -> Workers] /\ UNCHANGED sweep /\ phase \in {"gate", "reap"}
  BY DEF ProcessInv, TypeOK, Gate, GatePasses, GateRefuses, SettleWorktree
<1>1. sweep["loop"].at = NoIssue /\ \A j \in Issues : worker[j].pc # "run"
  BY <1>0 DEF ProcessInv, WorkersAtWork, Busy, SweepInPhase, SweepEnded
<1>2. \A j \in Issues : worker'[j].pc # "run"
  <2>1. CASE GatePasses(i)
    BY <1>0, <1>1, <2>1, AdvanceWorker DEF GatePasses, WorkerPC
  <2>2. CASE GateRefuses(i)
    BY <1>0, <1>1, <2>2, AdvanceWorker DEF GateRefuses, WorkerPC
  <2>3. CASE SettleWorktree(i)
    BY <1>0, <1>1, <2>3 DEF SettleWorktree, NoWorker
  <2> QED BY <2>1, <2>2, <2>3 DEF Gate
<1> QED BY <1>0, <1>1, <1>2, DiskOutOfSweep DEF LiveWorktree

(* A step of the loop's sweep: no worker is under way. *)
LEMMA SweepStepDisk ==
    ASSUME ProcessInv, DiskInv, NEW p \in {"loop", "operator"}, NEW i \in Issues, SweepStep(p, i)
    PROVE  DiskInv' /\ p = "loop" /\ \A j \in Issues : worker[j].pc = "none"
<1>0. /\ sweep \in [{"loop", "operator"} -> Sweeps]
      /\ worktree \in [Issues -> BOOLEAN] /\ branch \in [Issues -> BOOLEAN]
  BY DEF ProcessInv, TypeOK
<1>1. ~SweepEnded(p) /\ UNCHANGED <<worker, phase>>
  BY <1>0, DispatchAssumption DEF SweepStep, ReapWorktree, ReapBranch, MarkCompensated, SweepEnded
<1>2. p = "loop"
  BY <1>1 DEF DiskInv
<1>3. \A j \in Issues : worker[j].pc = "none"
  BY <1>1, <1>2 DEF ProcessInv, SweepInPhase, WorkersAtWork
<1>4. LiveWorktree'
  BY <1>1, <1>3 DEF LiveWorktree
<1>5. sweep'["operator"] = sweep["operator"]
  BY <1>0, <1>2 DEF SweepStep, ReapWorktree, ReapBranch, MarkCompensated, SweepNext
<1> QED BY <1>2, <1>3, <1>4, <1>5 DEF DiskInv, SweepEnded

(* The disk, after any step. *)
LEMMA NextDiskInv == ASSUME MaxRecovers = 0 PROVE ProcessInv /\ DiskInv /\ [Next]_vars => DiskInv'
<1> SUFFICES ASSUME ProcessInv, DiskInv, [Next]_vars PROVE DiskInv'
  OBVIOUS
<1>0. worker \in [Issues -> Workers] /\ sweep \in [{"loop", "operator"} -> Sweeps]
  BY DEF ProcessInv, TypeOK
<1>1. CASE UNCHANGED <<worker, disk, sweep>>
  BY <1>1 DEF DiskInv, LiveWorktree, SweepEnded, disk
<1>2. CASE Recover
  BY <1>2 DEF Recover, ProcessInv, TypeOK
<1>3. CASE Exit
  BY <1>0, <1>3, DispatchAssumption
     DEF Exit, NoWorker, NoSweep, disk, DiskInv, LiveWorktree, SweepEnded
<1>4. CASE ProcessStep
  <2>1. CASE Start
    BY <2>1, DiskOutOfSweep DEF Start, DiskInv, LiveWorktree, ProcessInv, WorkersAtWork, SweepInPhase, SweepEnded
  <2>2. CASE BootSweep \/ StartTick
    <3>1. /\ sweep'["loop"].at = NoIssue /\ sweep'["operator"] = sweep["operator"]
          /\ phase # "sweep" /\ UNCHANGED <<worker, worktree>>
      BY <1>0, <2>2 DEF BootSweep, StartTick, ListStale, NoSweep, disk
    <3> QED BY <3>1, DiskOutOfSweep DEF DiskInv, LiveWorktree
  <2>3. ASSUME NEW issues \in SUBSET Issues, Dispatch(issues) PROVE DiskInv'
    BY <2>3, DispatchAssumption
       DEF Dispatch, NoWorker, disk, DiskInv, LiveWorktree, SweepEnded
  <2>4. CASE Join \/ GateDone \/ EndTick
    BY <1>1, <2>4 DEF Join, GateDone, EndTick
  <2> QED BY <1>3, <1>4, <2>1, <2>2, <2>3, <2>4, GateStepDisk, SweepStepDisk DEF ProcessStep
<1>5. CASE \E i \in Issues : WorkerStep(i) \/ Beat(i) \/ SweepStep("operator", i)
  BY <1>5, WorkerStepDisk, SweepStepDisk
<1>6. CASE ClockTick \/ UNCHANGED vars
  BY <1>1, <1>6 DEF ClockTick, vars, disk
<1> QED BY <1>2, <1>3, <1>4, <1>5, <1>6 DEF Next

(* Nothing is on disk at first. *)
LEMMA InitDiskInv == Init => DiskInv
  BY DispatchAssumption DEF Init, DiskInv, LiveWorktree, SweepEnded, NoWorker, NoSweep

(* Only a sweep's mark makes a saga compensated. *)
LEMMA CompensatedByMark ==
    ASSUME ProcessInv, [Next]_vars, NEW i \in Issues,
           saga'[i].state = "compensated", saga[i].state # "compensated"
    PROVE  \E p \in {"loop", "operator"} : MarkCompensated(p, i)
<1>0. saga \in [Issues -> Sagas]
  BY DEF ProcessInv, TypeOK
<1>1. saga' # saga
  OBVIOUS
<1>2. ASSUME NEW j \in Issues, WorkerStep(j) \/ Beat(j) \/ Gate(j) PROVE FALSE
  <2>1. \/ saga' = saga \/ Store!Seed(j, "planned")
        \/ Store!Acquire(j, Owner, now + LeaseTTL) \/ Store!Renew(j, now + LeaseTTL)
        \/ \E s \in {"completed", "failed", "quarantined"} : Store!Finish(j, s)
    BY <1>2 DEF WorkerStep, SeedSaga, LeaseSaga, PrepareWorktree, WorkerReturns, FinalizeSaga, Beat,
                Gate, GatePasses, GateRefuses
  <2> QED
    BY <1>0, <1>1, <2>1 DEF Store!Seed, Store!Acquire, Store!Renew, Store!Finish, Sagas
<1>3. ASSUME NEW p \in {"loop", "operator"}, NEW j \in Issues, SweepStep(p, j)
      PROVE  MarkCompensated(p, i)
  <2>1. ~ReapWorktree(p, j)
    BY <1>1 DEF ReapWorktree
  <2>2. ~ReapBranch(p, j)
    BY <1>0, <1>1 DEF ReapBranch, Store!Finish, Sagas
  <2>3. MarkCompensated(p, j) /\ i = j
    BY <1>0, <1>1, <1>3, <2>1, <2>2 DEF SweepStep, MarkCompensated, Store!Finish, Sagas
  <2> QED BY <2>3
<1>4. CASE \/ ClockTick \/ Recover \/ Exit \/ Start \/ BootSweep \/ StartTick \/ Join \/ GateDone
           \/ EndTick \/ UNCHANGED vars
           \/ \E issues \in SUBSET Issues : Dispatch(issues)
           \/ \E j \in Issues : SettleWorktree(j)
  BY <1>1, <1>4 DEF ClockTick, Recover, Exit, Start, BootSweep, StartTick, Join, GateDone, EndTick,
                    vars, Dispatch, SettleWorktree
<1> QED BY <1>2, <1>3, <1>4 DEF Next, ProcessStep

-----------------------------------------------------------------------------
(* The theorems. *)

LEMMA ProcessInvHolds == Spec => []ProcessInv
  BY InitProcessInv, NextProcessInv, PTL DEF Spec

(* The process is where its workers and its sweep need it: the inductive    *)
(* part of TypeOK, for every number of issues, ticks, exits and faults.     *)
THEOREM TypeCorrect == Spec => []TypeOK
<1>1. ProcessInv => TypeOK
  BY DEF ProcessInv
<1> QED BY <1>1, ProcessInvHolds, PTL

(* A live worker that holds a lease never reads as stale and one without    *)
(* has a reason, as long as it is not kept from beating for a whole lease:  *)
(* what _HEARTBEAT_LEASE_FACTOR (runner/dispatch.py) is there for.          *)
THEOREM LivingLease ==
    ASSUME MaxMissed < LeaseTTL
    PROVE  Spec => []LeaseOfTheLiving
<1>1. ProcessInv /\ LeaseInv => LeaseOfTheLiving
  <2> SUFFICES ASSUME ProcessInv, LeaseInv, NEW i \in Issues
               PROVE  /\ Beating(i) /\ worker[i].leased => ~Stale(i)
                      /\ worker[i].pc = "run" /\ ~worker[i].leased =>
                             faults > 0 \/ saga[i].state \in Store!Finished \/ saga[i].owner # NoOwner
    BY DEF LeaseOfTheLiving, LiveNeverStale, UnleasedOnlyWhenReused
  <2>1. /\ LeaseMargin(i) /\ ReasonUnleased(i) /\ saga[i] \in Sagas
        /\ missed[i] \in 0 .. MaxMissed /\ now \in Nat
    BY DispatchAssumption DEF ProcessInv, TypeOK, LeaseInv, LeaseSound
  <2>2. ASSUME Beating(i), worker[i].leased PROVE ~Stale(i)
    <3>1. CASE saga[i].state \in Store!Finished
      BY <3>1 DEF Stale, InFlight, Store!Finished, Store!Unleased
    <3>2. CASE saga[i].expires + missed[i] >= now + LeaseTTL
      <4>1. saga[i].expires \in Nat /\ missed[i] \in Nat /\ missed[i] < LeaseTTL
        BY <2>1, DispatchAssumption DEF Sagas
      <4> QED BY <2>1, <3>2, <4>1, DispatchAssumption DEF Stale
    <3> QED BY <2>1, <2>2, <3>1, <3>2 DEF LeaseMargin
  <2> QED BY <2>1, <2>2 DEF ReasonUnleased
<1>2. Spec => []LeaseInv
  BY InitLeaseInv, NextLeaseInv, ProcessInvHolds, PTL DEF Spec
<1> QED BY <1>1, <1>2, ProcessInvHolds, PTL

LEMMA DiskInvHolds == ASSUME MaxRecovers = 0 PROVE Spec => []DiskInv
  BY InitDiskInv, NextDiskInv, ProcessInvHolds, PTL DEF Spec

(* Without an operator's `forge-loop recover` next to it, neither a boot nor *)
(* a sweep nor the reaping of a tick takes the worktree of a running worker. *)
THEOREM WorktreeOfTheLiving == ASSUME MaxRecovers = 0 PROVE Spec => []LiveWorktree
<1>1. DiskInv => LiveWorktree
  BY DEF DiskInv
<1> QED BY <1>1, DiskInvHolds, PTL

(* Nor is a saga compensated while a worker of its issue is under way.       *)
THEOREM OnlyTheDead == ASSUME MaxRecovers = 0 PROVE Spec => CompensatesTheDead
<1>1. ProcessInv /\ DiskInv /\ [Next]_vars =>
        [\A i \in Issues : saga'[i].state = "compensated" /\ saga[i].state # "compensated"
            => worker[i].pc = "none"]_vars
  BY CompensatedByMark, SweepStepDisk DEF SweepStep
<1> QED BY <1>1, ProcessInvHolds, DiskInvHolds, PTL DEF Spec, CompensatesTheDead

=============================================================================
