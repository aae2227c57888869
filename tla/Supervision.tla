---------------------------- MODULE Supervision ----------------------------
(***************************************************************************)
(* What keeps the loop running and what stops it: the restart shim         *)
(* (scripts/all-nighter.sh), the boot with its poison guard                *)
(* (runner/boot.py, runner/poison_guard.py), the head of the main loop,    *)
(* the stop, pause and halt files, the signals, the drift detectors        *)
(* (runner/drift.py).                                                      *)
(*                                                                         *)
(* A tick is one step that ends as _finalize_tick sees it; what it does is *)
(* the matter of Conveyor.  The lease watchdog at the head of the loop runs *)
(* the sweep that begins every tick (_run_tick_recovery), just before it.  *)
(***************************************************************************)
EXTENDS Integers, Sequences, FiniteSets, SequencesExt

CONSTANTS
    Installed,      \* what may be in site-packages before any worker ran
    Signatures,     \* what _error_signature may make of a failure
    max_ticks,      \* cfg.max_ticks, 0 for no limit
    drift_halt,     \* settings deploy.drift_halt
    MaxActs,        \* bound: what the operator and the workers do
    MaxFaults,      \* bound: deaths of the process and failed writes
    MaxTicks        \* bound: ticks in all

VARIABLES
    proc,           \* "down", "boot", "head", "paused", "tick", "stopping"
    shim,           \* the shim's session is alive
    stopFile, pauseFile, haltFile,
    stop_event, loopTick,
    recent_outcomes,\* the last three of [had_workers, all_failed, sig]
    deploys,        \* ok of the redeploys in the events file
    boot_version, installed,
    site,           \* what the operator's site-packages holds of forge-loop
    halted,         \* history: the detectors have halted the loop since the marker was last removed
    streak,         \* history: ticks in a row, in this life, failed alike
    ran,            \* history: ticks in all
    acts, faults

superVars == <<proc, shim, stopFile, pauseFile, haltFile, stop_event, loopTick, recent_outcomes,
               deploys, boot_version, installed, site, halted, streak,
               ran, acts, faults>>

files == <<stopFile, pauseFile, haltFile>>
life  == <<stop_event, loopTick, recent_outcomes, boot_version, streak>>
world == <<deploys, installed, site>>
hist  == <<halted, ran, acts, faults>>

-----------------------------------------------------------------------------
(* The poison guard.  An artifact is what the name and the target of an    *)
(* entry of site-packages say: an editable pointer of forge-loop, a link   *)
(* of its module to a worktree, a link elsewhere, a package proper.        *)

\* An editable pointer into a worktree, or into the worktrees' root but not of
\* their shape; a link of the module to a worktree or to a checkout; a package.
Artifacts == {"pointer", "root_pointer", "worktree_link", "checkout_link", "package"}

\* The site that pip reads may not be the one current_site_packages scans:
\* a user site, which holds what it holds apart.
Places == {"purelib", "user"}

Entries == [place : Places, art : Artifacts]

ASSUME SuperAssumption ==
    /\ Installed \subseteq SUBSET Entries
    /\ max_ticks \in Nat /\ drift_halt \in BOOLEAN
    /\ {MaxActs, MaxFaults, MaxTicks} \subseteq Nat

_location_in_worktree(e) == e.art \in {"pointer", "root_pointer", "worktree_link"}

\* Not every place below the root has the shape that may be healed.
plan_heal(e) == e.art # "root_pointer"

\* `pip show` reports the location of one entry, or fails: not installed.
Shown == {{}} \cup {{e} : e \in site}

detect_poisoned_environment(shown) == \E e \in shown : _location_in_worktree(e)

_should_remove(e) == e.place = "purelib" /\ e.art \in {"pointer", "root_pointer", "worktree_link"}

\* A mutant: every link of the module goes.
healLinks == {e \in site : ~(e.place = "purelib" /\ e.art # "package")}

heal == {e \in site : ~_should_remove(e)}

-----------------------------------------------------------------------------
(* Drift. *)

\* A mutant: two ticks are enough.
Drifted2(seq) ==
    /\ Len(seq) >= 2
    /\ \A k \in DOMAIN seq : seq[k].had_workers /\ seq[k].all_failed /\ seq[k].sig = seq[1].sig

\* The last three ticks had workers, which all failed with one signature.
Drifted(seq) ==
    /\ Len(seq) >= 3
    /\ \A k \in DOMAIN seq : seq[k].had_workers /\ seq[k].all_failed /\ seq[k].sig = seq[1].sig

\* deque(maxlen=3)
Remember(seq, o) == IF Len(seq) < 3 THEN Append(seq, o) ELSE Append(Tail(seq), o)

\* At the end of a tick the events file is cut down to its last lines
\* (RunnerFiles), which may be too few for the redeploys of earlier ticks.
Cut(seq) == {SubSeq(seq, k, Len(seq)) : k \in 1..(Len(seq) + 1)}

\* The failed redeploys at the end of the events file; the scan stops at five.
_consecutive_deploy_fails(seq) ==
    CHOOSE n \in 0..5 :
        /\ n <= Len(seq)
        /\ \A k \in (Len(seq) - n + 1)..Len(seq) : ~seq[k]
        /\ n = 5 \/ n = Len(seq) \/ seq[Len(seq) - n]

-----------------------------------------------------------------------------
SuperInit ==
    /\ proc = "down" /\ shim = TRUE
    /\ stopFile = FALSE /\ pauseFile = FALSE /\ haltFile = FALSE
    /\ stop_event = FALSE /\ loopTick = 0 /\ recent_outcomes = <<>>
    /\ deploys = <<>>
    /\ boot_version = 1 /\ installed = 1
    /\ site \in Installed
    /\ halted = FALSE /\ streak = 0 /\ ran = 0 /\ acts = 0 /\ faults = 0

\* A mutant: the marker is looked at after a run only.
ShimRestarts ==
    /\ shim /\ proc = "down"
    /\ proc' = "boot"
    /\ UNCHANGED <<shim, files, life, world, hist>>

\* The shim starts the loop whenever it is down, unless the marker is there.
ShimStarts ==
    /\ shim /\ proc = "down" /\ ~haltFile
    /\ proc' = "boot"
    /\ UNCHANGED <<shim, files, life, world, hist>>

\* The guard and the healer fail open and closed: what pip does not say is no
\* poison, what cannot be removed is a refusal to start.
_check_environment_poison ==
    \E shown \in Shown, fails \in {f \in BOOLEAN : ~f \/ faults < MaxFaults} :
        /\ shown = {} => site = {} \/ fails
        /\ faults' = IF fails THEN faults + 1 ELSE faults
        /\ IF ~detect_poisoned_environment(shown) THEN proc' = "head" /\ UNCHANGED site
           ELSE IF fails \/ ~(\A e \in shown : plan_heal(e)) THEN proc' = "down" /\ UNCHANGED site
           ELSE proc' = "head" /\ site' = heal

\* run().  A stop that was asked of an earlier run in the process is forgotten.
Boot ==
    /\ proc = "boot"
    /\ _check_environment_poison
    /\ stop_event' = FALSE
    /\ loopTick' = 0 /\ recent_outcomes' = <<>> /\ streak' = 0
    /\ boot_version' = installed
    /\ UNCHANGED <<shim, files, deploys, installed, halted, ran, acts>>

\* A mutant: the pause file is looked at before the stop file.
PausedFirst == pauseFile

Paused == pauseFile /\ ~stopFile

\* The stop file is consumed by the run that sees it.
SeenStop == stopFile /\ ~Paused /\ proc' = "stopping" /\ stopFile' = FALSE

\* The head of the loop, in the order of the code: the stop event, the stop
\* file, the pause file, the limit, the installed version.
Head_ ==
    /\ proc \in {"head", "paused"}
    /\ UNCHANGED <<shim, pauseFile, haltFile, stop_event, recent_outcomes, boot_version, streak,
                   deploys, installed, site, hist>>
    /\ \/ /\ stop_event
          /\ proc' = "stopping"
          /\ UNCHANGED <<stopFile, loopTick>>
       \/ /\ ~stop_event /\ SeenStop
          /\ UNCHANGED loopTick
       \/ /\ ~stop_event /\ Paused
          /\ proc' = "paused"
          /\ proc # "paused"
          /\ UNCHANGED <<stopFile, loopTick>>
       \/ /\ ~stop_event /\ ~stopFile /\ ~pauseFile
          /\ loopTick' = loopTick + 1
          /\ proc' = IF \/ max_ticks > 0 /\ loopTick' > max_ticks
                        \/ installed # boot_version
                     THEN "stopping" ELSE "tick"
          /\ UNCHANGED stopFile

Stopped ==
    /\ proc = "stopping"
    /\ proc' = "down"
    /\ UNCHANGED <<shim, files, life, world, hist>>

\* The marker and the stop file; the marker may fail to be written, which is
\* suppressed.
Halt(fails) ==
    /\ haltFile' = (haltFile \/ ~fails)
    /\ stopFile' = TRUE
    /\ halted' = ~fails
    /\ faults' = IF fails THEN faults + 1 ELSE faults

NoHalt == UNCHANGED <<haltFile, stopFile, halted, faults>>

Streak(o) ==
    IF ~(o.had_workers /\ o.all_failed) THEN 0
    ELSE IF streak > 0 /\ Last(recent_outcomes).sig = o.sig THEN (IF streak < 3 THEN streak + 1 ELSE 3)
    ELSE 1

Outcomes == {[had_workers |-> w, all_failed |-> FALSE, sig |-> "ok"] : w \in BOOLEAN}
              \cup {[had_workers |-> TRUE, all_failed |-> TRUE, sig |-> g] : g \in Signatures}

Redeployed(deploy) == IF deploy = "none" THEN deploys ELSE Append(deploys, deploy = "ok")

\* A tick that dispatched: its merge is followed by a redeploy, and its
\* outcome is put to the drift detector.
_finalize_tick ==
    /\ proc = "tick" /\ ran < MaxTicks
    /\ \E o \in Outcomes, deploy \in {"none", "ok", "failed"},
          fails \in {f \in BOOLEAN : ~f \/ faults < MaxFaults} :
        /\ deploy # "none" => o.sig = "ok" /\ o.had_workers
        /\ deploys' \in Cut(Redeployed(deploy))
        /\ recent_outcomes' = Remember(recent_outcomes, o)
        /\ streak' = Streak(o)
        /\ LET deployHalt == deploy = "failed" /\ _consecutive_deploy_fails(Redeployed(deploy)) >= 3 /\ drift_halt
           IN  IF Drifted(recent_outcomes') \/ deployHalt THEN Halt(fails) ELSE ~fails /\ NoHalt
    /\ proc' = "head"
    /\ ran' = ran + 1
    /\ UNCHANGED <<shim, pauseFile, stop_event, loopTick, boot_version, installed, site, acts>>

\* A tick that had nothing to dispatch is not remembered.
IdleTick ==
    /\ proc = "tick" /\ ran < MaxTicks
    /\ proc' = "head"
    /\ ran' = ran + 1
    /\ UNCHANGED <<shim, files, life, world, halted, acts, faults>>

\* An exception out of a tick, or the death of the process.
Dies_ ==
    /\ proc # "down" /\ faults < MaxFaults
    /\ faults' = faults + 1
    /\ proc' = "down"
    /\ UNCHANGED <<shim, files, life, world, halted, ran, acts>>

-----------------------------------------------------------------------------
(* From outside. *)

Act == acts < MaxActs /\ acts' = acts + 1

\* forge-loop stop, pause and resume.
TouchStop   == Act /\ stopFile' = TRUE /\ UNCHANGED <<proc, shim, pauseFile, haltFile, life, world, halted, ran, faults>>
TouchPause  == Act /\ pauseFile' = TRUE /\ UNCHANGED <<proc, shim, stopFile, haltFile, life, world, halted, ran, faults>>
Resume ==
    /\ Act /\ pauseFile /\ pauseFile' = FALSE
    /\ proc' = IF proc = "paused" THEN "head" ELSE proc
    /\ UNCHANGED <<shim, stopFile, haltFile, life, world, halted, ran, faults>>

Sigterm ==
    /\ Act /\ proc \notin {"down", "boot"}
    /\ stop_event' = TRUE
    /\ UNCHANGED <<proc, shim, files, loopTick, recent_outcomes, boot_version, streak, world,
                   halted, ran, faults>>

Sigusr1 ==
    /\ Act /\ proc \notin {"down", "boot"}
    /\ pauseFile' = ~pauseFile
    /\ UNCHANGED <<proc, shim, stopFile, haltFile, life, world, halted, ran, faults>>

RemovesHalt ==
    /\ Act /\ haltFile
    /\ haltFile' = FALSE /\ halted' = FALSE
    /\ UNCHANGED <<proc, shim, stopFile, pauseFile, life, world, ran, faults>>

\* all-nighter.sh stop: the stop file, up to 30 s, then the session is killed.
KillsSession ==
    /\ Act /\ shim
    /\ stopFile' \in {TRUE, proc = "down"}
    /\ shim' = FALSE
    /\ proc' = "down"
    /\ UNCHANGED <<pauseFile, haltFile, life, world, halted, ran, faults>>

\* all-nighter.sh start: stale files are removed.
StartsSession ==
    /\ Act /\ ~shim
    /\ shim' = TRUE
    /\ stopFile' = FALSE /\ haltFile' = FALSE /\ halted' = FALSE
    /\ UNCHANGED <<proc, pauseFile, life, world, ran, faults>>

\* A merged pull request bumps the version; a worker installs its worktree.
Upgrade == Act /\ installed = 1 /\ installed' = 2 /\
    UNCHANGED <<proc, shim, files, life, deploys, site, halted, ran, faults>>

Installs == \E e \in [place : Places, art : {"pointer", "worktree_link"}] :
    /\ Act /\ e \notin site
    /\ site' = site \cup {e}
    /\ UNCHANGED <<proc, shim, files, life, deploys, installed, halted, ran, faults>>

-----------------------------------------------------------------------------
Loop == ShimStarts \/ Boot \/ Head_ \/ Stopped \/ _finalize_tick \/ IdleTick
Outside ==
    \/ TouchStop \/ TouchPause \/ Resume \/ Sigterm \/ Sigusr1 \/ RemovesHalt
    \/ KillsSession \/ StartsSession \/ Upgrade \/ Installs

SuperNext == Loop \/ Dies_ \/ Outside
SuperSpec == SuperInit /\ [][SuperNext]_superVars

\* The shim and the loop take their steps; nothing is owed from outside.
SuperFair == WF_superVars(Loop)

-----------------------------------------------------------------------------
(* Properties. *)

SuperTypeOK ==
    /\ proc \in {"down", "boot", "head", "paused", "tick", "stopping"}
    /\ Len(recent_outcomes) <= 3
    /\ site \subseteq Entries
    /\ boot_version <= installed

\* Once a detector has halted the loop and its marker could be written, the
\* loop begins no tick, and is not started again, until the marker is
\* removed, whatever stop, pause, signal, death or upgrade comes between
\* (drift.py, all-nighter.sh).
HaltHolds ==
    [][halted /\ halted' => /\ proc' # "boot" \/ proc = "boot"
                            /\ proc' # "tick" \/ proc = "tick"]_superVars

\* The loop does not go on after three ticks in a row that all failed alike,
\* and does not halt for drift before (drift.py, RunnerState.recent_outcomes).
DriftIsHalted ==
    [][/\ proc = "tick" /\ streak' >= 3 => stopFile'
       /\ ~halted /\ halted' => \/ streak' >= 3
                                \/ drift_halt /\ _consecutive_deploy_fails(Redeployed("failed")) >= 3]_superVars

\* What the guard removes is forge-loop's own: a package proper, or a link to
\* a checkout of the operator, stays ("SCOPED & SAFE", poison_guard.py).
HealIsScoped ==
    [][\A e \in site : e.art \in {"package", "checkout_link"} => e \in site']_site

\* A request to stop reaches the loop: a stop file is consumed, or the loop is
\* down and stays so.
StopIsSeen == (stopFile /\ proc \in {"head", "paused"}) ~> (~stopFile \/ proc = "down")

\* What the shim, the drift detector and the operator can rely on.
LoopIsGoverned == []SuperTypeOK /\ HaltHolds /\ DriftIsHalted /\ HealIsScoped
=============================================================================
