----------------------------- MODULE LoopProofs -----------------------------
(***************************************************************************)
(* What governs the loop and what its maintenance may take, for every site *)
(* that pip may show, every settings, every tree of issues, every set of   *)
(* worktrees and every number of deaths, failures and interventions.       *)
(*                                                                         *)
(* SuperSound: HaltHolds is not inductive.  That a halted loop begins no   *)
(* tick rests on the stop file, which the halt leaves beside the marker    *)
(* and which only the run that stops, or a new session, may take away.     *)
(* That the detector fires neither late nor early rests on the three       *)
(* outcomes it keeps telling how many ticks in a row failed alike.         *)
(*                                                                         *)
(* SweepsSound: what was open when the pass began still is, unless the     *)
(* sweep itself closed it, so what a step read before is true enough when  *)
(* it is used.                                                             *)
(*                                                                         *)
(* AsyncSound: each issue of a tick's batch is in one place, and what the  *)
(* joins count is what is queued and in work.                              *)
(*                                                                         *)
(* QueueSound: tasks are tried in the order of their pushes, so what was   *)
(* never tried still waits, behind all that was, and once.                 *)
(***************************************************************************)
EXTENDS Supervision, Sweeps, AsyncPipeline, TaskQueue,
        SequenceTheorems, FiniteSetTheorems, FunctionTheorems, WellFoundedInduction, TLAPS

-----------------------------------------------------------------------------
(* The loop process.  The last `streak` outcomes, and no more, are of ticks *)
(* that failed alike.                                                      *)

Failed(o) == o.had_workers /\ o.all_failed
Alike(o, p) == Failed(o) /\ o.sig = p.sig

IsStreak(seq, s) ==
    /\ seq \in Seq(Outcomes) /\ Len(seq) \in 0..3
    /\ s \in 0..Len(seq)
    /\ \A k \in 1..Len(seq) : k > Len(seq) - s => Alike(seq[k], seq[Len(seq)])
    /\ s < Len(seq) => ~Alike(seq[Len(seq) - s], seq[Len(seq)])

StreakSound == IsStreak(recent_outcomes, streak)

\* The marker is there, and no tick is under way; at the head of the loop, and
\* while it is paused, so is the stop file.
HaltSound ==
    halted => /\ haltFile
              /\ proc \notin {"boot", "tick"}
              /\ proc \in {"head", "paused"} => stopFile

\* So it is after three failures, whether or not the marker could be written.
DriftSound ==
    streak >= 3 => /\ proc # "tick"
                   /\ proc \in {"head", "paused"} => stopFile

SuperTypes ==
    /\ proc \in {"down", "boot", "head", "paused", "tick", "stopping"}
    /\ shim \in BOOLEAN /\ stopFile \in BOOLEAN /\ pauseFile \in BOOLEAN /\ haltFile \in BOOLEAN
    /\ halted \in BOOLEAN
    /\ installed \in 1..2 /\ boot_version \in 1..installed
    /\ site \subseteq Entries

SuperSound ==
    /\ SuperTypes /\ StreakSound /\ HaltSound /\ DriftSound
    /\ ~shim => proc = "down"

-----------------------------------------------------------------------------
(* The outcomes that are kept, counted from the last.                      *)
Follows(kept, seq, o) ==
    /\ kept \in Seq(Outcomes)
    /\ Len(seq) < 3 => Len(kept) = Len(seq) + 1
    /\ Len(seq) = 3 => Len(kept) = 3
    /\ kept[Len(kept)] = o
    /\ \A j \in 1..3 : j < Len(kept) => kept[Len(kept) - j] = seq[Len(seq) - j + 1]

LEMMA RememberIs ==
    ASSUME NEW seq \in Seq(Outcomes), Len(seq) \in 0..3, NEW o \in Outcomes,
           NEW kept, kept = Remember(seq, o)
    PROVE  Follows(kept, seq, o)
<1>1. CASE Len(seq) < 3
  <2>1. kept = Append(seq, o)
    BY <1>1 DEF Remember
  <2>2. /\ kept \in Seq(Outcomes) /\ Len(kept) = Len(seq) + 1 /\ kept[Len(seq) + 1] = o
        /\ \A i \in 1..Len(seq) : kept[i] = seq[i]
    BY <2>1, AppendProperties
  <2> QED BY <1>1, <2>2 DEF Follows
<1>2. CASE Len(seq) = 3
  <2>1. PICK t : t = Tail(seq)
    OBVIOUS
  <2>2. seq # <<>>
    BY <1>2
  <2>3. t \in Seq(Outcomes)
    BY <2>1, <2>2, HeadTailProperties
  <2>4. Len(t) = Len(seq) - 1 /\ \A i \in 1..Len(t) : t[i] = seq[i + 1]
    BY <2>1, <2>2, HeadTailProperties
  <2>5. Len(t) = 2 /\ t[1] = seq[2] /\ t[2] = seq[3]
    BY <1>2, <2>4
  <2>6. kept = Append(t, o)
    BY <1>2, <2>1 DEF Remember
  <2>7. /\ kept \in Seq(Outcomes) /\ Len(kept) = Len(t) + 1 /\ kept[Len(t) + 1] = o
        /\ \A i \in 1..Len(t) : kept[i] = t[i]
    BY <2>3, <2>6, AppendProperties
  <2>8. Len(kept) = 3 /\ kept[3] = o /\ kept[1] = seq[2] /\ kept[2] = seq[3]
    BY <2>5, <2>7
  <2>9. ASSUME NEW j \in 1..3, j < 3 PROVE kept[3 - j] = seq[3 - j + 1]
    <3>1. CASE j = 1
      BY <2>8, <3>1
    <3>2. CASE j = 2
      BY <2>8, <3>2
    <3> QED BY <2>9, <3>1, <3>2
  <2>10. \A j \in 1..3 : j < Len(kept) => kept[Len(kept) - j] = seq[Len(seq) - j + 1]
    BY <1>2, <2>8, <2>9
  <2>11. kept \in Seq(Outcomes)
    BY <2>7
  <2> QED BY <1>2, <2>8, <2>10, <2>11 DEF Follows
<1>3. Len(seq) < 3 \/ Len(seq) = 3
  <2>1. PICK n \in 0..3 : n = Len(seq)
    OBVIOUS
  <2>2. n < 3 \/ n = 3
    OBVIOUS
  <2> QED BY <2>1, <2>2
<1> QED BY <1>1, <1>2, <1>3

(* The streak of the model is the one the kept outcomes show.               *)
LEMMA StreakGoesOn ==
    ASSUME NEW seq, NEW s, IsStreak(seq, s), NEW o \in Outcomes,
           NEW kept, kept = Remember(seq, o),
           NEW t, t = IF ~Failed(o) THEN 0
                      ELSE IF s > 0 /\ seq[Len(seq)].sig = o.sig THEN (IF s < 3 THEN s + 1 ELSE 3)
                      ELSE 1
    PROVE  IsStreak(kept, t)
<1>1. PICK n : n = Len(seq)
  OBVIOUS
<1>2. /\ seq \in Seq(Outcomes) /\ n \in 0..3 /\ s \in 0..n
      /\ \A k \in 1..n : k > n - s => Alike(seq[k], seq[n])
      /\ s < n => ~Alike(seq[n - s], seq[n])
  BY <1>1 DEF IsStreak
<1>3. PICK m \in 1..3 : m = IF n < 3 THEN n + 1 ELSE 3
  BY <1>2
<1>4. /\ kept \in Seq(Outcomes) /\ Len(kept) = m /\ kept[m] = o
      /\ \A j \in 1..3 : j < m => kept[m - j] = seq[n - j + 1]
  <2>1. seq \in Seq(Outcomes) /\ Len(seq) \in 0..3
    BY DEF IsStreak
  <2>2. Follows(kept, seq, o)
    BY <2>1, RememberIs
  <2>3. Len(kept) = m
    BY <1>1, <1>2, <1>3, <2>2 DEF Follows
  <2>4. kept \in Seq(Outcomes) /\ kept[m] = o
    BY <2>2, <2>3 DEF Follows
  <2>5. \A j \in 1..3 : j < m => kept[m - j] = seq[n - j + 1]
    BY <1>1, <2>2, <2>3 DEF Follows
  <2> QED BY <2>3, <2>4, <2>5
<1>5. CASE ~Failed(o)
  <2>1. t = 0 /\ ~Alike(o, o)
    BY <1>5 DEF Alike
  <2> QED BY <1>3, <1>4, <2>1 DEF IsStreak
<1>6. CASE Failed(o) /\ s > 0 /\ seq[n].sig = o.sig
  <2>1. t = (IF s < 3 THEN s + 1 ELSE 3) /\ t \in 1..m
    BY <1>1, <1>2, <1>3, <1>6
  <2>2. ASSUME NEW k \in 1..m, k > m - t PROVE Alike(kept[k], o)
    <3>1. CASE k = m
      BY <1>4, <1>6, <3>1 DEF Alike
    <3>2. CASE k # m
      <4>1. PICK j \in 1..3 : j = m - k
        BY <1>3, <3>2
      <4>2. j < m /\ k = m - j /\ n - j + 1 \in 1..n /\ n - j + 1 > n - s
        BY <1>2, <1>3, <2>1, <2>2, <4>1, <3>2
      <4>3. kept[k] = seq[n - j + 1] /\ Alike(seq[n - j + 1], seq[n])
        BY <1>2, <1>4, <4>2
      <4> QED BY <1>6, <4>3 DEF Alike
    <3> QED BY <3>1, <3>2
  <2>3. ASSUME t < m PROVE ~Alike(kept[m - t], o)
    <3>1. s < n /\ t = s + 1 /\ t \in 1..3 /\ n - t + 1 = n - s
      BY <1>2, <1>3, <2>1, <2>3
    <3>2. kept[m - t] = seq[n - s]
      BY <1>4, <2>3, <3>1
    <3> QED BY <1>2, <1>6, <3>1, <3>2 DEF Alike
  <2> QED BY <1>4, <2>1, <2>2, <2>3 DEF IsStreak
<1>7. CASE Failed(o) /\ ~(s > 0 /\ seq[n].sig = o.sig)
  <2>1. t = 1
    BY <1>1, <1>7
  <2>2. ASSUME 1 < m PROVE ~Alike(kept[m - 1], o)
    <3>1. 0 < n /\ n - 1 + 1 = n
      BY <1>2, <1>3, <2>2
    <3>2. kept[m - 1] = seq[n]
      BY <1>4, <2>2, <3>1
    <3>3. s = 0 => ~Alike(seq[n], seq[n])
      BY <1>2, <3>1
    <3> QED BY <1>2, <1>7, <3>2, <3>3 DEF Alike
  <2>3. ASSUME NEW k \in 1..m, k > m - 1 PROVE Alike(kept[k], o)
    <3>1. k = m
      BY <1>3, <2>3
    <3> QED BY <1>4, <1>7, <3>1 DEF Alike
  <2> QED BY <1>3, <1>4, <2>1, <2>2, <2>3 DEF IsStreak
<1> QED BY <1>5, <1>6, <1>7

LEMMA StreakKeeps ==
    ASSUME StreakSound, NEW o \in Outcomes,
           recent_outcomes' = Remember(recent_outcomes, o), streak' = Streak(o)
    PROVE  StreakSound'
<1>1. PICK kept, t : /\ kept = Remember(recent_outcomes, o)
                     /\ t = IF ~Failed(o) THEN 0
                            ELSE IF streak > 0 /\ recent_outcomes[Len(recent_outcomes)].sig = o.sig
                                 THEN (IF streak < 3 THEN streak + 1 ELSE 3)
                            ELSE 1
  OBVIOUS
<1>2. IsStreak(kept, t)
  BY <1>1, StreakGoesOn DEF StreakSound
<1>3. recent_outcomes' = kept /\ streak' = t
  BY <1>1 DEF Streak, Failed, Last
<1> QED BY <1>2, <1>3 DEF StreakSound

(* The detector sees a streak of three, and nothing else.                   *)
LEMMA DriftIsStreak ==
    ASSUME NEW seq, NEW s, IsStreak(seq, s)
    PROVE  Drifted(seq) <=> s >= 3
<1>1. PICK n : n = Len(seq)
  OBVIOUS
<1>2. /\ seq \in Seq(Outcomes) /\ n \in 0..3 /\ s \in 0..n /\ DOMAIN seq = 1..n
      /\ \A k \in 1..n : k > n - s => Alike(seq[k], seq[n])
      /\ s < n => ~Alike(seq[n - s], seq[n])
  BY <1>1 DEF IsStreak
<1>3. ASSUME s >= 3 PROVE Drifted(seq)
  <2>1. n = 3 /\ s = 3
    BY <1>2, <1>3
  <2>2. \A k \in 1..3 : Alike(seq[k], seq[3])
    BY <1>2, <2>1
  <2>3. \A k \in 1..3 : Failed(seq[k]) /\ seq[k].sig = seq[1].sig
    BY <2>2 DEF Alike
  <2> QED BY <1>1, <1>2, <2>1, <2>3 DEF Drifted, Failed
<1>4. ASSUME Drifted(seq), s < 3 PROVE FALSE
  <2>1. n = 3 /\ \A k \in 1..3 : Failed(seq[k]) /\ seq[k].sig = seq[1].sig
    BY <1>1, <1>2, <1>4 DEF Drifted, Failed
  <2>2. 3 - s \in 1..3 /\ ~Alike(seq[3 - s], seq[3])
    BY <1>2, <1>4, <2>1
  <2> QED BY <2>1, <2>2 DEF Alike
<1> QED BY <1>2, <1>3, <1>4

(* What happens outside a tick and a boot leaves the outcomes alone.        *)
LEMMA OutcomesStay ==
    ASSUME StreakSound, UNCHANGED <<recent_outcomes, streak>> PROVE StreakSound'
  BY DEF StreakSound

LEMMA SuperInitSound == SuperInit => SuperSound
<1> SUFFICES ASSUME SuperInit PROVE SuperSound
  OBVIOUS
<1>1. StreakSound
  <2>1. /\ recent_outcomes = <<>> /\ streak = 0
        /\ recent_outcomes \in Seq(Outcomes) /\ Len(recent_outcomes) = 0
    BY DEF SuperInit
  <2> QED BY <2>1 DEF StreakSound, IsStreak
<1>2. site \subseteq Entries
  BY SuperAssumption DEF SuperInit
<1>3. SuperTypes
  <2>1. /\ proc = "down" /\ shim = TRUE /\ stopFile = FALSE /\ pauseFile = FALSE /\ haltFile = FALSE
        /\ halted = FALSE /\ installed = 1 /\ boot_version = 1
    BY DEF SuperInit
  <2>2. installed \in 1..2 /\ boot_version \in 1..installed
    BY <2>1
  <2> QED BY <1>2, <2>1, <2>2 DEF SuperTypes
<1>4. HaltSound /\ DriftSound /\ shim
  BY DEF SuperInit, HaltSound, DriftSound
<1> QED BY <1>1, <1>3, <1>4 DEF SuperSound

(* The boot: it starts with no outcome, and only a loop that is not halted  *)
(* is in it.                                                                *)
LEMMA BootKeeps == ASSUME SuperSound, Boot PROVE SuperSound'
<1> USE DEF SuperSound
<1>1. /\ proc = "boot" /\ proc' \in {"head", "down"} /\ site' \subseteq site
      /\ UNCHANGED <<shim, files, installed, halted>>
      /\ recent_outcomes' = <<>> /\ streak' = 0 /\ boot_version' = installed
  BY DEF Boot, _check_environment_poison, heal
<1>2. StreakSound'
  <2>1. recent_outcomes' \in Seq(Outcomes) /\ Len(recent_outcomes') = 0
    BY <1>1
  <2> QED BY <1>1, <2>1 DEF StreakSound, IsStreak
<1>3. ~halted
  BY <1>1 DEF HaltSound
<1>4. SuperTypes'
  BY <1>1 DEF SuperTypes, files
<1>5. HaltSound'
  BY <1>1, <1>3 DEF HaltSound
<1>6. DriftSound'
  BY <1>1 DEF DriftSound
<1> QED BY <1>1, <1>2, <1>4, <1>5, <1>6

(* The head of the loop: with the stop file there, no tick begins, and the  *)
(* run that takes it away stops.                                            *)
LEMMA HeadKeeps == ASSUME SuperSound, Head_ PROVE SuperSound'
<1> USE DEF SuperSound
<1>1. /\ proc \in {"head", "paused"} /\ UNCHANGED <<shim, haltFile, pauseFile, site, installed>>
      /\ UNCHANGED <<recent_outcomes, streak, boot_version, halted>>
  BY DEF Head_, hist
<1>2. \/ proc' = "stopping" /\ stopFile' \in {stopFile, FALSE}
      \/ proc' = "paused" /\ stopFile' = stopFile
      \/ proc' = "tick" /\ ~stopFile /\ stopFile' = stopFile
  BY DEF Head_, SeenStop, Paused
<1>3. StreakSound'
  BY <1>1, OutcomesStay
<1>4. SuperTypes'
  BY <1>1, <1>2 DEF SuperTypes
<1>5. HaltSound'
  BY <1>1, <1>2 DEF HaltSound
<1>6. DriftSound'
  BY <1>1, <1>2 DEF DriftSound
<1> QED BY <1>1, <1>2, <1>3, <1>4, <1>5, <1>6

(* The end of a tick: it halts the loop if the streak is three, and touches *)
(* the stop file even when the marker cannot be written.                    *)
LEMMA FinalizeIs ==
    ASSUME SuperSound, _finalize_tick
    PROVE  /\ proc = "tick" /\ proc' = "head" /\ ~halted
           /\ UNCHANGED <<shim, pauseFile, boot_version, installed, site>>
           /\ StreakSound'
           /\ \/ streak' < 3 /\ NoHalt
              \/ /\ Halt(TRUE) \/ Halt(FALSE)
                 /\ \/ streak' >= 3
                    \/ drift_halt /\ _consecutive_deploy_fails(Redeployed("failed")) >= 3
<1> USE DEF SuperSound
<1>1. PICK o \in Outcomes, deploy \in {"none", "ok", "failed"}, fails \in BOOLEAN :
        /\ recent_outcomes' = Remember(recent_outcomes, o)
        /\ streak' = Streak(o)
        /\ LET deployHalt == deploy = "failed" /\ _consecutive_deploy_fails(Redeployed(deploy)) >= 3 /\ drift_halt
           IN  IF Drifted(recent_outcomes') \/ deployHalt THEN Halt(fails) ELSE ~fails /\ NoHalt
  BY DEF _finalize_tick
<1>2. StreakSound'
  BY <1>1, StreakKeeps
<1>3. Drifted(recent_outcomes') <=> streak' >= 3
  BY <1>2, DriftIsStreak DEF StreakSound
<1>4. /\ proc = "tick" /\ proc' = "head"
      /\ UNCHANGED <<shim, pauseFile, boot_version, installed, site>>
  BY DEF _finalize_tick
<1>5. ~halted
  BY <1>4 DEF HaltSound
<1>6. CASE Drifted(recent_outcomes')
  <2>1. Halt(fails)
    BY <1>1, <1>6
  <2> QED BY <1>2, <1>3, <1>4, <1>5, <1>6, <2>1
<1>7. CASE ~Drifted(recent_outcomes')
  <2>1. streak' < 3
    BY <1>2, <1>3, <1>7 DEF StreakSound, IsStreak
  <2>2. \/ NoHalt
        \/ /\ Halt(fails) /\ drift_halt
           /\ deploy = "failed" /\ _consecutive_deploy_fails(Redeployed(deploy)) >= 3
    BY <1>1, <1>7
  <2> QED BY <1>2, <1>4, <1>5, <2>1, <2>2
<1> QED BY <1>6, <1>7

LEMMA FinalizeKeeps == ASSUME SuperSound, _finalize_tick PROVE SuperSound'
<1> USE DEF SuperSound
<1>1. /\ proc = "tick" /\ proc' = "head" /\ ~halted
      /\ UNCHANGED <<shim, pauseFile, boot_version, installed, site>>
      /\ StreakSound'
  BY FinalizeIs
<1>2. /\ stopFile \in BOOLEAN /\ haltFile \in BOOLEAN /\ halted \in BOOLEAN /\ shim
  BY <1>1 DEF SuperTypes
<1>3. CASE Halt(TRUE) \/ Halt(FALSE)
  <2>1. stopFile' = TRUE /\ haltFile' \in BOOLEAN /\ halted' \in BOOLEAN /\ (halted' => haltFile')
    BY <1>2, <1>3 DEF Halt
  <2>2. SuperTypes'
    BY <1>1, <2>1 DEF SuperTypes
  <2>3. HaltSound' /\ DriftSound'
    BY <1>1, <2>1 DEF HaltSound, DriftSound
  <2> QED BY <1>1, <1>2, <2>2, <2>3
<1>4. CASE streak' < 3 /\ NoHalt
  <2>1. SuperTypes'
    BY <1>1, <1>4 DEF SuperTypes, NoHalt
  <2>2. HaltSound'
    BY <1>1, <1>4 DEF HaltSound, NoHalt
  <2>3. DriftSound'
    <3>1. ~(streak' >= 3)
      BY <1>1, <1>4 DEF StreakSound, IsStreak
    <3> QED BY <3>1 DEF DriftSound
  <2> QED BY <1>1, <1>2, <2>1, <2>2, <2>3
<1> QED BY <1>3, <1>4, FinalizeIs

(* The other steps, but for those that end a session, begin one or remove   *)
(* the marker, take nothing away that halts, and begin no tick.             *)
Quiet ==
    /\ UNCHANGED <<haltFile, halted, shim, boot_version, recent_outcomes, streak>>
    /\ stopFile' = stopFile \/ stopFile' = TRUE
    /\ pauseFile' \in BOOLEAN
    /\ installed' \in {installed, 2} /\ site \subseteq site' /\ site' \subseteq Entries
    /\ \/ proc' = proc
       \/ proc' = "down"
       \/ proc \in {"paused", "tick"} /\ proc' = "head" /\ stopFile' = stopFile
       \/ proc = "down" /\ proc' = "boot" /\ ~haltFile /\ shim

LEMMA StepIs ==
    ASSUME SuperTypes, SuperNext
    PROVE  \/ _finalize_tick \/ Boot \/ Head_ \/ KillsSession \/ StartsSession \/ RemovesHalt
           \/ Quiet
<1> USE DEF Quiet, SuperTypes, files, life, world, hist
<1>1. CASE ShimStarts
  BY <1>1 DEF ShimStarts
<1>2. CASE Stopped
  BY <1>2 DEF Stopped
<1>3. CASE IdleTick
  BY <1>3 DEF IdleTick
<1>4. CASE Dies_
  BY <1>4 DEF Dies_
<1>5. CASE TouchStop \/ TouchPause
  BY <1>5 DEF TouchStop, TouchPause
<1>6. CASE Resume
  BY <1>6 DEF Resume
<1>7. CASE Sigterm \/ Sigusr1
  BY <1>7 DEF Sigterm, Sigusr1
<1>8. CASE Upgrade
  BY <1>8 DEF Upgrade
<1>9. CASE Installs
  <2>1. PICK e \in [place : Places, art : {"pointer", "worktree_link"}] : site' = site \cup {e}
    BY <1>9 DEF Installs
  <2>2. e \in Entries
    BY DEF Entries, Artifacts
  <2>3. site \subseteq site' /\ site' \subseteq Entries
    BY <2>1, <2>2
  <2> QED BY <1>9, <2>3 DEF Installs
<1> QED BY <1>1, <1>2, <1>3, <1>4, <1>5, <1>6, <1>7, <1>8, <1>9 DEF SuperNext, Loop, Outside

LEMMA QuietKeeps == ASSUME SuperSound, Quiet PROVE SuperSound'
<1> USE DEF SuperSound, Quiet
<1>1. StreakSound'
  BY OutcomesStay
<1>2. SuperTypes'
  <2>1. stopFile' \in BOOLEAN /\ shim' \in BOOLEAN /\ haltFile' \in BOOLEAN /\ halted' \in BOOLEAN
    BY DEF SuperTypes
  <2>2. proc' \in {"down", "boot", "head", "paused", "tick", "stopping"}
    BY DEF SuperTypes
  <2>3. installed' \in 1..2 /\ boot_version' \in 1..installed'
    BY DEF SuperTypes
  <2> QED BY <2>1, <2>2, <2>3 DEF SuperTypes
<1>3. (stopFile => stopFile') /\ (halted' <=> halted) /\ (haltFile' <=> haltFile)
  BY DEF SuperTypes
<1>4. HaltSound'
  <2>1. CASE ~halted
    BY <1>3, <2>1 DEF HaltSound
  <2>2. CASE halted
    BY <1>3, <2>2 DEF HaltSound
  <2> QED BY <2>1, <2>2
<1>5. DriftSound'
  <2>1. CASE streak >= 3
    BY <1>3, <2>1 DEF DriftSound
  <2>2. CASE ~(streak >= 3)
    BY <2>2 DEF DriftSound
  <2> QED BY <2>1, <2>2
<1> QED BY <1>1, <1>2, <1>4, <1>5

(* The session is killed, or begun, or the operator removes the marker: no  *)
(* process runs, or nothing but the marker goes.                            *)
LEMMA SessionKeeps ==
    ASSUME SuperSound, KillsSession \/ StartsSession \/ RemovesHalt
    PROVE  SuperSound' /\ (halted' => halted) /\ proc' \in {proc, "down"}
<1> USE DEF SuperSound, files, life, world
<1>1. UNCHANGED <<pauseFile, boot_version, recent_outcomes, streak, installed, site>>
  BY DEF KillsSession, StartsSession, RemovesHalt
<1>2. StreakSound'
  BY <1>1, OutcomesStay
<1>3. CASE KillsSession
  <2>1. /\ proc' = "down" /\ stopFile' \in BOOLEAN /\ shim' = FALSE /\ UNCHANGED <<haltFile, halted>>
    BY <1>3 DEF KillsSession
  <2> QED BY <1>1, <1>2, <2>1 DEF SuperTypes, HaltSound, DriftSound
<1>4. CASE StartsSession
  <2>1. /\ proc' = "down" /\ proc = "down" /\ shim' = TRUE
        /\ stopFile' = FALSE /\ haltFile' = FALSE /\ halted' = FALSE
    BY <1>4 DEF StartsSession
  <2> QED BY <1>1, <1>2, <2>1 DEF SuperTypes, HaltSound, DriftSound
<1>5. CASE RemovesHalt
  <2>1. UNCHANGED <<proc, shim, stopFile>> /\ haltFile' = FALSE /\ halted' = FALSE
    BY <1>5 DEF RemovesHalt
  <2> QED BY <1>1, <1>2, <2>1 DEF SuperTypes, HaltSound, DriftSound
<1> QED BY <1>3, <1>4, <1>5

LEMMA SuperInductive == SuperSound /\ [SuperNext]_superVars => SuperSound'
<1> SUFFICES ASSUME SuperSound, [SuperNext]_superVars PROVE SuperSound'
  OBVIOUS
<1>1. CASE UNCHANGED superVars
  <2>1. Quiet
    BY <1>1 DEF Quiet, superVars, SuperSound, SuperTypes
  <2> QED BY <2>1, QuietKeeps
<1>2. CASE SuperNext
  <2>1. SuperTypes
    BY DEF SuperSound
  <2> QED BY <1>2, <2>1, StepIs, FinalizeKeeps, BootKeeps, HeadKeeps, QuietKeeps, SessionKeeps
<1> QED BY <1>1, <1>2

-----------------------------------------------------------------------------
(* What each step promises. *)

\* No tick begins, and no loop starts, while the halt holds.
LEMMA HaltStep ==
    ASSUME SuperSound, SuperNext, halted, halted'
    PROVE  (proc' # "boot" \/ proc = "boot") /\ (proc' # "tick" \/ proc = "tick")
<1>1. /\ SuperTypes /\ haltFile /\ proc \notin {"boot", "tick"}
      /\ proc \in {"head", "paused"} => stopFile
  BY DEF SuperSound, HaltSound
<1>2. CASE _finalize_tick
  BY <1>2, FinalizeIs
<1>3. CASE Boot
  BY <1>1, <1>3 DEF Boot
<1>4. CASE Head_
  BY <1>1, <1>4 DEF Head_, SeenStop, Paused
<1>5. CASE KillsSession \/ StartsSession \/ RemovesHalt
  BY <1>1, <1>5, SessionKeeps
<1>6. CASE Quiet
  BY <1>1, <1>6 DEF Quiet
<1> QED BY <1>1, <1>2, <1>3, <1>4, <1>5, <1>6, StepIs

\* The third failure alike halts, and nothing else does but three redeploys.
LEMMA DriftStep ==
    ASSUME SuperSound, SuperNext
    PROVE  /\ proc = "tick" /\ streak' >= 3 => stopFile'
           /\ ~halted /\ halted' => \/ streak' >= 3
                                    \/ drift_halt /\ _consecutive_deploy_fails(Redeployed("failed")) >= 3
<1>1. SuperTypes /\ DriftSound
  BY DEF SuperSound
<1>2. CASE _finalize_tick
  <2>1. CASE /\ Halt(TRUE) \/ Halt(FALSE)
             /\ \/ streak' >= 3
                \/ drift_halt /\ _consecutive_deploy_fails(Redeployed("failed")) >= 3
    <3>1. stopFile'
      BY <2>1 DEF Halt
    <3> QED BY <2>1, <3>1
  <2>2. CASE streak' < 3 /\ NoHalt
    <3>1. ~(streak' >= 3)
      BY <1>2, <2>2, FinalizeIs DEF StreakSound, IsStreak
    <3> QED BY <2>2, <3>1 DEF NoHalt
  <2> QED BY <1>2, <2>1, <2>2, FinalizeIs
<1>3. CASE Boot
  BY <1>3 DEF Boot
<1>4. CASE Head_
  BY <1>1, <1>4 DEF Head_, hist, DriftSound
<1>5. CASE KillsSession \/ StartsSession \/ RemovesHalt
  <2>1. streak' = streak
    BY <1>5 DEF KillsSession, StartsSession, RemovesHalt, life
  <2>2. halted' => halted
    BY <1>5, SessionKeeps
  <2> QED BY <1>1, <2>1, <2>2 DEF DriftSound
<1>6. CASE Quiet
  BY <1>1, <1>6 DEF Quiet, DriftSound
<1> QED BY <1>1, <1>2, <1>3, <1>4, <1>5, <1>6, StepIs

\* The healer is the one that removes, and it removes nothing of the operator's.
LEMMA HealStep ==
    ASSUME SuperSound, SuperNext, NEW e \in site, e.art \in {"package", "checkout_link"}
    PROVE  e \in site'
<1>1. SuperTypes
  BY DEF SuperSound
<1>2. CASE _finalize_tick
  BY <1>2, FinalizeIs
<1>3. CASE Boot
  BY <1>3 DEF Boot, _check_environment_poison, heal, _should_remove
<1>4. CASE Head_
  BY <1>4 DEF Head_
<1>5. CASE KillsSession \/ StartsSession \/ RemovesHalt
  BY <1>5 DEF KillsSession, StartsSession, RemovesHalt, world
<1>6. CASE Quiet
  BY <1>6 DEF Quiet
<1> QED BY <1>1, <1>2, <1>3, <1>4, <1>5, <1>6, StepIs

(* Once the drift detector has halted the loop it runs no tick until the    *)
(* marker is removed; it halts after three ticks that failed alike and not  *)
(* before; the healer leaves what is the operator's; whatever site-packages *)
(* hold, whatever the operator and the workers do, and however often the    *)
(* process dies or a write fails.                                           *)
THEOREM LoopGoverned == SuperSpec => LoopIsGoverned
<1>1. SuperSpec => []SuperSound
  BY SuperInitSound, SuperInductive, PTL DEF SuperSpec
<1>2. SuperSound => SuperTypeOK
  <2> SUFFICES ASSUME SuperSound PROVE SuperTypeOK
    OBVIOUS
  <2>1. Len(recent_outcomes) <= 3
    BY DEF SuperSound, StreakSound, IsStreak
  <2> QED BY <2>1 DEF SuperSound, SuperTypes, SuperTypeOK
<1>3. SuperSound /\ [SuperNext]_superVars =>
        [halted /\ halted' => /\ proc' # "boot" \/ proc = "boot"
                              /\ proc' # "tick" \/ proc = "tick"]_superVars
  BY HaltStep
<1>4. SuperSound /\ [SuperNext]_superVars =>
        [/\ proc = "tick" /\ streak' >= 3 => stopFile'
         /\ ~halted /\ halted' => \/ streak' >= 3
                                  \/ drift_halt /\ _consecutive_deploy_fails(Redeployed("failed")) >= 3]_superVars
  BY DriftStep
<1>5. SuperSound /\ [SuperNext]_superVars =>
        [\A e \in site : e.art \in {"package", "checkout_link"} => e \in site']_site
  BY HealStep DEF superVars
<1> QED BY <1>1, <1>2, <1>3, <1>4, <1>5, PTL
        DEF SuperSpec, LoopIsGoverned, HaltHolds, DriftIsHalted, HealIsScoped

-----------------------------------------------------------------------------
(* The maintenance.  While epics are listed and read, what was open when    *)
(* the pass began and nobody closed is open; afterwards the sweep itself    *)
(* may have closed epics of it.  What the sweep was shown of the sub-issues  *)
(* still tells that none of those stayed open.                              *)

Snapshots == [listed : SUBSET Issues, open : SUBSET Issues]

SweepsTypes ==
    /\ SweepsTypeOK
    /\ seen \in [Epics -> Snapshots]
    /\ at \in {"read", "act"} => todo \subseteq Epics
    /\ sweepFails \in Nat

EpicsSound ==
    /\ stayedOpen \subseteq opened \cup passClosed
    /\ passClosed \subseteq Epics
    /\ at \in {"list", "read"} => passClosed = {}
    /\ at \in {"read", "act"} =>
          \A e \in Epics : seen[e].open = {} => seen[e].listed \cap stayedOpen = {}
    /\ LiveWorkKept

\* While the store answered, the leased worktrees are among the live ones.
ReapSound ==
    /\ at \in {"markers", "reap"} /\ sweepFails = 0 => leased \subseteq live
    /\ LeasedNeverReaped

SweepsSound == SweepsTypes /\ EpicsSound /\ ReapSound

-----------------------------------------------------------------------------
(* An epic that was not read is in no snapshot.                             *)
LEMMA UnreadIs ==
    ASSUME NEW e \in Epics
    PROVE  Unread(e) \in Snapshots /\ Unread(e).listed = {} /\ Unread(e).open = {e}
  BY DEF Unread, Snapshots, Issues

LEMMA SweepsInitSound == SweepsInit => SweepsSound
<1> SUFFICES ASSUME SweepsInit PROVE SweepsSound
  OBVIOUS
<1>1. SweepsTypes
  <2>1. seen \in [Epics -> Snapshots] /\ \A e \in Epics : seen[e] = Unread(e)
    BY UnreadIs DEF SweepsInit
  <2> QED BY <2>1 DEF SweepsInit, SweepsTypes, SweepsTypeOK, Issues, Branches
<1>2. EpicsSound
  BY DEF SweepsInit, EpicsSound, LiveWorkKept
<1>3. ReapSound
  BY DEF SweepsInit, ReapSound, LeasedNeverReaped
<1> QED BY <1>1, <1>2, <1>3 DEF SweepsSound

(* A step that fails is counted, one that works is not.                     *)
LEMMA CountKeeps ==
    ASSUME sweepFails \in Nat, Works \/ Fails
    PROVE  sweepFails' \in Nat /\ (sweepFails' = 0 => sweepFails = 0 /\ ~Fails)
  BY DEF Works, Fails

(* A step of the pass that only goes on to the next one.                    *)
LEMMA GoesOnKeeps ==
    ASSUME SweepsSound, Works \/ Fails,
           UNCHANGED <<tracker, present, leased, passClosed, stayedOpen, reaped>>,
           at' \in {"between", "heads", "branches", "lookup", "leases", "head", "dirty", "switch",
                   "groom", "restore", "down"},
           todo' \subseteq Issues \cup Worktrees, seen' = seen,
           head' \in Branches, dirty' \in BOOLEAN, raised' \in BOOLEAN
    PROVE  SweepsSound'
<1> USE DEF SweepsSound, tracker
<1>1. SweepsTypes'
  BY CountKeeps DEF SweepsTypes, SweepsTypeOK
<1>2. EpicsSound'
  BY DEF EpicsSound, LiveWorkKept
<1>3. ReapSound'
  BY CountKeeps DEF ReapSound, LeasedNeverReaped, SweepsTypes
<1> QED BY <1>1, <1>2, <1>3

(* Epics: what is closed had no sub-issue that stayed open.                 *)
LEMMA BeginKeeps == ASSUME SweepsSound, BeginMaintenance PROVE SweepsSound'
<1> USE DEF SweepsSound, BeginMaintenance, Goto, Works, tracker, trees, checkout
<1>1. SweepsTypes'
  BY DEF SweepsTypes, SweepsTypeOK
<1>2. EpicsSound'
  BY DEF EpicsSound, LiveWorkKept
<1>3. ReapSound'
  BY DEF ReapSound, LeasedNeverReaped
<1> QED BY <1>1, <1>2, <1>3

LEMMA ListKeeps == ASSUME SweepsSound, ListEpics PROVE SweepsSound'
<1> USE DEF SweepsSound, ListEpics, Goto, tracker, trees, checkout, passed
<1>0. Works \/ Fails
  OBVIOUS
<1>1. /\ seen' \in [Epics -> Snapshots]
      /\ \A e \in Epics : seen'[e] = Unread(e) /\ seen'[e].open # {}
  BY UnreadIs
<1>2. SweepsTypes'
  BY <1>0, <1>1, CountKeeps DEF SweepsTypes, SweepsTypeOK, Issues
<1>3. EpicsSound'
  BY <1>1 DEF EpicsSound, LiveWorkKept
<1>4. ReapSound'
  BY <1>0, CountKeeps DEF ReapSound, LeasedNeverReaped, SweepsTypes
<1> QED BY <1>2, <1>3, <1>4

LEMMA ReadKeeps == ASSUME SweepsSound, sub_issues PROVE SweepsSound'
<1> USE DEF SweepsSound, sub_issues, Goto, tracker, trees, checkout, passed
<1>0. Works \/ Fails
  OBVIOUS
<1>1. CASE UNCHANGED seen
  <2>1. SweepsTypes'
    BY <1>0, <1>1, CountKeeps DEF SweepsTypes, SweepsTypeOK, Issues
  <2>2. EpicsSound'
    BY <1>1 DEF EpicsSound, LiveWorkKept
  <2>3. ReapSound'
    BY <1>0, CountKeeps DEF ReapSound, LeasedNeverReaped, SweepsTypes
  <2> QED BY <2>1, <2>2, <2>3
<1>2. CASE ~UNCHANGED seen
  <2>1. PICK e \in todo : \E shown \in Listings(e) \cup {{}} :
             /\ at = "read" /\ at' = "read" /\ todo' = todo \ {e}
             /\ seen' = [seen EXCEPT ![e] = [listed |-> shown, open |-> OpenSubs(shown)]]
    BY <1>2
  <2>2. PICK shown \in Listings(e) \cup {{}} :
             seen' = [seen EXCEPT ![e] = [listed |-> shown, open |-> OpenSubs(shown)]]
    BY <2>1
  <2> DEFINE read == [listed |-> shown, open |-> OpenSubs(shown)]
  <2>3. e \in Epics /\ seen \in [Epics -> Snapshots] /\ shown \subseteq Subs[e]
    BY <2>1, <2>2 DEF SweepsTypes, Listings
  <2>4. /\ read \in Snapshots /\ read.listed = shown /\ read.open = shown \cap opened
        /\ read.open \subseteq read.listed /\ read.listed \subseteq Subs[e]
    BY <2>3, SweepsAssumption DEF OpenSubs, Snapshots
  <2>5. seen' = [seen EXCEPT ![e] = read]
    BY <2>2
  <2> HIDE DEF read
  <2>6. /\ seen' \in [Epics -> Snapshots] /\ seen'[e] = read
        /\ \A f \in Epics \ {e} : seen'[f] = seen[f]
    BY <2>3, <2>4, <2>5
  <2>7. SweepsTypes'
    BY <1>0, <2>1, <2>3, <2>4, <2>6, CountKeeps DEF SweepsTypes, SweepsTypeOK
  <2>8. EpicsSound'
    <3>1. passClosed = {} /\ stayedOpen \subseteq opened
      BY <2>1 DEF EpicsSound
    <3> QED BY <2>1, <2>3, <2>4, <2>6, <3>1 DEF EpicsSound, LiveWorkKept
  <2>9. ReapSound'
    BY <1>0, <2>1, CountKeeps DEF ReapSound, LeasedNeverReaped, SweepsTypes
  <2> QED BY <2>7, <2>8, <2>9
<1> QED BY <1>1, <1>2

LEMMA CloseKeeps == ASSUME SweepsSound, sweep_epic PROVE SweepsSound'
<1> USE DEF SweepsSound, sweep_epic, Goto, trees, checkout
<1>0. Works \/ Fails
  BY DEF _post_and_close
<1>1. CASE UNCHANGED <<opened, passClosed>>
  <2>1. SweepsTypes'
    BY <1>0, <1>1, CountKeeps DEF SweepsTypes, SweepsTypeOK
  <2>2. EpicsSound'
    BY <1>1 DEF EpicsSound, LiveWorkKept
  <2>3. ReapSound'
    BY <1>0, CountKeeps DEF ReapSound, LeasedNeverReaped, SweepsTypes
  <2> QED BY <2>1, <2>2, <2>3
<1>2. CASE ~UNCHANGED <<opened, passClosed>>
  <2>1. PICK e \in todo : /\ at = "act" /\ at' = "act" /\ todo' = todo \ {e} /\ Works /\ Due(e)
                          /\ opened' = opened \ {e} /\ passClosed' = passClosed \cup ({e} \cap opened)
    BY <1>2 DEF _post_and_close
  <2>2. /\ e \in Epics /\ seen[e].listed \cap stayedOpen = {}
        /\ seen[e].listed = {} => e \in Aged
    BY <2>1 DEF SweepsTypes, EpicsSound, Due
  <2>3. SweepsTypes'
    BY <1>0, <2>1, <2>2, CountKeeps DEF SweepsTypes, SweepsTypeOK
  <2>4. EpicsSound'
    BY <2>1, <2>2 DEF EpicsSound, LiveWorkKept
  <2>5. ReapSound'
    BY <1>0, <2>1, CountKeeps DEF ReapSound, LeasedNeverReaped, SweepsTypes
  <2> QED BY <2>3, <2>4, <2>5
<1> QED BY <1>1, <1>2

(* Branches: one goes only when its issue is closed.                        *)
LEMMA BranchKeeps ==
    ASSUME SweepsSound, sweep_branch
    PROVE  SweepsSound' /\ \A i \in remote \ remote' : i \notin stayedOpen
<1> USE DEF SweepsSound, sweep_branch, Goto, trees, checkout, passed
<1>0. Works \/ Fails
  OBVIOUS
<1>1. remote' \subseteq remote /\ todo' \subseteq Issues \cup Worktrees /\ at' \in {"branches", "lookup"}
  BY DEF SweepsTypes, SweepsTypeOK
<1>2. SweepsTypes'
  BY <1>0, <1>1, CountKeeps DEF SweepsTypes, SweepsTypeOK
<1>3. EpicsSound'
  BY <1>1 DEF EpicsSound, LiveWorkKept
<1>4. ReapSound'
  BY <1>0, <1>1, CountKeeps DEF ReapSound, LeasedNeverReaped, SweepsTypes
<1>5. ASSUME NEW i \in remote \ remote' PROVE i \notin stayedOpen
  <2>1. i \notin opened
    BY <1>5 DEF Deletes
  <2>2. i \notin Epics
    BY <1>5, SweepsAssumption DEF SweepsTypes, SweepsTypeOK
  <2> QED BY <2>1, <2>2 DEF EpicsSound
<1> QED BY <1>2, <1>3, <1>4, <1>5

(* Worktrees: the lookup, the leases and the markers.                       *)
LEMMA LookKeeps ==
    ASSUME SweepsSound, _inflight_worktrees \/ Markers
    PROVE  SweepsSound'
<1> USE DEF SweepsSound, _inflight_worktrees, Markers, tracker, trees, checkout, passed
<1>0. Works \/ Fails
  OBVIOUS
<1>1. SweepsTypes'
  BY <1>0, CountKeeps DEF SweepsTypes, SweepsTypeOK
<1>2. EpicsSound'
  BY DEF EpicsSound, LiveWorkKept
<1>3. ReapSound'
  BY <1>0, CountKeeps DEF ReapSound, LeasedNeverReaped, SweepsTypes
<1> QED BY <1>1, <1>2, <1>3

LEMMA ReapKeeps == ASSUME SweepsSound, _remove_worktree PROVE SweepsSound'
<1> USE DEF SweepsSound, _remove_worktree, Goto, tracker, checkout
<1>0. Works \/ Fails
  OBVIOUS
<1>1. SweepsTypes'
  BY <1>0, CountKeeps DEF SweepsTypes, SweepsTypeOK
<1>2. EpicsSound'
  BY DEF EpicsSound, LiveWorkKept
<1>3. ReapSound'
  <2>1. ASSUME sweepFails' = 0 PROVE sweepFails = 0 /\ leased \subseteq live
    BY <1>0, <2>1, CountKeeps DEF SweepsTypes, ReapSound
  <2>2. ASSUME sweepFails' = 0, NEW r \in reaped' PROVE ~r.leased
    <3>1. CASE r \in reaped
      BY <2>1, <2>2, <3>1 DEF ReapSound, LeasedNeverReaped
    <3>2. CASE r \notin reaped
      <4>1. PICK w \in plan_reap :
                   r = [w |-> w, leased |-> w \in leased, busy |-> now - edited[w] < MIN_AGE]
        BY <2>2, <3>2
      <4>2. w \notin leased
        BY <2>1, <2>2 DEF plan_reap
      <4> QED BY <4>1, <4>2
    <3> QED BY <3>1, <3>2
  <2> QED BY <2>1, <2>2 DEF ReapSound, LeasedNeverReaped
<1> QED BY <1>1, <1>2, <1>3

(* The agent that grooms the backlog, and the sagas of any other tick.      *)
LEMMA GroomKeeps == ASSUME SweepsSound, run_maintenance PROVE SweepsSound'
<1> USE DEF SweepsSound, run_maintenance, Goto, trees, checkout
<1>0. Works \/ Fails
  OBVIOUS
<1>1. opened' \subseteq opened /\ raised' \in BOOLEAN
  BY DEF SweepsTypes, SweepsTypeOK
<1>2. SweepsTypes'
  BY <1>0, <1>1, CountKeeps DEF SweepsTypes, SweepsTypeOK
<1>3. EpicsSound'
  BY DEF EpicsSound, LiveWorkKept
<1>4. ReapSound'
  BY <1>0, CountKeeps DEF ReapSound, LeasedNeverReaped, SweepsTypes
<1> QED BY <1>2, <1>3, <1>4

LEMMA DispatchKeeps == ASSUME SweepsSound, DispatchBody PROVE SweepsSound'
<1> USE DEF SweepsSound, DispatchBody, Goto, tracker, checkout, passed
<1>0. Works \/ Fails
  OBVIOUS
<1>1. leased' \subseteq {w \in Worktrees : root[w] = "task"} /\ raised' \in BOOLEAN
  BY DEF SweepsTypes, SweepsTypeOK
<1>2. SweepsTypes'
  BY <1>0, <1>1, CountKeeps DEF SweepsTypes, SweepsTypeOK
<1>3. EpicsSound'
  BY DEF EpicsSound, LiveWorkKept
<1>4. ReapSound'
  BY <1>0, CountKeeps DEF ReapSound, LeasedNeverReaped, SweepsTypes
<1> QED BY <1>2, <1>3, <1>4

(* People, agents and the clock.                                            *)
LEMMA OthersKeep == ASSUME SweepsSound, Others PROVE SweepsSound'
<1> USE DEF SweepsSound
<1>1. /\ UNCHANGED <<at, todo, seen, live, raised, sweepFails, remote, present, leased, passClosed, reaped>>
      /\ opened' \subseteq Issues /\ head' \in Branches /\ dirty' \in BOOLEAN
      /\ \/ UNCHANGED <<opened, stayedOpen>>
         \/ stayedOpen' = stayedOpen \cap opened'
  BY DEF Others, PeopleTriage, AgentsWork, OperatorWorks, DayPasses, tracker, trees, checkout, passed,
         SweepsTypes, SweepsTypeOK
<1>2. SweepsTypes'
  BY <1>1 DEF SweepsTypes, SweepsTypeOK
<1>3. EpicsSound'
  BY <1>1 DEF EpicsSound, LiveWorkKept
<1>4. ReapSound'
  BY <1>1 DEF ReapSound, LeasedNeverReaped
<1> QED BY <1>2, <1>3, <1>4

\* The other steps of the loop, which only go on to the next.
GoesOn == \/ _list_remote_branches \/ _list_worktrees \/ read_branch \/ _checkout_is_dirty
          \/ _switch_branch \/ restore_base_branch

LEMMA GoesOnIs == ASSUME SweepsSound, GoesOn PROVE SweepsSound'
<1> USE DEF Goto, tracker, trees, checkout, passed, SweepsSound, SweepsTypes, SweepsTypeOK, Branches
<1>1. CASE _list_remote_branches
  BY <1>1, GoesOnKeeps DEF _list_remote_branches, Issues
<1>2. CASE _list_worktrees
  BY <1>2, GoesOnKeeps DEF _list_worktrees
<1>3. CASE read_branch
  BY <1>3, GoesOnKeeps DEF read_branch
<1>4. CASE _checkout_is_dirty
  BY <1>4, GoesOnKeeps DEF _checkout_is_dirty
<1>5. CASE _switch_branch
  BY <1>5, GoesOnKeeps DEF _switch_branch, Checkout
<1>6. CASE restore_base_branch
  BY <1>6, GoesOnKeeps DEF restore_base_branch, Checkout
<1> QED BY <1>1, <1>2, <1>3, <1>4, <1>5, <1>6 DEF GoesOn

LEMMA RestartKeeps == ASSUME SweepsSound, Restarts PROVE SweepsSound'
  BY GoesOnKeeps DEF Restarts, Goto, tracker, trees, checkout, passed, Works,
     SweepsSound, SweepsTypes, SweepsTypeOK

LEMMA SweepsInductive == SweepsSound /\ [SweepsNext]_sweepVars => SweepsSound'
<1> SUFFICES ASSUME SweepsSound, [SweepsNext]_sweepVars PROVE SweepsSound'
  OBVIOUS
<1>1. CASE UNCHANGED sweepVars
  BY <1>1 DEF sweepVars, SweepsSound, SweepsTypes, SweepsTypeOK, EpicsSound, LiveWorkKept, ReapSound,
              LeasedNeverReaped
<1>2. CASE GoesOn \/ Restarts
  BY <1>2, GoesOnIs, RestartKeeps
<1>3. CASE BeginMaintenance \/ ListEpics \/ sub_issues \/ sweep_epic \/ sweep_branch
  BY <1>3, BeginKeeps, ListKeeps, ReadKeeps, CloseKeeps, BranchKeeps
<1>4. CASE _inflight_worktrees \/ Markers \/ _remove_worktree \/ run_maintenance \/ DispatchBody \/ Others
  BY <1>4, LookKeeps, ReapKeeps, GroomKeeps, DispatchKeeps, OthersKeep
<1> QED BY <1>1, <1>2, <1>3, <1>4 DEF SweepsNext, TheLoop, GoesOn

\* Only the sweep of the branches deletes one.
LEMMA BranchStep ==
    ASSUME SweepsSound, SweepsNext
    PROVE  \A i \in remote \ remote' : i \notin stayedOpen
<1>1. CASE sweep_branch
  BY <1>1, BranchKeeps
<1>2. CASE ~sweep_branch
  <2>1. remote' = remote
    BY <1>2 DEF SweepsNext, TheLoop, DispatchBody, Others, BeginMaintenance, ListEpics, sub_issues,
         sweep_epic, _list_remote_branches, _list_worktrees, _inflight_worktrees, Markers,
         _remove_worktree, read_branch, _checkout_is_dirty, _switch_branch, run_maintenance,
         restore_base_branch, Restarts, PeopleTriage, AgentsWork, OperatorWorks, DayPasses, tracker
  <2> QED BY <2>1
<1> QED BY <1>1, <1>2

(* No epic is closed over a sub-issue it was shown to have and that stayed   *)
(* open, none that is not old without any, no branch of an                   *)
(* open issue is deleted, and while every probe answers no worktree of a    *)
(* leased saga is removed, whatever people, agents and the clock do between *)
(* the readings and the writings and whichever of them fails.               *)
THEOREM SweepsAreSafe == SweepsSpec => SweepsTakeWhatIsDone
<1>1. SweepsSpec => []SweepsSound
  BY SweepsInitSound, SweepsInductive, PTL DEF SweepsSpec
<1>2. SweepsSound => SweepsTypeOK /\ LiveWorkKept /\ LeasedNeverReaped
  BY DEF SweepsSound, SweepsTypes, EpicsSound, ReapSound
<1>3. SweepsSound /\ [SweepsNext]_sweepVars =>
        [\A i \in remote \ remote' : i \notin stayedOpen]_sweepVars
  BY BranchStep
<1> QED BY <1>1, <1>2, <1>3, PTL DEF SweepsSpec, SweepsTakeWhatIsDone, OpenKeepsBranch

-----------------------------------------------------------------------------
(* The asynchronous runner: the issues of a tick, wherever they are.        *)

(* Queues whose items are of different issues.                              *)
ItemRecord == [issue : Ready, status : {"", "open", "merged"}]
OnceIn(q) == \A j, k \in 1..Len(q) : q[j].issue = q[k].issue => j = k

LEMMA ItemIs == ASSUME NEW i \in Ready, NEW status \in {"", "open", "merged"}
                PROVE  Item(i, status) \in ItemRecord /\ Item(i, status).issue = i
BY DEF Item, ItemRecord

LEMMA Members == ASSUME NEW q \in Seq(ItemRecord)
                 PROVE  \A i : i \in IssuesOf(q) <=> \E k \in 1..Len(q) : q[k].issue = i
BY LenProperties DEF IssuesOf

LEMMA TailQueue ==
    ASSUME NEW q \in Seq(ItemRecord), q # <<>>, OnceIn(q)
    PROVE  /\ Tail(q) \in Seq(ItemRecord) /\ OnceIn(Tail(q)) /\ Len(Tail(q)) = Len(q) - 1
           /\ Head(q) \in ItemRecord /\ Head(q).issue \in IssuesOf(q) /\ Len(q) \in Nat /\ Len(q) >= 1
           /\ Head(q) = q[1] /\ \A k \in 1..(Len(q) - 1) : Tail(q)[k] = q[k + 1]
           /\ \A i : i \in IssuesOf(Tail(q)) <=> i \in IssuesOf(q) /\ i # Head(q).issue
<1>1. PICK n : n = Len(q)
  OBVIOUS
<1>2. n \in Nat /\ n # 0 /\ Head(q) = q[1]
  BY <1>1
<1>3. /\ Head(q) \in ItemRecord /\ Tail(q) \in Seq(ItemRecord)
      /\ Len(Tail(q)) = n - 1 /\ \A k \in 1..(n - 1) : Tail(q)[k] = q[k + 1]
  BY <1>1, HeadTailProperties
<1>4. OnceIn(Tail(q))
  <2> SUFFICES ASSUME NEW j \in 1..(n - 1), NEW k \in 1..(n - 1), Tail(q)[j].issue = Tail(q)[k].issue
               PROVE  j = k
    BY <1>3 DEF OnceIn
  <2>1. q[j + 1].issue = q[k + 1].issue /\ j + 1 \in 1..n /\ k + 1 \in 1..n
    BY <1>2, <1>3
  <2>2. j + 1 = k + 1
    BY <1>1, <2>1 DEF OnceIn
  <2> QED BY <2>2
<1>5. Head(q).issue \in IssuesOf(q)
  BY <1>1, <1>2, Members
<1>9. \A i : i \in IssuesOf(Tail(q)) <=> \E k \in 1..(n - 1) : Tail(q)[k].issue = i
  BY <1>3, LenProperties DEF IssuesOf
<1>6. ASSUME NEW i \in IssuesOf(Tail(q)) PROVE i \in IssuesOf(q) /\ i # Head(q).issue
  <2>1. PICK k \in 1..(n - 1) : Tail(q)[k].issue = i
    BY <1>9
  <2>2. k + 1 \in 1..n /\ 1 \in 1..n /\ k + 1 # 1 /\ q[k + 1].issue = i
    BY <1>2, <1>3, <2>1
  <2>3. i # q[1].issue
    BY <1>1, <2>2 DEF OnceIn
  <2> QED BY <1>1, <1>2, <2>2, <2>3, Members
<1>7. ASSUME NEW i \in IssuesOf(q), i # Head(q).issue PROVE i \in IssuesOf(Tail(q))
  <2>1. PICK k \in 1..n : q[k].issue = i
    BY <1>1, Members
  <2>2. k # 1
    BY <1>2, <1>7, <2>1
  <2>3. k - 1 \in 1..(n - 1) /\ Tail(q)[k - 1] = q[k]
    BY <1>2, <1>3, <2>1, <2>2
  <2> QED BY <1>9, <2>1, <2>3
<1>8. Len(q) \in Nat /\ Len(q) >= 1
  BY <1>1, <1>2
<1> QED BY <1>1, <1>2, <1>3, <1>4, <1>5, <1>6, <1>7, <1>8

LEMMA AppendQueue ==
    ASSUME NEW q \in Seq(ItemRecord), OnceIn(q), NEW item \in ItemRecord, item.issue \notin IssuesOf(q)
    PROVE  /\ Append(q, item) \in Seq(ItemRecord) /\ OnceIn(Append(q, item))
           /\ Len(q) \in Nat /\ Len(Append(q, item)) = Len(q) + 1
           /\ \A k \in 1..Len(q) : Append(q, item)[k] = q[k]
           /\ Append(q, item)[Len(q) + 1] = item
           /\ \A i : i \in IssuesOf(Append(q, item)) <=> i \in IssuesOf(q) \/ i = item.issue
<1>1. PICK n : n = Len(q)
  OBVIOUS
<1>2. PICK b : b = Append(q, item)
  OBVIOUS
<1>3. n \in Nat
  BY <1>1
<1>4. /\ b \in Seq(ItemRecord) /\ Len(b) = n + 1
      /\ \A k \in 1..n : b[k] = q[k]
      /\ b[n + 1] = item
  BY <1>1, <1>2, AppendProperties
<1>5. \A k \in 1..n : q[k].issue # item.issue
  BY <1>1, Members
<1>6. OnceIn(b)
  <2> SUFFICES ASSUME NEW j \in 1..(n + 1), NEW k \in 1..(n + 1), b[j].issue = b[k].issue PROVE j = k
    BY <1>4 DEF OnceIn
  <2>1. CASE j \in 1..n /\ k \in 1..n
    BY <1>1, <1>4, <2>1 DEF OnceIn
  <2>2. CASE j \in 1..n /\ k = n + 1
    BY <1>4, <1>5, <2>2
  <2>3. CASE j = n + 1 /\ k \in 1..n
    BY <1>4, <1>5, <2>3
  <2>4. (j \in 1..n \/ j = n + 1) /\ (k \in 1..n \/ k = n + 1)
    BY <1>3
  <2> QED BY <2>1, <2>2, <2>3, <2>4
<1>7. ASSUME NEW i \in IssuesOf(b) PROVE i \in IssuesOf(q) \/ i = item.issue
  <2>1. PICK k \in 1..(n + 1) : b[k].issue = i
    BY <1>4, Members
  <2>2. CASE k \in 1..n
    BY <1>1, <1>4, <2>1, <2>2, Members
  <2>3. CASE k = n + 1
    BY <1>4, <2>1, <2>3
  <2> QED BY <1>3, <2>1, <2>2, <2>3
<1>8. ASSUME NEW i \in IssuesOf(q) PROVE i \in IssuesOf(b)
  <2>1. PICK k \in 1..n : q[k].issue = i
    BY <1>1, Members
  <2>2. k \in 1..(n + 1) /\ b[k].issue = i
    BY <1>3, <1>4, <2>1
  <2> QED BY <1>4, <2>2, Members
<1>9. item.issue \in IssuesOf(b)
  <2>1. n + 1 \in 1..(n + 1)
    BY <1>3
  <2> QED BY <1>4, <2>1, Members
<1>10. \A i : i \in IssuesOf(b) <=> i \in IssuesOf(q) \/ i = item.issue
  BY <1>7, <1>8, <1>9
<1> QED BY <1>1, <1>2, <1>3, <1>4, <1>6, <1>10

(* The oldest makes room for an item of another issue.                      *)
LEMMA PutQueue ==
    ASSUME NEW q \in Seq(ItemRecord), OnceIn(q), NEW item \in ItemRecord, item.issue \notin IssuesOf(q),
           NEW n \in Int
    PROVE  /\ Put(q, item) \in Seq(ItemRecord) /\ OnceIn(Put(q, item))
           /\ Len(q) \in Nat /\ Len(Put(q, item)) \in Nat
           /\ PendingAfterPut(n, q) = n + (Len(Put(q, item)) - Len(q))
           /\ \A i : i \in Dropped(q) => i \in IssuesOf(q)
           /\ \A i : i \in IssuesOf(Put(q, item)) <=> (i \in IssuesOf(q) /\ i \notin Dropped(q)) \/ i = item.issue
<1>1. CASE Len(q) < QueueCap
  <2>1. Put(q, item) = Append(q, item) /\ Dropped(q) = {} /\ PendingAfterPut(n, q) = n + 1
    BY <1>1 DEF Put, Dropped, PendingAfterPut
  <2>2. /\ Append(q, item) \in Seq(ItemRecord) /\ OnceIn(Append(q, item))
        /\ Len(q) \in Nat /\ Len(Append(q, item)) = Len(q) + 1
        /\ \A i : i \in IssuesOf(Append(q, item)) <=> i \in IssuesOf(q) \/ i = item.issue
    BY AppendQueue
  <2> QED BY <2>1, <2>2
<1>2. CASE ~(Len(q) < QueueCap)
  <2>1. Put(q, item) = Append(Tail(q), item) /\ Dropped(q) = {Head(q).issue} /\ PendingAfterPut(n, q) = n
    BY <1>2 DEF Put, Dropped, PendingAfterPut
  <2>2. q # <<>>
    BY <1>2, AsyncAssumption
  <2>3. /\ Tail(q) \in Seq(ItemRecord) /\ OnceIn(Tail(q)) /\ Len(Tail(q)) = Len(q) - 1 /\ Len(q) \in Nat
        /\ Head(q).issue \in IssuesOf(q)
        /\ \A i : i \in IssuesOf(Tail(q)) <=> i \in IssuesOf(q) /\ i # Head(q).issue
    BY <2>2, TailQueue
  <2>4. item.issue \notin IssuesOf(Tail(q))
    BY <2>3
  <2>5. /\ Append(Tail(q), item) \in Seq(ItemRecord) /\ OnceIn(Append(Tail(q), item))
        /\ Len(Append(Tail(q), item)) = Len(Tail(q)) + 1
        /\ \A i : i \in IssuesOf(Append(Tail(q), item)) <=> i \in IssuesOf(Tail(q)) \/ i = item.issue
    BY <2>3, <2>4, AppendQueue
  <2>6. Len(Put(q, item)) = Len(q)
    BY <2>1, <2>3, <2>5
  <2> QED BY <2>1, <2>3, <2>5, <2>6
<1> QED BY <1>1, <1>2

-----------------------------------------------------------------------------
(* Where every issue of the batch is.                                       *)

SlotRecord == [st : {"off", "idle", "busy", "dead"}, item : ItemRecord \cup {NoItem}]

InWork == {slot[s].item.issue : s \in {t \in Slots : slot[t].st = "busy"}}
Resulted == {r.issue : r \in results}
Lost == overflowed \cup perished

SlotsSound ==
    /\ slot \in [Slots -> SlotRecord]
    /\ \A s \in Slots : slot[s].st = "busy" => slot[s].item \in ItemRecord
    /\ \A s, t \in Slots : /\ slot[s].st = "busy" /\ slot[t].st = "busy"
                           /\ slot[s].item.issue = slot[t].item.issue
                           => s = t

QueuesSound ==
    /\ fresh \in Seq(ItemRecord) /\ OnceIn(fresh)
    /\ po_ready \in Seq(ItemRecord) /\ OnceIn(po_ready)
    /\ pr_pending_critic \in Seq(ItemRecord) /\ OnceIn(pr_pending_critic)

\* What join waits for.
Counted ==
    /\ unfinished \in [Queues -> Int]
    /\ unfinished["fresh"] = Len(fresh) + Cardinality(Held("fresh"))
    /\ unfinished["po_ready"] = Len(po_ready) + Cardinality(Held("po_ready"))
    /\ unfinished["pr_pending_critic"] = Len(pr_pending_critic) + Cardinality(Held("pr_pending_critic"))

Modes == {"main", "select", "submit", "drain_fresh", "drain_po", "drain_critic", "finish", "closing", "stopped"}

\* What a phase has waited for stays done, and between ticks there is nothing.
PhaseSound ==
    /\ mode \in Modes
    /\ mode \in {"drain_fresh", "drain_po", "drain_critic", "finish"} => submitting = <<>>
    /\ mode \in {"drain_po", "drain_critic", "finish"} => unfinished["fresh"] = 0
    /\ mode \in {"drain_critic", "finish"} => unfinished["po_ready"] = 0
    /\ mode = "finish" => unfinished["pr_pending_critic"] = 0
    /\ mode \in {"main", "select", "closing", "stopped"} =>
          /\ batch = <<>> /\ submitting = <<>> /\ fresh = <<>> /\ po_ready = <<>> /\ pr_pending_critic = <<>>
          /\ slot = Off /\ unfinished = [q \in Queues |-> 0]
          /\ results = {} /\ overflowed = {} /\ perished = {}

\* The batch is what is behind the first queue, what is in it, what is to come.
InLine(p, q) ==
    /\ p \in Nat /\ q \in Nat /\ p <= q /\ q <= Len(batch)
    /\ Len(fresh) = q - p /\ \A k \in 1..(q - p) : fresh[k].issue = batch[p + k]
    /\ Len(submitting) = Len(batch) - q /\ \A k \in 1..(Len(batch) - q) : submitting[k] = batch[q + k]

Behind(p) == {batch[k] : k \in 1..p}

\* Each of B is in one of the sets.
Spread(B, P, C, D, R, L) ==
    /\ \A i : i \in B <=> i \in P \/ i \in C \/ i \in D \/ i \in R \/ i \in L
    /\ \A i \in P : i \notin C /\ i \notin D /\ i \notin R /\ i \notin L
    /\ \A i \in C : i \notin D /\ i \notin R /\ i \notin L
    /\ \A i \in D : i \notin R /\ i \notin L
    /\ \A i \in R : i \notin L

Placed(p) == Spread(Behind(p), IssuesOf(po_ready), IssuesOf(pr_pending_critic), InWork, Resulted, Lost)

BatchSound ==
    /\ batch \in Seq(Ready) /\ submitting \in Seq(Ready)
    /\ \A j, k \in 1..Len(batch) : batch[j] = batch[k] => j = k

ResultsOnce == \A r, x \in results : r.issue = x.issue => r = x

AsyncSound ==
    /\ SlotsSound /\ QueuesSound /\ Counted /\ PhaseSound /\ BatchSound /\ ResultsOnce
    /\ \E p, q \in Nat : InLine(p, q) /\ Placed(p)

LEMMA WorkIs == \A i : i \in InWork <=> \E s \in Slots : slot[s].st = "busy" /\ slot[s].item.issue = i
BY DEF InWork

LEMMA QueueOfIs ==
    /\ \A s \in PoSlots : QueueOf(s) = "fresh"
    /\ \A s \in WorkerSlots : QueueOf(s) = "po_ready"
    /\ \A s \in CriticSlots : QueueOf(s) = "pr_pending_critic"
    /\ \A s \in Slots : QueueOf(s) \in Queues
BY AsyncAssumption DEF QueueOf, Queues, Slots

LEMMA HeldFinite == ASSUME NEW q PROVE IsFiniteSet(Held(q)) /\ Cardinality(Held(q)) \in Nat
<1>1. Held(q) \in SUBSET Slots
  BY DEF Held
<1> QED BY <1>1, AsyncAssumption, FS_Subset, FS_CardinalityType

LEMMA SlotTakes ==
    ASSUME SlotsSound, NEW s \in Slots, slot[s].st = "idle", NEW item \in ItemRecord, item.issue \notin InWork,
           slot' = [slot EXCEPT ![s] = [st |-> "busy", item |-> item]]
    PROVE  /\ SlotsSound'
           /\ \A i : i \in InWork' <=> i \in InWork \/ i = item.issue
           /\ Cardinality(Held(QueueOf(s)))' = Cardinality(Held(QueueOf(s))) + 1
           /\ \A q : q # QueueOf(s) => Held(q)' = Held(q)
<1>1. [st |-> "busy", item |-> item] \in SlotRecord
  BY DEF SlotRecord
<1>2. slot' \in [Slots -> SlotRecord] /\ slot'[s] = [st |-> "busy", item |-> item]
      /\ \A t \in Slots : t # s => slot'[t] = slot[t]
  BY <1>1 DEF SlotsSound
<1>3. \A t \in Slots : slot[t].st = "busy" => slot[t].item.issue # item.issue
  BY WorkIs
<1>4. SlotsSound'
  BY <1>2, <1>3 DEF SlotsSound
<1>5. \A i : i \in InWork' <=> \E t \in Slots : slot'[t].st = "busy" /\ slot'[t].item.issue = i
  BY DEF InWork
<1>6. \A i : i \in InWork' <=> i \in InWork \/ i = item.issue
  BY <1>2, <1>5, WorkIs
<1>7. Held(QueueOf(s))' = Held(QueueOf(s)) \cup {s} /\ s \notin Held(QueueOf(s))
  BY <1>2 DEF Held, QueueOf
<1>8. Cardinality(Held(QueueOf(s)) \cup {s}) = Cardinality(Held(QueueOf(s))) + 1
  BY <1>7, HeldFinite, FS_AddElement
<1>9. \A q : q # QueueOf(s) => Held(q)' = Held(q)
  BY <1>2 DEF Held, QueueOf
<1> QED BY <1>4, <1>6, <1>7, <1>8, <1>9

LEMMA SlotLeaves ==
    ASSUME SlotsSound, NEW s \in Slots, slot[s].st = "busy", NEW st \in {"idle", "dead"},
           slot' = [slot EXCEPT ![s] = [st |-> st, item |-> NoItem]]
    PROVE  /\ SlotsSound'
           /\ slot[s].item \in ItemRecord /\ slot[s].item.issue \in InWork
           /\ \A i : i \in InWork' <=> i \in InWork /\ i # slot[s].item.issue
           /\ Cardinality(Held(QueueOf(s)))' = Cardinality(Held(QueueOf(s))) - 1
           /\ Cardinality(Held(QueueOf(s))) >= 1
           /\ \A q : q # QueueOf(s) => Held(q)' = Held(q)
<1>1. [st |-> st, item |-> NoItem] \in SlotRecord
  BY DEF SlotRecord
<1>2. slot' \in [Slots -> SlotRecord] /\ slot'[s] = [st |-> st, item |-> NoItem]
      /\ \A t \in Slots : t # s => slot'[t] = slot[t]
  BY <1>1 DEF SlotsSound
<1>3. slot[s].item \in ItemRecord /\ slot[s].item.issue \in InWork
  BY WorkIs DEF SlotsSound
<1>4. SlotsSound'
  BY <1>2 DEF SlotsSound
<1>5. \A i : i \in InWork' <=> \E t \in Slots : slot'[t].st = "busy" /\ slot'[t].item.issue = i
  BY DEF InWork
<1>6. \A i : i \in InWork' <=> i \in InWork /\ i # slot[s].item.issue
  <2>1. ASSUME NEW i \in InWork' PROVE i \in InWork /\ i # slot[s].item.issue
    <3>1. PICK t \in Slots : slot'[t].st = "busy" /\ slot'[t].item.issue = i
      BY <1>5
    <3>2. t # s /\ slot[t].st = "busy" /\ slot[t].item.issue = i
      BY <1>2, <3>1
    <3> QED BY <3>2, WorkIs DEF SlotsSound
  <2>2. ASSUME NEW i \in InWork, i # slot[s].item.issue PROVE i \in InWork'
    <3>1. PICK t \in Slots : slot[t].st = "busy" /\ slot[t].item.issue = i
      BY WorkIs
    <3>2. t # s
      BY <2>2, <3>1
    <3> QED BY <1>2, <1>5, <3>1, <3>2
  <2> QED BY <2>1, <2>2
<1>7. Held(QueueOf(s))' = Held(QueueOf(s)) \ {s} /\ s \in Held(QueueOf(s))
  BY <1>2 DEF Held, QueueOf
<1>8. Cardinality(Held(QueueOf(s)) \ {s}) = Cardinality(Held(QueueOf(s))) - 1
  BY <1>7, HeldFinite, FS_RemoveElement
<1>9. Cardinality(Held(QueueOf(s))) >= 1
  <2>1. Cardinality(Held(QueueOf(s))) \in Nat /\ Cardinality(Held(QueueOf(s))) # 0
    BY <1>7, HeldFinite, FS_EmptySet
  <2> QED BY <2>1
<1>10. \A q : q # QueueOf(s) => Held(q)' = Held(q)
  BY <1>2 DEF Held, QueueOf
<1> QED BY <1>3, <1>4, <1>6, <1>7, <1>8, <1>9, <1>10

-----------------------------------------------------------------------------
(* The steps of the loop.                                                   *)

LEMMA BehindIs == ASSUME NEW p PROVE \A i : i \in Behind(p) <=> \E k \in 1..p : batch[k] = i
BY DEF Behind

LEMMA BehindNext == ASSUME NEW p \in Nat PROVE \A i : i \in Behind(p + 1) <=> i \in Behind(p) \/ i = batch[p + 1]
<1>1. \A k : k \in 1..(p + 1) <=> k \in 1..p \/ k = p + 1
  OBVIOUS
<1>2. \A i : i \in Behind(p + 1) <=> \E k \in 1..(p + 1) : batch[k] = i
  BY DEF Behind
<1> QED BY <1>1, <1>2, BehindIs

LEMMA BehindNew == ASSUME BatchSound, NEW p \in Nat, p + 1 <= Len(batch)
                   PROVE  batch[p + 1] \notin Behind(p) /\ batch[p + 1] \in Ready
<1>1. PICK n : n = Len(batch)
  OBVIOUS
<1>2. n \in Nat
  BY <1>1 DEF BatchSound
<1>3. p + 1 \in 1..n /\ batch[p + 1] \in Ready
  BY <1>1, <1>2, ElementOfSeq DEF BatchSound
<1>4. \A k \in 1..p : k \in 1..n /\ k # p + 1
  BY <1>1, <1>2
<1> QED BY <1>1, <1>3, <1>4, BehindIs DEF BatchSound

\* What depends on nothing but these.
Tracked == <<mode, entry, queues, slot, results, overflowed, perished>>

LEMMA UntouchedKeeps == ASSUME AsyncSound, UNCHANGED Tracked PROVE AsyncSound'
<1>1. /\ mode' = mode /\ batch' = batch /\ submitting' = submitting /\ fresh' = fresh /\ po_ready' = po_ready
      /\ pr_pending_critic' = pr_pending_critic /\ unfinished' = unfinished /\ slot' = slot
      /\ results' = results
      /\ overflowed' = overflowed /\ perished' = perished
  BY DEF Tracked, entry, queues
<1>2. \A q : Held(q)' = Held(q)
  BY <1>1 DEF Held, QueueOf
<1>3. Counted' /\ SlotsSound' /\ QueuesSound' /\ PhaseSound' /\ BatchSound' /\ ResultsOnce'
  <2>1. Counted'
    BY <1>1, <1>2 DEF AsyncSound, Counted
  <2>2. SlotsSound' /\ QueuesSound'
    BY <1>1 DEF AsyncSound, SlotsSound, QueuesSound, OnceIn
  <2>3. PhaseSound'
    BY <1>1 DEF AsyncSound, PhaseSound, Off
  <2>4. BatchSound' /\ ResultsOnce'
    BY <1>1 DEF AsyncSound, BatchSound, ResultsOnce
  <2> QED BY <2>1, <2>2, <2>3, <2>4
<1>4. PICK p, q \in Nat : InLine(p, q) /\ Placed(p)
  BY DEF AsyncSound
<1>5. InLine(p, q)' /\ Placed(p)'
  BY <1>1, <1>4 DEF InLine, Placed, Behind, IssuesOf, InWork, Resulted, Lost
<1> QED BY <1>3, <1>5 DEF AsyncSound

\* Nothing is under way.
AtRest ==
    /\ batch = <<>> /\ submitting = <<>> /\ fresh = <<>> /\ po_ready = <<>> /\ pr_pending_critic = <<>>
    /\ unfinished = [q \in Queues |-> 0] /\ results = {} /\ overflowed = {} /\ perished = {}

LEMMA NothingInLine ==
    ASSUME fresh = <<>>, po_ready = <<>>, pr_pending_critic = <<>>, unfinished = [q \in Queues |-> 0],
           results = {}, overflowed = {}, perished = {}, InWork = {}, \A q : Held(q) = {}
    PROVE  QueuesSound /\ Counted /\ ResultsOnce /\ Placed(0)
<1>1. <<>> \in Seq(ItemRecord) /\ Len(<<>>) = 0
  OBVIOUS
<1>2. QueuesSound
  BY <1>1 DEF QueuesSound, OnceIn
<1>3. Counted
  <2>1. Cardinality({}) = 0
    BY FS_EmptySet
  <2>2. /\ Cardinality(Held("fresh")) = 0 /\ Cardinality(Held("po_ready")) = 0
        /\ Cardinality(Held("pr_pending_critic")) = 0
    BY <2>1
  <2>3. /\ unfinished \in [Queues -> Int] /\ unfinished["fresh"] = 0
        /\ unfinished["po_ready"] = 0 /\ unfinished["pr_pending_critic"] = 0
    BY DEF Queues
  <2> QED BY <1>1, <2>2, <2>3 DEF Counted
<1>4. ResultsOnce
  BY DEF ResultsOnce
<1>5. /\ Behind(0) = {} /\ IssuesOf(po_ready) = {} /\ IssuesOf(pr_pending_critic) = {} /\ Resulted = {}
      /\ Lost = {}
  BY <1>1 DEF Behind, IssuesOf, Resulted, Lost
<1>6. Placed(0)
  BY <1>5 DEF Placed, Spread
<1> QED BY <1>2, <1>3, <1>4, <1>6

LEMMA OffIsIdle ==
    ASSUME slot = Off \/ slot = [s \in Slots |-> IdleSlot]
    PROVE  SlotsSound /\ InWork = {} /\ \A q : Held(q) = {}
<1>1. IdleSlot \in SlotRecord /\ [st |-> "off", item |-> NoItem] \in SlotRecord
  BY DEF IdleSlot, SlotRecord
<1>2. slot \in [Slots -> SlotRecord] /\ \A s \in Slots : slot[s].st # "busy"
  BY <1>1 DEF Off, IdleSlot
<1> QED BY <1>2 DEF SlotsSound, InWork, Held

LEMMA AtRestSound ==
    ASSUME AtRest, slot = Off, mode \in {"main", "select", "closing", "stopped"}
    PROVE  AsyncSound
<1>1. SlotsSound /\ QueuesSound /\ Counted /\ ResultsOnce /\ Placed(0)
  BY OffIsIdle, NothingInLine DEF AtRest
<1>2. PhaseSound
  BY DEF PhaseSound, AtRest, Modes
<1>3. BatchSound /\ InLine(0, 0)
  BY DEF BatchSound, InLine, AtRest
<1> QED BY <1>1, <1>2, <1>3 DEF AsyncSound

LEMMA AsyncInitSound == ASSUME AsyncInit PROVE AsyncSound
BY AtRestSound DEF AsyncInit, AtRest

LEMMA ClearedKeeps == ASSUME Cleared, mode' \in {"main", "closing"} PROVE AsyncSound'
<1>1. AtRest' /\ slot' = Off
  BY DEF Cleared, AtRest
<1>2. ASSUME AtRest', (slot = Off)', (mode \in {"main", "select", "closing", "stopped"})' PROVE AsyncSound'
  BY <1>2, AtRestSound, PTL
<1>3. (slot = Off)'
  BY <1>1 DEF Off
<1> QED BY <1>1, <1>2, <1>3

LEMMA BatchIs ==
    ASSUME NEW b \in Batches
    PROVE  b \in Seq(Ready) /\ \A j, k \in 1..Len(b) : b[j] = b[k] => j = k
<1>1. PICK n \in 1..Parallel : b \in [1..n -> Ready]
  BY DEF Batches
<1>2. n \in Nat /\ b \in Seq(Ready) /\ Len(b) = n /\ DOMAIN b = 1..n
  BY <1>1, AsyncAssumption
<1>3. \A j, k \in 1..n : j < k => b[j] < b[k]
  BY <1>2 DEF Batches
<1>4. \A j \in 1..n : b[j] \in Nat
  BY <1>1, AsyncAssumption
<1>5. ASSUME NEW j \in 1..n, NEW k \in 1..n, b[j] = b[k] PROVE j = k
  <2>1. ~(j < k) /\ ~(k < j)
    BY <1>3, <1>4, <1>5
  <2> QED BY <1>2, <2>1
<1> QED BY <1>2, <1>5

LEMMA StartKeeps == ASSUME AsyncSound, RunAsyncTick PROVE AsyncSound'
<1>1. PhaseSound /\ mode = "select"
  BY DEF AsyncSound, RunAsyncTick
<1>2. AtRest /\ slot = Off
  BY <1>1 DEF PhaseSound, AtRest
<1>3. /\ fresh' = <<>> /\ po_ready' = <<>> /\ pr_pending_critic' = <<>>
      /\ unfinished' = [q \in Queues |-> 0] /\ results' = {} /\ overflowed' = {} /\ perished' = {}
  BY <1>2 DEF RunAsyncTick, AtRest, queues
<1>4. CASE mode' = "main" /\ UNCHANGED <<entry, slot>>
  <2>1. AtRest' /\ slot' = Off' /\ mode' \in {"main", "closing"}
    BY <1>2, <1>3, <1>4 DEF AtRest, entry, Off
  <2>2. ASSUME AtRest', (slot = Off)', (mode \in {"main", "select", "closing", "stopped"})' PROVE AsyncSound'
    BY <2>2, AtRestSound, PTL
  <2> QED BY <2>1, <2>2
<1>5. CASE /\ mode' = "submit" /\ batch' \in Batches /\ submitting' = batch'
           /\ slot' = [s \in Slots |-> IdleSlot]
  <2>0. ASSUME (slot = Off \/ slot = [s \in Slots |-> IdleSlot])'
        PROVE  (SlotsSound /\ InWork = {} /\ \A q : Held(q) = {})'
    BY <2>0, OffIsIdle, PTL
  <2>1. SlotsSound' /\ InWork' = {} /\ \A q : Held(q)' = {}
    BY <1>5, <2>0
  <2>11. ASSUME (fresh = <<>>)', (po_ready = <<>>)', (pr_pending_critic = <<>>)',
                (unfinished = [q \in Queues |-> 0])', (results = {})', (overflowed = {})', (perished = {})',
                (InWork = {})', (\A q : Held(q) = {})'
         PROVE  (QueuesSound /\ Counted /\ ResultsOnce /\ Placed(0))'
    BY <2>11, NothingInLine, PTL
  <2>2. QueuesSound' /\ Counted' /\ ResultsOnce' /\ Placed(0)'
    BY <1>3, <2>1, <2>11
  <2>3. BatchSound'
    BY <1>5, BatchIs DEF BatchSound
  <2>4. PhaseSound'
    BY <1>5 DEF PhaseSound, Modes
  <2>5. InLine(0, 0)'
    <3>1. Len(batch') \in Nat
      BY <2>3 DEF BatchSound
    <3> QED BY <1>3, <1>5, <3>1 DEF InLine
  <2> QED BY <2>1, <2>2, <2>3, <2>4, <2>5 DEF AsyncSound
<1> QED BY <1>4, <1>5 DEF RunAsyncTick, entry

LEMMA JoinKeeps == ASSUME AsyncSound, drain PROVE AsyncSound'
<1>1. /\ batch' = batch /\ submitting' = submitting /\ fresh' = fresh /\ po_ready' = po_ready
      /\ pr_pending_critic' = pr_pending_critic /\ unfinished' = unfinished /\ slot' = slot
      /\ results' = results
      /\ overflowed' = overflowed /\ perished' = perished
  BY DEF drain, entry, queues
<1>2. \A q : Held(q)' = Held(q)
  BY <1>1 DEF Held, QueueOf
<1>3. Counted' /\ SlotsSound' /\ QueuesSound' /\ BatchSound' /\ ResultsOnce'
  BY <1>1, <1>2 DEF AsyncSound, Counted, SlotsSound, QueuesSound, BatchSound, ResultsOnce, OnceIn
<1>4. PhaseSound'
  BY <1>1 DEF AsyncSound, PhaseSound, Modes, drain, Join
<1>5. PICK p, q \in Nat : InLine(p, q) /\ Placed(p)
  BY DEF AsyncSound
<1>6. InLine(p, q)' /\ Placed(p)'
  BY <1>1, <1>5 DEF InLine, Placed, Behind, IssuesOf, InWork, Resulted, Lost
<1> QED BY <1>3, <1>4, <1>6 DEF AsyncSound

(* What is in the first queue, or comes into it, is in no place behind.     *)
LEMMA AheadIsElsewhere ==
    ASSUME BatchSound, NEW p \in Nat, Placed(p), p + 1 <= Len(batch)
    PROVE  LET i == batch[p + 1]
           IN  /\ i \in Ready
               /\ i \notin IssuesOf(po_ready) /\ i \notin IssuesOf(pr_pending_critic)
               /\ i \notin InWork /\ i \notin Resulted /\ i \notin Lost
BY BehindNew DEF Placed, Spread

LEMMA SubmitKeeps == ASSUME AsyncSound, submit_many PROVE AsyncSound'
<1>1. /\ batch' = batch /\ po_ready' = po_ready /\ pr_pending_critic' = pr_pending_critic
      /\ slot' = slot /\ results' = results /\ perished' = perished
  BY DEF submit_many
<1>2. \A q : Held(q)' = Held(q)
  BY <1>1 DEF Held, QueueOf
<1>3. SlotsSound' /\ ResultsOnce' /\ InWork' = InWork /\ Resulted' = Resulted
  BY <1>1 DEF AsyncSound, SlotsSound, ResultsOnce, InWork, Resulted
<1>4. PICK p, q \in Nat : InLine(p, q) /\ Placed(p)
  BY DEF AsyncSound
<1>5. BatchSound /\ QueuesSound /\ Counted /\ PhaseSound /\ mode = "submit"
  BY DEF AsyncSound, submit_many
<1>6. CASE submitting = <<>>
  <2>1. /\ submitting' = submitting /\ fresh' = fresh /\ unfinished' = unfinished /\ overflowed' = overflowed
        /\ mode' = "drain_fresh"
    BY <1>6 DEF submit_many
  <2>2. Counted' /\ QueuesSound' /\ BatchSound'
    BY <1>1, <1>2, <1>5, <2>1 DEF Counted, QueuesSound, BatchSound, OnceIn
  <2>3. PhaseSound'
    BY <1>6, <2>1 DEF PhaseSound, Modes
  <2>4. InLine(p, q)' /\ Placed(p)'
    BY <1>1, <1>4, <2>1 DEF InLine, Placed, Behind, IssuesOf, InWork, Resulted, Lost
  <2> QED BY <1>3, <2>2, <2>3, <2>4 DEF AsyncSound
<1>7. CASE submitting # <<>>
  <2>0. PICK item : item = Item(Head(submitting), "")
    OBVIOUS
  <2>1. /\ submitting' = Tail(submitting) /\ fresh' = Put(fresh, item)
        /\ unfinished' = [unfinished EXCEPT !["fresh"] = PendingAfterPut(unfinished["fresh"], fresh)]
        /\ overflowed' = overflowed \cup Dropped(fresh) /\ mode' = "submit"
    BY <1>5, <1>7, <2>0 DEF submit_many
  <2>2. PICK n : n = Len(batch)
    OBVIOUS
  <2>3. n \in Nat /\ Len(submitting) \in Nat
    BY <1>5, <2>2 DEF BatchSound
  <2>4. /\ Head(submitting) = submitting[1] /\ Tail(submitting) \in Seq(Ready)
        /\ Len(Tail(submitting)) = Len(submitting) - 1 /\ Len(submitting) >= 1
        /\ \A k \in 1..(Len(submitting) - 1) : Tail(submitting)[k] = submitting[k + 1]
    <3>1. submitting \in Seq(Ready)
      BY <1>5 DEF BatchSound
    <3>2. Len(submitting) # 0
      BY <1>7, <3>1
    <3>3. Head(submitting) = submitting[1]
      OBVIOUS
    <3> QED BY <1>7, <2>3, <3>1, <3>2, <3>3, HeadTailProperties
  <2>5. /\ p <= q /\ q + 1 <= n /\ Len(fresh) = q - p /\ \A k \in 1..(q - p) : fresh[k].issue = batch[p + k]
        /\ Len(submitting) = n - q /\ \A k \in 1..(n - q) : submitting[k] = batch[q + k]
    BY <1>4, <2>2, <2>3, <2>4 DEF InLine
  <2>6. Head(submitting) = batch[q + 1] /\ q + 1 \in 1..n /\ batch[q + 1] \in Ready
    <3>1. q + 1 \in 1..n /\ 1 \in 1..(n - q)
      BY <2>3, <2>5
    <3> QED BY <1>5, <2>2, <2>4, <2>5, <3>1, ElementOfSeq DEF BatchSound
  <2>7. item \in ItemRecord /\ item.issue = batch[q + 1]
    BY <2>0, <2>6, ItemIs
  <2>8. item.issue \notin IssuesOf(fresh)
    <3>1. ASSUME NEW k \in 1..(q - p), fresh[k].issue = item.issue PROVE FALSE
      <4>1. p + k \in 1..n /\ p + k # q + 1
        BY <2>3, <2>5
      <4>2. batch[p + k] = batch[q + 1]
        BY <2>5, <2>7, <3>1
      <4> QED BY <1>5, <2>2, <2>6, <4>1, <4>2 DEF BatchSound
    <3> QED BY <1>5, <2>5, <3>1, Members DEF QueuesSound
  <2>9. /\ fresh' \in Seq(ItemRecord) /\ OnceIn(fresh') /\ Len(fresh) \in Nat /\ Len(fresh') \in Nat
        /\ PendingAfterPut(unfinished["fresh"], fresh) = unfinished["fresh"] + (Len(fresh') - Len(fresh))
    <3>1. unfinished["fresh"] \in Int
      BY <1>5 DEF Counted, Queues
    <3> QED BY <1>5, <2>1, <2>7, <2>8, <3>1, PutQueue DEF QueuesSound
  <2>10. BatchSound' /\ QueuesSound' /\ PhaseSound'
    <3>1. OnceIn(po_ready)' /\ OnceIn(pr_pending_critic)' /\ OnceIn(fresh)'
      BY <1>1, <1>5, <2>9 DEF OnceIn, QueuesSound
    <3> QED BY <1>1, <1>5, <2>1, <2>4, <2>9, <3>1 DEF BatchSound, QueuesSound, PhaseSound, Modes
  <2>11. Counted'
    <3>1. /\ unfinished' \in [Queues -> Int]
          /\ unfinished'["fresh"] = unfinished["fresh"] + (Len(fresh') - Len(fresh))
          /\ unfinished'["po_ready"] = unfinished["po_ready"]
          /\ unfinished'["pr_pending_critic"] = unfinished["pr_pending_critic"]
      BY <1>5, <2>1, <2>9 DEF Counted, Queues
    <3>2. Cardinality(Held("fresh")) \in Nat
      BY HeldFinite
    <3> QED BY <1>1, <1>2, <1>5, <2>9, <3>1, <3>2 DEF Counted
  <2>12. CASE Len(fresh) < QueueCap
    <3>1. fresh' = Append(fresh, item) /\ overflowed' = overflowed
      BY <2>1, <2>12 DEF Put, Dropped
    <3>2. /\ Len(fresh') = (q + 1) - p /\ \A k \in 1..(q - p) : fresh'[k] = fresh[k]
          /\ fresh'[(q - p) + 1] = item
      BY <1>5, <2>5, <2>7, <2>8, <3>1, AppendQueue DEF QueuesSound
    <3>3. \A k \in 1..((q + 1) - p) : fresh'[k].issue = batch[p + k]
      <4>1. ASSUME NEW k \in 1..((q + 1) - p) PROVE fresh'[k].issue = batch[p + k]
        <5>1. CASE k \in 1..(q - p)
          BY <2>5, <3>2, <5>1
        <5>2. CASE k = (q - p) + 1
          BY <2>5, <2>7, <3>2, <5>2
        <5> QED BY <2>5, <5>1, <5>2
      <4> QED BY <4>1
    <3>4. \A k \in 1..(n - (q + 1)) : submitting'[k] = batch[(q + 1) + k]
      <4>1. ASSUME NEW k \in 1..(n - (q + 1)) PROVE submitting'[k] = batch[(q + 1) + k]
        <5>1. k + 1 \in 1..(n - q) /\ k \in 1..(Len(submitting) - 1)
          BY <2>3, <2>5
        <5>2. submitting'[k] = submitting[k + 1] /\ submitting[k + 1] = batch[q + (k + 1)]
          BY <2>1, <2>4, <2>5, <5>1
        <5> QED BY <5>2
      <4> QED BY <4>1
    <3>5. InLine(p, q + 1)'
      <4>1. Len(submitting') = n - (q + 1) /\ q + 1 \in Nat /\ p <= q + 1
        BY <2>1, <2>3, <2>4, <2>5
      <4> QED BY <1>1, <2>2, <2>5, <3>2, <3>3, <3>4, <4>1 DEF InLine
    <3>6. Placed(p)'
      BY <1>1, <1>3, <1>4, <3>1 DEF Placed, Behind, IssuesOf, Lost
    <3> QED BY <1>3, <2>10, <2>11, <3>5, <3>6 DEF AsyncSound
  <2>13. CASE ~(Len(fresh) < QueueCap)
    <3>1. fresh' = Append(Tail(fresh), item) /\ overflowed' = overflowed \cup {Head(fresh).issue}
      BY <2>1, <2>13 DEF Put, Dropped
    <3>2. fresh # <<>>
      BY <2>13, AsyncAssumption
    <3>3. /\ Tail(fresh) \in Seq(ItemRecord) /\ OnceIn(Tail(fresh)) /\ Len(Tail(fresh)) = Len(fresh) - 1
          /\ Len(fresh) >= 1 /\ Head(fresh) = fresh[1]
          /\ \A k \in 1..(Len(fresh) - 1) : Tail(fresh)[k] = fresh[k + 1]
          /\ \A i : i \in IssuesOf(Tail(fresh)) <=> i \in IssuesOf(fresh) /\ i # Head(fresh).issue
      BY <1>5, <3>2, TailQueue DEF QueuesSound
    <3>4. item.issue \notin IssuesOf(Tail(fresh))
      BY <2>8, <3>3
    <3>5. /\ Len(fresh') = Len(fresh) /\ \A k \in 1..(Len(fresh) - 1) : fresh'[k] = fresh[k + 1]
          /\ fresh'[Len(fresh)] = item
      BY <2>7, <3>1, <3>3, <3>4, AppendQueue
    <3>6. p + 1 <= q /\ Head(fresh).issue = batch[p + 1] /\ p + 1 \in Nat
      BY <2>5, <3>3
    <3>7. \A k \in 1..((q + 1) - (p + 1)) : fresh'[k].issue = batch[(p + 1) + k]
      <4>1. ASSUME NEW k \in 1..((q + 1) - (p + 1)) PROVE fresh'[k].issue = batch[(p + 1) + k]
        <5>1. CASE k \in 1..((q - p) - 1)
          <6>0. k + 1 \in 1..(q - p) /\ k \in 1..(Len(fresh) - 1)
            BY <2>5, <5>1
          <6>1. k + 1 \in 1..(q - p) /\ fresh'[k] = fresh[k + 1]
            BY <3>5, <6>0
          <6>2. fresh[k + 1].issue = batch[p + (k + 1)]
            BY <2>5, <6>1
          <6> QED BY <6>1, <6>2
        <5>2. CASE k = q - p
          BY <2>5, <2>7, <3>5, <5>2
        <5> QED BY <2>5, <5>1, <5>2
      <4> QED BY <4>1
    <3>8. \A k \in 1..(n - (q + 1)) : submitting'[k] = batch[(q + 1) + k]
      <4>1. ASSUME NEW k \in 1..(n - (q + 1)) PROVE submitting'[k] = batch[(q + 1) + k]
        <5>1. k + 1 \in 1..(n - q) /\ k \in 1..(Len(submitting) - 1)
          BY <2>3, <2>5
        <5>2. submitting'[k] = submitting[k + 1] /\ submitting[k + 1] = batch[q + (k + 1)]
          BY <2>1, <2>4, <2>5, <5>1
        <5> QED BY <5>2
      <4> QED BY <4>1
    <3>9. InLine(p + 1, q + 1)'
      <4>1. /\ Len(submitting') = n - (q + 1) /\ q + 1 \in Nat /\ p + 1 <= q + 1
            /\ Len(fresh') = (q + 1) - (p + 1)
        BY <2>1, <2>3, <2>4, <2>5, <3>5, <3>6
      <4> QED BY <1>1, <2>2, <2>5, <3>6, <3>7, <3>8, <4>1 DEF InLine
    <3>10. Placed(p + 1)'
      <4>1. \A i : i \in Behind(p + 1)' <=> i \in Behind(p) \/ i = batch[p + 1]
        BY <1>1, BehindNext DEF Behind
      <4>2. \A i : i \in Lost' <=> i \in Lost \/ i = batch[p + 1]
        BY <1>1, <3>1, <3>6 DEF Lost
      <4>3. /\ batch[p + 1] \notin IssuesOf(po_ready) /\ batch[p + 1] \notin IssuesOf(pr_pending_critic)
            /\ batch[p + 1] \notin InWork /\ batch[p + 1] \notin Resulted
        BY <1>4, <1>5, <2>2, <2>3, <2>5, <3>6, AheadIsElsewhere
      <4>4. /\ IssuesOf(po_ready)' = IssuesOf(po_ready)
            /\ IssuesOf(pr_pending_critic)' = IssuesOf(pr_pending_critic)
        BY <1>1 DEF IssuesOf
      <4> QED BY <1>3, <1>4, <4>1, <4>2, <4>3, <4>4 DEF Placed, Spread
    <3> QED BY <1>3, <2>10, <2>11, <3>6, <3>9, <3>10 DEF AsyncSound
  <2> QED BY <2>12, <2>13
<1> QED BY <1>6, <1>7

\* Between the ticks.
LEMMA BetweenKeeps ==
    ASSUME AsyncSound, mode \in {"main", "select", "closing"}, mode' \in {"main", "select", "closing", "stopped"},
           UNCHANGED <<entry, queues, slot, results, overflowed, perished>>
    PROVE  AsyncSound'
<1>1. AtRest /\ slot = Off
  BY DEF AsyncSound, PhaseSound, AtRest
<1>2. AtRest' /\ (slot = Off)'
  BY <1>1 DEF AtRest, entry, queues, Off
<1>3. ASSUME AtRest', (slot = Off)', (mode \in {"main", "select", "closing", "stopped"})' PROVE AsyncSound'
  BY <1>3, AtRestSound, PTL
<1> QED BY <1>2, <1>3

-----------------------------------------------------------------------------
(* The steps of the stages.                                                 *)

\* An item in work keeps the joins of its queue and of those before it waiting.
LEMMA BusyMeans ==
    ASSUME AsyncSound, NEW s \in Slots, Busy(s)
    PROVE  /\ s \in PoSlots => mode = "drain_fresh"
           /\ s \in WorkerSlots => mode \in {"drain_fresh", "drain_po"}
           /\ mode \in {"drain_fresh", "drain_po", "drain_critic"}
<1>1. Counted /\ PhaseSound /\ SlotsSound /\ QueuesSound /\ slot[s].st = "busy" /\ Draining
  BY DEF AsyncSound, Busy
<1>2. Len(fresh) \in Nat /\ Len(po_ready) \in Nat
  BY <1>1 DEF QueuesSound
<1>3. s \in Held(QueueOf(s))
  BY <1>1 DEF Held
<1>4. Cardinality(Held(QueueOf(s))) \in Nat /\ Cardinality(Held(QueueOf(s))) # 0
  BY <1>3, HeldFinite, FS_EmptySet
<1>5. s \in PoSlots => unfinished["fresh"] # 0
  BY <1>1, <1>2, <1>4, QueueOfIs DEF Counted
<1>6. s \in WorkerSlots => unfinished["po_ready"] # 0
  BY <1>1, <1>2, <1>4, QueueOfIs DEF Counted
<1> QED BY <1>1, <1>5, <1>6 DEF PhaseSound, Draining

\* So what the joins have waited for stays done.
LEMMA PhaseKeeps ==
    ASSUME AsyncSound, NEW s \in Slots, Busy(s), UNCHANGED <<mode, entry>>,
           s \notin PoSlots => unfinished'["fresh"] = unfinished["fresh"],
           s \notin PoSlots /\ s \notin WorkerSlots => unfinished'["po_ready"] = unfinished["po_ready"]
    PROVE  PhaseSound'
<1>1. PhaseSound /\ mode' = mode /\ submitting' = submitting
  BY DEF AsyncSound, entry
<1> QED BY <1>1, BusyMeans DEF PhaseSound, Modes

\* A step behind the first queue, given where the issues are after it.
LEMMA StageKeeps ==
    ASSUME AsyncSound, UNCHANGED <<entry, fresh>>,
           SlotsSound', QueuesSound', Counted', PhaseSound', ResultsOnce',
           \A B : Spread(B, IssuesOf(po_ready), IssuesOf(pr_pending_critic), InWork, Resulted, Lost)
                  => Spread(B, IssuesOf(po_ready)', IssuesOf(pr_pending_critic)', InWork', Resulted', Lost')
    PROVE  AsyncSound'
<1>1. batch' = batch /\ submitting' = submitting /\ fresh' = fresh
  BY DEF entry
<1>2. BatchSound'
  BY <1>1 DEF AsyncSound, BatchSound
<1>3. PICK p, q \in Nat : InLine(p, q) /\ Placed(p)
  BY DEF AsyncSound
<1>4. InLine(p, q)'
  BY <1>1, <1>3 DEF InLine
<1>5. Behind(p)' = Behind(p)
  BY <1>1 DEF Behind
<1>6. Placed(p)'
  BY <1>3, <1>5 DEF Placed
<1> QED BY <1>2, <1>4, <1>6 DEF AsyncSound

LEMMA SlotsApart ==
    /\ PoSlots \subseteq Slots /\ WorkerSlots \subseteq Slots /\ CriticSlots \subseteq Slots
    /\ \A s \in WorkerSlots : s \notin PoSlots
    /\ \A s \in CriticSlots : s \notin PoSlots /\ s \notin WorkerSlots
BY AsyncAssumption DEF Slots

\* The oldest of the batch that nothing has taken up is at the head.
LEMMA TakeFirst ==
    ASSUME AsyncSound, NEW s \in PoSlots, TakeFrom(s, fresh), fresh' = Tail(fresh),
           UNCHANGED <<po_ready, pr_pending_critic>>
    PROVE  AsyncSound'
<1>1. /\ slot[s].st = "idle" /\ fresh # <<>>
      /\ slot' = [slot EXCEPT ![s] = [st |-> "busy", item |-> Head(fresh)]]
      /\ mode' = mode /\ batch' = batch /\ submitting' = submitting /\ unfinished' = unfinished
      /\ results' = results /\ overflowed' = overflowed /\ perished' = perished /\ Draining
      /\ po_ready' = po_ready /\ pr_pending_critic' = pr_pending_critic
  BY DEF TakeFrom, entry
<1>2. SlotsSound /\ QueuesSound /\ Counted /\ PhaseSound /\ BatchSound /\ ResultsOnce
  BY DEF AsyncSound
<1>3. PICK p, q \in Nat : InLine(p, q) /\ Placed(p)
  BY DEF AsyncSound
<1>4. PICK n : n = Len(batch)
  OBVIOUS
<1>5. n \in Nat
  BY <1>2, <1>4 DEF BatchSound
<1>6. /\ fresh' \in Seq(ItemRecord) /\ OnceIn(fresh') /\ Len(fresh') = Len(fresh) - 1 /\ Len(fresh) \in Nat
      /\ Len(fresh) >= 1 /\ Head(fresh) \in ItemRecord
      /\ Head(fresh) = fresh[1] /\ \A k \in 1..(Len(fresh) - 1) : fresh'[k] = fresh[k + 1]
  BY <1>1, <1>2, TailQueue DEF QueuesSound
<1>7. /\ p \in Nat /\ q \in Nat /\ p <= q /\ q <= n /\ Len(fresh) = q - p
      /\ \A k \in 1..(q - p) : fresh[k].issue = batch[p + k]
      /\ Len(submitting) = n - q /\ \A k \in 1..(n - q) : submitting[k] = batch[q + k]
  BY <1>3, <1>4 DEF InLine
<1>8. p + 1 <= q /\ p + 1 <= n /\ p + 1 \in Nat /\ Head(fresh).issue = batch[p + 1]
  BY <1>5, <1>6, <1>7
<1>9. /\ batch[p + 1] \notin IssuesOf(po_ready) /\ batch[p + 1] \notin IssuesOf(pr_pending_critic)
      /\ batch[p + 1] \notin InWork /\ batch[p + 1] \notin Resulted /\ batch[p + 1] \notin Lost
  BY <1>2, <1>3, <1>4, <1>8, AheadIsElsewhere
<1>10. /\ SlotsSound'
       /\ \A i : i \in InWork' <=> i \in InWork \/ i = batch[p + 1]
       /\ Cardinality(Held("fresh"))' = Cardinality(Held("fresh")) + 1
       /\ \A x : x # "fresh" => Held(x)' = Held(x)
  <2>1. s \in Slots /\ QueueOf(s) = "fresh"
    BY QueueOfIs, SlotsApart
  <2>2. Head(fresh).issue \notin InWork
    BY <1>8, <1>9
  <2> QED BY <1>1, <1>2, <1>6, <1>8, <2>1, <2>2, SlotTakes
<1>11. Counted'
  <2>1. Cardinality(Held("fresh")) \in Nat
    BY HeldFinite
  <2>2. Held("po_ready")' = Held("po_ready") /\ Held("pr_pending_critic")' = Held("pr_pending_critic")
    BY <1>10
  <2>3. /\ Cardinality(Held("po_ready"))' = Cardinality(Held("po_ready"))
        /\ Cardinality(Held("pr_pending_critic"))' = Cardinality(Held("pr_pending_critic"))
    BY <2>2
  <2>4. unfinished["fresh"] = Len(fresh') + Cardinality(Held("fresh"))'
    BY <1>2, <1>6, <1>10, <2>1 DEF Counted
  <2> QED BY <1>1, <1>2, <2>3, <2>4 DEF Counted
<1>12. QueuesSound' /\ BatchSound' /\ ResultsOnce'
  BY <1>1, <1>2, <1>6 DEF QueuesSound, BatchSound, ResultsOnce, OnceIn
<1>13. PhaseSound'
  BY <1>1, <1>2 DEF PhaseSound, Modes, Draining
<1>14. InLine(p + 1, q)'
  <2>1. \A k \in 1..(q - (p + 1)) : fresh'[k].issue = batch[(p + 1) + k]
    <3>1. ASSUME NEW k \in 1..(q - (p + 1)) PROVE fresh'[k].issue = batch[(p + 1) + k]
      <4>1. k + 1 \in 1..(q - p) /\ k \in 1..(Len(fresh) - 1)
        BY <1>7
      <4>2. fresh'[k] = fresh[k + 1] /\ fresh[k + 1].issue = batch[p + (k + 1)]
        BY <1>6, <1>7, <4>1
      <4>3. p + (k + 1) = (p + 1) + k
        BY <1>7
      <4> QED BY <4>2, <4>3
    <3> QED BY <3>1
  <2>2. Len(fresh') = q - (p + 1)
    BY <1>6, <1>7
  <2> QED BY <1>1, <1>4, <1>7, <1>8, <2>1, <2>2 DEF InLine
<1>15. Placed(p + 1)'
  <2>1. \A i : i \in Behind(p + 1)' <=> i \in Behind(p) \/ i = batch[p + 1]
    BY <1>1, BehindNext DEF Behind
  <2>2. /\ IssuesOf(po_ready)' = IssuesOf(po_ready)
        /\ IssuesOf(pr_pending_critic)' = IssuesOf(pr_pending_critic)
        /\ Resulted' = Resulted /\ Lost' = Lost
    BY <1>1 DEF IssuesOf, Resulted, Lost
  <2> QED BY <1>3, <1>9, <1>10, <2>1, <2>2 DEF Placed, Spread
<1> QED BY <1>8, <1>10, <1>11, <1>12, <1>13, <1>14, <1>15 DEF AsyncSound

LEMMA TakeNext ==
    ASSUME AsyncSound, NEW s \in WorkerSlots, TakeFrom(s, po_ready), po_ready' = Tail(po_ready),
           UNCHANGED <<fresh, pr_pending_critic>>
    PROVE  AsyncSound'
<1>1. /\ slot[s].st = "idle" /\ po_ready # <<>>
      /\ slot' = [slot EXCEPT ![s] = [st |-> "busy", item |-> Head(po_ready)]]
      /\ mode' = mode /\ batch' = batch /\ submitting' = submitting /\ unfinished' = unfinished
      /\ results' = results /\ overflowed' = overflowed /\ perished' = perished /\ Draining
      /\ fresh' = fresh /\ pr_pending_critic' = pr_pending_critic /\ UNCHANGED entry
  BY DEF TakeFrom, entry
<1>2. SlotsSound /\ QueuesSound /\ Counted /\ PhaseSound /\ ResultsOnce
  BY DEF AsyncSound
<1>3. /\ po_ready' \in Seq(ItemRecord) /\ OnceIn(po_ready') /\ Len(po_ready') = Len(po_ready) - 1
      /\ Len(po_ready) \in Nat /\ Head(po_ready) \in ItemRecord /\ Head(po_ready).issue \in IssuesOf(po_ready)
      /\ \A i : i \in IssuesOf(Tail(po_ready)) <=> i \in IssuesOf(po_ready) /\ i # Head(po_ready).issue
  BY <1>1, <1>2, TailQueue DEF QueuesSound
<1>4. Head(po_ready).issue \notin InWork
  BY <1>3 DEF AsyncSound, Placed, Spread
<1>5. /\ SlotsSound'
      /\ \A i : i \in InWork' <=> i \in InWork \/ i = Head(po_ready).issue
      /\ Cardinality(Held("po_ready"))' = Cardinality(Held("po_ready")) + 1
      /\ \A x : x # "po_ready" => Held(x)' = Held(x)
  <2>1. s \in Slots /\ QueueOf(s) = "po_ready"
    BY QueueOfIs, SlotsApart
  <2> QED BY <1>1, <1>2, <1>3, <1>4, <2>1, SlotTakes
<1>6. Counted'
  <2>1. Cardinality(Held("po_ready")) \in Nat
    BY HeldFinite
  <2>2. Held("fresh")' = Held("fresh") /\ Held("pr_pending_critic")' = Held("pr_pending_critic")
    BY <1>5
  <2>3. /\ Cardinality(Held("fresh"))' = Cardinality(Held("fresh"))
        /\ Cardinality(Held("pr_pending_critic"))' = Cardinality(Held("pr_pending_critic"))
    BY <2>2
  <2>4. unfinished["po_ready"] = Len(po_ready') + Cardinality(Held("po_ready"))'
    BY <1>2, <1>3, <1>5, <2>1 DEF Counted
  <2> QED BY <1>1, <1>2, <2>3, <2>4 DEF Counted
<1>7. QueuesSound' /\ ResultsOnce'
  BY <1>1, <1>2, <1>3 DEF QueuesSound, ResultsOnce, OnceIn
<1>8. PhaseSound'
  BY <1>1, <1>2 DEF PhaseSound, Modes, Draining
<1>9. /\ \A i : i \in IssuesOf(po_ready)' <=> i \in IssuesOf(po_ready) /\ i # Head(po_ready).issue
      /\ IssuesOf(pr_pending_critic)' = IssuesOf(pr_pending_critic) /\ Resulted' = Resulted /\ Lost' = Lost
  <2>1. IssuesOf(po_ready)' = IssuesOf(Tail(po_ready))
    BY DEF IssuesOf
  <2> QED BY <1>1, <1>3, <2>1 DEF IssuesOf, Resulted, Lost
<1>10. ASSUME NEW B, Spread(B, IssuesOf(po_ready), IssuesOf(pr_pending_critic), InWork, Resulted, Lost)
       PROVE  Spread(B, IssuesOf(po_ready)', IssuesOf(pr_pending_critic)', InWork', Resulted', Lost')
  BY <1>3, <1>5, <1>9, <1>10 DEF Spread
<1> QED BY <1>1, <1>5, <1>6, <1>7, <1>8, <1>10, StageKeeps

LEMMA TakeLast ==
    ASSUME AsyncSound, NEW s \in CriticSlots, TakeFrom(s, pr_pending_critic),
          pr_pending_critic' = Tail(pr_pending_critic),
           UNCHANGED <<fresh, po_ready>>
    PROVE  AsyncSound'
<1>1. /\ slot[s].st = "idle" /\ pr_pending_critic # <<>>
      /\ slot' = [slot EXCEPT ![s] = [st |-> "busy", item |-> Head(pr_pending_critic)]]
      /\ mode' = mode /\ batch' = batch /\ submitting' = submitting /\ unfinished' = unfinished
      /\ results' = results /\ overflowed' = overflowed /\ perished' = perished /\ Draining
      /\ fresh' = fresh /\ po_ready' = po_ready /\ UNCHANGED entry
  BY DEF TakeFrom, entry
<1>2. SlotsSound /\ QueuesSound /\ Counted /\ PhaseSound /\ ResultsOnce
  BY DEF AsyncSound
<1>3. /\ pr_pending_critic' \in Seq(ItemRecord) /\ OnceIn(pr_pending_critic')
      /\ Len(pr_pending_critic') = Len(pr_pending_critic) - 1
      /\ Len(pr_pending_critic) \in Nat /\ Head(pr_pending_critic) \in ItemRecord
      /\ Head(pr_pending_critic).issue \in IssuesOf(pr_pending_critic)
      /\ \A i : i \in IssuesOf(Tail(pr_pending_critic))
               <=> i \in IssuesOf(pr_pending_critic) /\ i # Head(pr_pending_critic).issue
  BY <1>1, <1>2, TailQueue DEF QueuesSound
<1>4. Head(pr_pending_critic).issue \notin InWork
  BY <1>3 DEF AsyncSound, Placed, Spread
<1>5. /\ SlotsSound'
      /\ \A i : i \in InWork' <=> i \in InWork \/ i = Head(pr_pending_critic).issue
      /\ Cardinality(Held("pr_pending_critic"))' = Cardinality(Held("pr_pending_critic")) + 1
      /\ \A x : x # "pr_pending_critic" => Held(x)' = Held(x)
  <2>1. s \in Slots /\ QueueOf(s) = "pr_pending_critic"
    BY QueueOfIs, SlotsApart
  <2> QED BY <1>1, <1>2, <1>3, <1>4, <2>1, SlotTakes
<1>6. Counted'
  <2>1. Cardinality(Held("pr_pending_critic")) \in Nat
    BY HeldFinite
  <2>2. Held("fresh")' = Held("fresh") /\ Held("po_ready")' = Held("po_ready")
    BY <1>5
  <2>3. /\ Cardinality(Held("fresh"))' = Cardinality(Held("fresh"))
        /\ Cardinality(Held("po_ready"))' = Cardinality(Held("po_ready"))
    BY <2>2
  <2>4. unfinished["pr_pending_critic"] = Len(pr_pending_critic') + Cardinality(Held("pr_pending_critic"))'
    BY <1>2, <1>3, <1>5, <2>1 DEF Counted
  <2> QED BY <1>1, <1>2, <2>3, <2>4 DEF Counted
<1>7. QueuesSound' /\ ResultsOnce'
  BY <1>1, <1>2, <1>3 DEF QueuesSound, ResultsOnce, OnceIn
<1>8. PhaseSound'
  BY <1>1, <1>2 DEF PhaseSound, Modes, Draining
<1>9. /\ \A i : i \in IssuesOf(pr_pending_critic)'
               <=> i \in IssuesOf(pr_pending_critic) /\ i # Head(pr_pending_critic).issue
      /\ IssuesOf(po_ready)' = IssuesOf(po_ready) /\ Resulted' = Resulted /\ Lost' = Lost
  <2>1. IssuesOf(pr_pending_critic)' = IssuesOf(Tail(pr_pending_critic))
    BY DEF IssuesOf
  <2> QED BY <1>1, <1>3, <2>1 DEF IssuesOf, Resulted, Lost
<1>10. ASSUME NEW B, Spread(B, IssuesOf(po_ready), IssuesOf(pr_pending_critic), InWork, Resulted, Lost)
       PROVE  Spread(B, IssuesOf(po_ready)', IssuesOf(pr_pending_critic)', InWork', Resulted', Lost')
  BY <1>3, <1>5, <1>9, <1>10 DEF Spread
<1> QED BY <1>1, <1>5, <1>6, <1>7, <1>8, <1>10, StageKeeps

\* The item a slot lets go is nowhere else.
LEMMA ItemLeaves ==
    ASSUME AsyncSound, NEW s \in Slots, Busy(s), NEW i, i = slot[s].item.issue, NEW st \in {"idle", "dead"},
           slot' = [slot EXCEPT ![s] = [st |-> st, item |-> NoItem]]
    PROVE  /\ SlotsSound' /\ slot[s].item \in ItemRecord /\ i \in Ready
           /\ i \in InWork /\ \A j : j \in InWork' <=> j \in InWork /\ j # i
           /\ i \notin IssuesOf(po_ready) /\ i \notin IssuesOf(pr_pending_critic)
           /\ i \notin Resulted /\ i \notin Lost
           /\ Cardinality(Held(QueueOf(s)))' = Cardinality(Held(QueueOf(s))) - 1
           /\ \A x : x # QueueOf(s) => Held(x)' = Held(x)
<1>1. SlotsSound /\ slot[s].st = "busy"
  BY DEF AsyncSound, Busy
<1>2. /\ SlotsSound'
      /\ slot[s].item \in ItemRecord /\ slot[s].item.issue \in InWork
      /\ \A j : j \in InWork' <=> j \in InWork /\ j # slot[s].item.issue
      /\ Cardinality(Held(QueueOf(s)))' = Cardinality(Held(QueueOf(s))) - 1
      /\ \A x : x # QueueOf(s) => Held(x)' = Held(x)
  BY <1>1, SlotLeaves
<1>3. i \in Ready
  BY <1>2 DEF ItemRecord
<1>4. PICK p \in Nat : Placed(p)
  BY DEF AsyncSound
<1>5. /\ i \notin IssuesOf(po_ready) /\ i \notin IssuesOf(pr_pending_critic)
      /\ i \notin Resulted /\ i \notin Lost
  BY <1>2, <1>4 DEF Placed, Spread
<1> QED BY <1>2, <1>3, <1>5

\* What the joins count, after the queues and the slot have changed by so much.
LEMMA JoinsKeep ==
    ASSUME AsyncSound, QueuesSound', unfinished' \in [Queues -> Int],
           NEW a \in Int, NEW b \in Int, NEW c \in Int,
           Cardinality(Held("fresh"))' = Cardinality(Held("fresh")) + a,
           Cardinality(Held("po_ready"))' = Cardinality(Held("po_ready")) + b,
           Cardinality(Held("pr_pending_critic"))' = Cardinality(Held("pr_pending_critic")) + c,
           unfinished'["fresh"] = unfinished["fresh"] + (Len(fresh') - Len(fresh)) + a,
           unfinished'["po_ready"] = unfinished["po_ready"] + (Len(po_ready') - Len(po_ready)) + b,
           unfinished'["pr_pending_critic"] =
               unfinished["pr_pending_critic"] + (Len(pr_pending_critic') - Len(pr_pending_critic)) + c
    PROVE  Counted'
<1>1. QueuesSound /\ Counted
  BY DEF AsyncSound
<1>2. /\ Len(fresh) \in Nat /\ Len(po_ready) \in Nat /\ Len(pr_pending_critic) \in Nat
      /\ Len(fresh') \in Nat /\ Len(po_ready') \in Nat /\ Len(pr_pending_critic') \in Nat
  BY <1>1 DEF QueuesSound
<1>3. /\ Cardinality(Held("fresh")) \in Nat /\ Cardinality(Held("po_ready")) \in Nat
      /\ Cardinality(Held("pr_pending_critic")) \in Nat
  BY HeldFinite
<1>4. unfinished'["fresh"] = Len(fresh') + Cardinality(Held("fresh"))'
  <2>1. PICK u, l, m, h : /\ u = unfinished["fresh"] /\ l = Len(fresh) /\ m = Len(fresh')
                         /\ h = Cardinality(Held("fresh"))
    OBVIOUS
  <2>2. u \in Int /\ l \in Nat /\ m \in Nat /\ h \in Nat /\ u = l + h
    BY <1>1, <1>2, <1>3, <2>1 DEF Counted, Queues
  <2>3. u + (m - l) + a = m + (h + a)
    BY <2>2
  <2> QED BY <2>1, <2>3
<1>5. unfinished'["po_ready"] = Len(po_ready') + Cardinality(Held("po_ready"))'
  <2>1. PICK u, l, m, h : /\ u = unfinished["po_ready"] /\ l = Len(po_ready) /\ m = Len(po_ready')
                         /\ h = Cardinality(Held("po_ready"))
    OBVIOUS
  <2>2. u \in Int /\ l \in Nat /\ m \in Nat /\ h \in Nat /\ u = l + h
    BY <1>1, <1>2, <1>3, <2>1 DEF Counted, Queues
  <2>3. u + (m - l) + b = m + (h + b)
    BY <2>2
  <2> QED BY <2>1, <2>3
<1>6. unfinished'["pr_pending_critic"] = Len(pr_pending_critic') + Cardinality(Held("pr_pending_critic"))'
  <2>1. PICK u, l, m, h : /\ u = unfinished["pr_pending_critic"] /\ l = Len(pr_pending_critic)
                          /\ m = Len(pr_pending_critic')
                          /\ h = Cardinality(Held("pr_pending_critic"))
    OBVIOUS
  <2>2. u \in Int /\ l \in Nat /\ m \in Nat /\ h \in Nat /\ u = l + h
    BY <1>1, <1>2, <1>3, <2>1 DEF Counted, Queues
  <2>3. u + (m - l) + c = m + (h + c)
    BY <2>2
  <2> QED BY <2>1, <2>3
<1> QED BY <1>4, <1>5, <1>6 DEF Counted

LEMMA PoKeeps == ASSUME AsyncSound, NEW s \in PoSlots, _po_worker(s) PROVE AsyncSound'
<1>1. PICK i, item : i = slot[s].item.issue /\ item = Item(i, "")
  OBVIOUS
<1>2. /\ Busy(s) /\ slot' = [slot EXCEPT ![s] = [st |-> "idle", item |-> NoItem]]
      /\ po_ready' = Put(po_ready, item)
      /\ unfinished' = [unfinished EXCEPT !["fresh"] = @ - 1, !["po_ready"] = PendingAfterPut(@, po_ready)]
      /\ overflowed' = overflowed \cup Dropped(po_ready)
      /\ mode' = mode /\ fresh' = fresh /\ pr_pending_critic' = pr_pending_critic /\ UNCHANGED entry
      /\ results' = results /\ perished' = perished
  BY <1>1 DEF _po_worker, Freed, IdleSlot
<1>3. s \in Slots /\ QueueOf(s) = "fresh"
  BY QueueOfIs, SlotsApart
<1>4. /\ SlotsSound' /\ i \in Ready
      /\ i \in InWork /\ \A j : j \in InWork' <=> j \in InWork /\ j # i
      /\ i \notin IssuesOf(po_ready) /\ i \notin IssuesOf(pr_pending_critic)
      /\ i \notin Resulted /\ i \notin Lost
      /\ Cardinality(Held("fresh"))' = Cardinality(Held("fresh")) - 1
      /\ \A x : x # "fresh" => Held(x)' = Held(x)
  BY <1>1, <1>2, <1>3, ItemLeaves
<1>5. item \in ItemRecord /\ item.issue = i
  BY <1>1, <1>4, ItemIs
<1>6. SlotsSound /\ QueuesSound /\ Counted /\ ResultsOnce
  BY DEF AsyncSound
<1>7. /\ unfinished \in [Queues -> Int] /\ unfinished["po_ready"] \in Int /\ unfinished["fresh"] \in Int
  BY <1>6 DEF Counted, Queues
<1>8. /\ po_ready' \in Seq(ItemRecord) /\ OnceIn(po_ready')
      /\ Len(po_ready) \in Nat /\ Len(po_ready') \in Nat
      /\ PendingAfterPut(unfinished["po_ready"], po_ready) =
           unfinished["po_ready"] + (Len(po_ready') - Len(po_ready))
      /\ \A j : j \in Dropped(po_ready) => j \in IssuesOf(po_ready)
      /\ \A j : j \in IssuesOf(Put(po_ready, item))
               <=> (j \in IssuesOf(po_ready) /\ j \notin Dropped(po_ready)) \/ j = i
  BY <1>2, <1>4, <1>5, <1>6, <1>7, PutQueue DEF QueuesSound
<1>9. QueuesSound' /\ ResultsOnce'
  BY <1>2, <1>6, <1>8 DEF QueuesSound, ResultsOnce, OnceIn
<1>10. Counted'
  <2>1. /\ unfinished' \in [Queues -> Int] /\ unfinished'["fresh"] = unfinished["fresh"] - 1
        /\ unfinished'["po_ready"] = unfinished["po_ready"] + (Len(po_ready') - Len(po_ready))
        /\ unfinished'["pr_pending_critic"] = unfinished["pr_pending_critic"]
    BY <1>2, <1>7, <1>8 DEF Queues
  <2>2. Held("po_ready")' = Held("po_ready") /\ Held("pr_pending_critic")' = Held("pr_pending_critic")
    BY <1>4
  <2>3. /\ Cardinality(Held("po_ready")) \in Nat /\ Cardinality(Held("pr_pending_critic")) \in Nat
        /\ Cardinality(Held("fresh")) \in Nat
    BY HeldFinite
  <2>4. Len(fresh) \in Nat /\ Len(pr_pending_critic) \in Nat
    BY <1>6 DEF QueuesSound
  <2>5. /\ Cardinality(Held("fresh"))' = Cardinality(Held("fresh")) + (-1)
        /\ Cardinality(Held("po_ready"))' = Cardinality(Held("po_ready")) + 0
        /\ Cardinality(Held("pr_pending_critic"))' = Cardinality(Held("pr_pending_critic")) + 0
    BY <1>4, <2>2, <2>3
  <2>6. /\ unfinished'["fresh"] = unfinished["fresh"] + (Len(fresh') - Len(fresh)) + (-1)
        /\ unfinished'["po_ready"] = unfinished["po_ready"] + (Len(po_ready') - Len(po_ready)) + 0
        /\ unfinished'["pr_pending_critic"] =
               unfinished["pr_pending_critic"] + (Len(pr_pending_critic') - Len(pr_pending_critic)) + 0
    <3>1. unfinished["pr_pending_critic"] \in Int
      BY <1>6 DEF Counted, Queues
    <3> QED BY <1>2, <1>7, <1>8, <2>1, <2>4, <3>1 DEF Queues
  <2> QED BY <1>9, <2>1, <2>5, <2>6, JoinsKeep
<1>11. PhaseSound'
  BY <1>2, <1>3, PhaseKeeps
<1>12. /\ \A j : j \in IssuesOf(po_ready)' <=> (j \in IssuesOf(po_ready) /\ j \notin Dropped(po_ready)) \/ j = i
       /\ IssuesOf(pr_pending_critic)' = IssuesOf(pr_pending_critic) /\ Resulted' = Resulted
       /\ \A j : j \in Lost' <=> j \in Lost \/ j \in Dropped(po_ready)
  <2>1. IssuesOf(po_ready)' = IssuesOf(Put(po_ready, item))
    BY <1>2 DEF IssuesOf
  <2>2. IssuesOf(pr_pending_critic)' = IssuesOf(pr_pending_critic)
    BY <1>2 DEF IssuesOf
  <2> QED BY <1>2, <1>8, <2>1, <2>2 DEF Resulted, Lost
<1>13. ASSUME NEW B, Spread(B, IssuesOf(po_ready), IssuesOf(pr_pending_critic), InWork, Resulted, Lost)
       PROVE  Spread(B, IssuesOf(po_ready)', IssuesOf(pr_pending_critic)', InWork', Resulted', Lost')
  BY <1>4, <1>8, <1>12, <1>13 DEF Spread
<1> QED BY <1>2, <1>4, <1>9, <1>10, <1>11, <1>13, StageKeeps


\* An item ends at its slot: with a result, or as its stage dies.
LEMMA EndKeeps ==
    ASSUME AsyncSound, NEW s \in Slots, Busy(s), NEW i, i = slot[s].item.issue, NEW st \in {"idle", "dead"},
           slot' = [slot EXCEPT ![s] = [st |-> st, item |-> NoItem]],
           unfinished' = [unfinished EXCEPT ![QueueOf(s)] = @ - 1],
           UNCHANGED <<mode, entry, fresh, po_ready, pr_pending_critic, overflowed>>,
           \/ perished' = perished /\ \E r : r.issue = i /\ results' = results \cup {r}
           \/ perished' = perished \cup {i} /\ results' = results
    PROVE  AsyncSound'
<1>1. /\ SlotsSound' /\ i \in Ready
      /\ i \in InWork /\ \A j : j \in InWork' <=> j \in InWork /\ j # i
      /\ i \notin IssuesOf(po_ready) /\ i \notin IssuesOf(pr_pending_critic)
      /\ i \notin Resulted /\ i \notin Lost
      /\ Cardinality(Held(QueueOf(s)))' = Cardinality(Held(QueueOf(s))) - 1
      /\ \A x : x # QueueOf(s) => Held(x)' = Held(x)
  BY ItemLeaves
<1>2. SlotsSound /\ QueuesSound /\ Counted /\ ResultsOnce
  BY DEF AsyncSound
<1>3. QueuesSound'
  BY <1>2 DEF QueuesSound, OnceIn
<1>4. ResultsOnce'
  <2>1. \A x \in results : x.issue # i
    BY <1>1 DEF Resulted
  <2> QED BY <1>2, <2>1 DEF ResultsOnce
<1>5. QueueOf(s) \in Queues
  BY QueueOfIs
<1>6. unfinished \in [Queues -> Int]
  BY <1>2 DEF Counted
<1>7. unfinished' \in [Queues -> Int] /\ unfinished'[QueueOf(s)] = unfinished[QueueOf(s)] - 1
      /\ \A x \in Queues : x # QueueOf(s) => unfinished'[x] = unfinished[x]
  BY <1>5, <1>6
<1>8. Counted'
  <2>1. ASSUME NEW x \in Queues PROVE \/ Cardinality(Held(x))' = Cardinality(Held(x)) + (-1)
                                         /\ unfinished'[x] = unfinished[x] + 0 + (-1)
                                      \/ Cardinality(Held(x))' = Cardinality(Held(x)) + 0
                                         /\ unfinished'[x] = unfinished[x] + 0 + 0
    <3>1. Cardinality(Held(x)) \in Nat /\ unfinished[x] \in Int
      BY <1>6, HeldFinite
    <3>2. CASE x = QueueOf(s)
      BY <1>1, <1>7, <3>1, <3>2
    <3>3. CASE x # QueueOf(s)
      <4>1. Held(x)' = Held(x) /\ unfinished'[x] = unfinished[x]
        BY <1>1, <1>7, <3>3
      <4>2. Cardinality(Held(x))' = Cardinality(Held(x))
        BY <4>1
      <4> QED BY <3>1, <4>1, <4>2
    <3> QED BY <3>2, <3>3
  <2>2. "fresh" \in Queues /\ "po_ready" \in Queues /\ "pr_pending_critic" \in Queues
    BY DEF Queues
  <2>3. PICK a \in Int : /\ Cardinality(Held("fresh"))' = Cardinality(Held("fresh")) + a
                         /\ unfinished'["fresh"] = unfinished["fresh"] + 0 + a
    BY <2>1, <2>2
  <2>4. PICK b \in Int : /\ Cardinality(Held("po_ready"))' = Cardinality(Held("po_ready")) + b
                         /\ unfinished'["po_ready"] = unfinished["po_ready"] + 0 + b
    BY <2>1, <2>2
  <2>5. PICK c \in Int : /\ Cardinality(Held("pr_pending_critic"))' = Cardinality(Held("pr_pending_critic")) + c
                         /\ unfinished'["pr_pending_critic"] = unfinished["pr_pending_critic"] + 0 + c
    BY <2>1, <2>2
  <2>6. /\ Len(fresh') - Len(fresh) = 0 /\ Len(po_ready') - Len(po_ready) = 0
        /\ Len(pr_pending_critic') - Len(pr_pending_critic) = 0
    BY <1>2 DEF QueuesSound
  <2> QED BY <1>3, <1>7, <2>3, <2>4, <2>5, <2>6, JoinsKeep
<1>9. PhaseSound'
  <2>1. s \notin PoSlots => QueueOf(s) # "fresh"
    BY DEF QueueOf
  <2>2. s \notin PoSlots /\ s \notin WorkerSlots => QueueOf(s) # "po_ready"
    BY DEF QueueOf
  <2>3. "fresh" \in Queues /\ "po_ready" \in Queues
    BY DEF Queues
  <2> QED BY <1>7, <2>1, <2>2, <2>3, PhaseKeeps
<1>10. /\ IssuesOf(po_ready)' = IssuesOf(po_ready)
       /\ IssuesOf(pr_pending_critic)' = IssuesOf(pr_pending_critic)
       /\ \/ Lost' = Lost /\ \A j : j \in Resulted' <=> j \in Resulted \/ j = i
          \/ Resulted' = Resulted /\ \A j : j \in Lost' <=> j \in Lost \/ j = i
  <2>1. IssuesOf(po_ready)' = IssuesOf(po_ready) /\ IssuesOf(pr_pending_critic)' = IssuesOf(pr_pending_critic)
    BY DEF IssuesOf
  <2>2. CASE perished' = perished /\ \E r : r.issue = i /\ results' = results \cup {r}
    BY <2>2 DEF Resulted, Lost
  <2>3. CASE perished' = perished \cup {i} /\ results' = results
    BY <2>3 DEF Resulted, Lost
  <2> QED BY <2>1, <2>2, <2>3
<1>11. ASSUME NEW B, Spread(B, IssuesOf(po_ready), IssuesOf(pr_pending_critic), InWork, Resulted, Lost)
       PROVE  Spread(B, IssuesOf(po_ready)', IssuesOf(pr_pending_critic)', InWork', Resulted', Lost')
  BY <1>1, <1>10, <1>11 DEF Spread
<1> QED BY <1>1, <1>3, <1>4, <1>8, <1>9, <1>11, StageKeeps

LEMMA PassKeeps ==
    ASSUME AsyncSound, NEW s \in WorkerSlots, Busy(s), NEW status \in {"open", "merged"}, NEW i, NEW item,
           i = slot[s].item.issue, item = Item(i, status),
           slot' = [slot EXCEPT ![s] = [st |-> "idle", item |-> NoItem]],
           pr_pending_critic' = Put(pr_pending_critic, item),
           unfinished' = [unfinished EXCEPT !["po_ready"] = @ - 1,
                                            !["pr_pending_critic"] = PendingAfterPut(@, pr_pending_critic)],
           overflowed' = overflowed \cup Dropped(pr_pending_critic),
           UNCHANGED <<mode, entry, fresh, po_ready, results, perished>>
    PROVE  AsyncSound'
<1>3. s \in Slots /\ QueueOf(s) = "po_ready"
  BY QueueOfIs, SlotsApart
<1>4. /\ SlotsSound' /\ i \in Ready
      /\ i \in InWork /\ \A j : j \in InWork' <=> j \in InWork /\ j # i
      /\ i \notin IssuesOf(pr_pending_critic) /\ i \notin IssuesOf(po_ready)
      /\ i \notin Resulted /\ i \notin Lost
      /\ Cardinality(Held("po_ready"))' = Cardinality(Held("po_ready")) - 1
      /\ \A x : x # "po_ready" => Held(x)' = Held(x)
  BY <1>3, ItemLeaves
<1>5. item \in ItemRecord /\ item.issue = i
  BY <1>4, ItemIs
<1>6. SlotsSound /\ QueuesSound /\ Counted /\ ResultsOnce
  BY DEF AsyncSound
<1>7. /\ unfinished \in [Queues -> Int] /\ unfinished["pr_pending_critic"] \in Int
      /\ unfinished["po_ready"] \in Int
  BY <1>6 DEF Counted, Queues
<1>8. /\ pr_pending_critic' \in Seq(ItemRecord) /\ OnceIn(pr_pending_critic')
      /\ Len(pr_pending_critic) \in Nat /\ Len(pr_pending_critic') \in Nat
      /\ PendingAfterPut(unfinished["pr_pending_critic"], pr_pending_critic) =
           unfinished["pr_pending_critic"] + (Len(pr_pending_critic') - Len(pr_pending_critic))
      /\ \A j : j \in Dropped(pr_pending_critic) => j \in IssuesOf(pr_pending_critic)
      /\ \A j : j \in IssuesOf(Put(pr_pending_critic, item))
               <=> (j \in IssuesOf(pr_pending_critic) /\ j \notin Dropped(pr_pending_critic)) \/ j = i
  BY <1>4, <1>5, <1>6, <1>7, PutQueue DEF QueuesSound
<1>9. QueuesSound' /\ ResultsOnce'
  BY <1>6, <1>8 DEF QueuesSound, ResultsOnce, OnceIn
<1>10. Counted'
  <2>1. /\ unfinished' \in [Queues -> Int] /\ unfinished'["po_ready"] = unfinished["po_ready"] - 1
        /\ unfinished'["pr_pending_critic"] =
             unfinished["pr_pending_critic"] + (Len(pr_pending_critic') - Len(pr_pending_critic))
        /\ unfinished'["fresh"] = unfinished["fresh"]
    BY <1>7, <1>8 DEF Queues
  <2>2. Held("pr_pending_critic")' = Held("pr_pending_critic") /\ Held("fresh")' = Held("fresh")
    BY <1>4
  <2>3. /\ Cardinality(Held("pr_pending_critic")) \in Nat /\ Cardinality(Held("fresh")) \in Nat
        /\ Cardinality(Held("po_ready")) \in Nat
    BY HeldFinite
  <2>4. Len(po_ready) \in Nat /\ Len(fresh) \in Nat
    BY <1>6 DEF QueuesSound
  <2>5. /\ Cardinality(Held("po_ready"))' = Cardinality(Held("po_ready")) + (-1)
        /\ Cardinality(Held("pr_pending_critic"))' = Cardinality(Held("pr_pending_critic")) + 0
        /\ Cardinality(Held("fresh"))' = Cardinality(Held("fresh")) + 0
    BY <1>4, <2>2, <2>3
  <2>6. /\ unfinished'["po_ready"] = unfinished["po_ready"] + (Len(po_ready') - Len(po_ready)) + (-1)
        /\ unfinished'["pr_pending_critic"] =
             unfinished["pr_pending_critic"] + (Len(pr_pending_critic') - Len(pr_pending_critic)) + 0
        /\ unfinished'["fresh"] =
               unfinished["fresh"] + (Len(fresh') - Len(fresh)) + 0
    <3>1. unfinished["fresh"] \in Int
      BY <1>6 DEF Counted, Queues
    <3> QED BY <1>7, <1>8, <2>1, <2>4, <3>1 DEF Queues
  <2>7. PICK a \in Int, b \in Int, c \in Int : a = 0 /\ b = -1 /\ c = 0
    OBVIOUS
  <2>8. /\ Cardinality(Held("fresh"))' = Cardinality(Held("fresh")) + a
        /\ Cardinality(Held("po_ready"))' = Cardinality(Held("po_ready")) + b
        /\ Cardinality(Held("pr_pending_critic"))' = Cardinality(Held("pr_pending_critic")) + c
    BY <2>5, <2>7
  <2>9. /\ unfinished'["fresh"] = unfinished["fresh"] + (Len(fresh') - Len(fresh)) + a
        /\ unfinished'["po_ready"] = unfinished["po_ready"] + (Len(po_ready') - Len(po_ready)) + b
        /\ unfinished'["pr_pending_critic"] =
               unfinished["pr_pending_critic"] + (Len(pr_pending_critic') - Len(pr_pending_critic)) + c
    BY <2>6, <2>7
  <2> QED BY <1>9, <2>1, <2>8, <2>9, JoinsKeep
<1>11. PhaseSound'
  <2>1. unfinished'["fresh"] = unfinished["fresh"]
    BY <1>7 DEF Queues
  <2> QED BY <1>3, <2>1, PhaseKeeps
<1>12. /\ \A j : j \in IssuesOf(pr_pending_critic)'
                <=> (j \in IssuesOf(pr_pending_critic) /\ j \notin Dropped(pr_pending_critic)) \/ j = i
       /\ IssuesOf(po_ready)' = IssuesOf(po_ready) /\ Resulted' = Resulted
       /\ \A j : j \in Lost' <=> j \in Lost \/ j \in Dropped(pr_pending_critic)
  <2>1. IssuesOf(pr_pending_critic)' = IssuesOf(Put(pr_pending_critic, item))
    BY DEF IssuesOf
  <2>2. IssuesOf(po_ready)' = IssuesOf(po_ready)
    BY DEF IssuesOf
  <2> QED BY <1>8, <2>1, <2>2 DEF Resulted, Lost
<1>13. ASSUME NEW B, Spread(B, IssuesOf(po_ready), IssuesOf(pr_pending_critic), InWork, Resulted, Lost)
       PROVE  Spread(B, IssuesOf(po_ready)', IssuesOf(pr_pending_critic)', InWork', Resulted', Lost')
  BY <1>4, <1>8, <1>12, <1>13 DEF Spread
<1> QED BY <1>4, <1>9, <1>10, <1>11, <1>13, StageKeeps


\* A stage dies after it made room in the queue behind it.
LEMMA PoDropKeeps ==
    ASSUME AsyncSound, NEW s \in PoSlots, Busy(s), NEW i, i = slot[s].item.issue,
           slot' = [slot EXCEPT ![s] = [st |-> "dead", item |-> NoItem]],
           Len(po_ready) >= QueueCap, po_ready' = Tail(po_ready),
           unfinished' = [unfinished EXCEPT !["fresh"] = @ - 1, !["po_ready"] = @ - 1],
           overflowed' = overflowed \cup Dropped(po_ready), perished' = perished \cup {i},
           UNCHANGED <<mode, entry, fresh, pr_pending_critic, results>>
    PROVE  AsyncSound'
<1>1. s \in Slots /\ QueueOf(s) = "fresh"
  BY QueueOfIs, SlotsApart
<1>2. /\ SlotsSound' /\ i \in Ready
      /\ i \in InWork /\ \A j : j \in InWork' <=> j \in InWork /\ j # i
      /\ i \notin IssuesOf(po_ready) /\ i \notin IssuesOf(pr_pending_critic)
      /\ i \notin Resulted /\ i \notin Lost
      /\ Cardinality(Held("fresh"))' = Cardinality(Held("fresh")) - 1
      /\ \A x : x # "fresh" => Held(x)' = Held(x)
  BY <1>1, ItemLeaves
<1>3. SlotsSound /\ QueuesSound /\ Counted /\ ResultsOnce
  BY DEF AsyncSound
<1>4. /\ unfinished \in [Queues -> Int] /\ unfinished["po_ready"] \in Int /\ unfinished["fresh"] \in Int
      /\ unfinished["pr_pending_critic"] \in Int
  BY <1>3 DEF Counted, Queues
<1>5. po_ready # <<>>
  BY <1>3, AsyncAssumption DEF QueuesSound
<1>6. /\ po_ready' \in Seq(ItemRecord) /\ OnceIn(po_ready') /\ Len(po_ready') = Len(po_ready) - 1
      /\ Len(po_ready) \in Nat /\ Head(po_ready).issue \in IssuesOf(po_ready)
      /\ \A j : j \in IssuesOf(Tail(po_ready)) <=> j \in IssuesOf(po_ready) /\ j # Head(po_ready).issue
  BY <1>3, <1>5, TailQueue DEF QueuesSound
<1>7. Dropped(po_ready) = {Head(po_ready).issue}
  BY <1>6, AsyncAssumption DEF Dropped
<1>8. QueuesSound' /\ ResultsOnce'
  BY <1>3, <1>6 DEF QueuesSound, ResultsOnce, OnceIn
<1>9. Counted'
  <2>1. /\ unfinished' \in [Queues -> Int] /\ unfinished'["fresh"] = unfinished["fresh"] - 1
        /\ unfinished'["po_ready"] = unfinished["po_ready"] - 1
        /\ unfinished'["pr_pending_critic"] = unfinished["pr_pending_critic"]
    BY <1>4 DEF Queues
  <2>2. Held("po_ready")' = Held("po_ready") /\ Held("pr_pending_critic")' = Held("pr_pending_critic")
    BY <1>2
  <2>3. /\ Cardinality(Held("po_ready")) \in Nat /\ Cardinality(Held("pr_pending_critic")) \in Nat
        /\ Cardinality(Held("fresh")) \in Nat
    BY HeldFinite
  <2>4. Len(fresh) \in Nat /\ Len(pr_pending_critic) \in Nat
    BY <1>3 DEF QueuesSound
  <2>5. PICK a \in Int, b \in Int, c \in Int : a = -1 /\ b = 0 /\ c = 0
    OBVIOUS
  <2>6. /\ Cardinality(Held("fresh"))' = Cardinality(Held("fresh")) + a
        /\ Cardinality(Held("po_ready"))' = Cardinality(Held("po_ready")) + b
        /\ Cardinality(Held("pr_pending_critic"))' = Cardinality(Held("pr_pending_critic")) + c
    BY <1>2, <2>2, <2>3, <2>5
  <2>7. unfinished'["fresh"] = unfinished["fresh"] + (Len(fresh') - Len(fresh)) + a
    BY <1>4, <2>1, <2>4, <2>5
  <2>8. unfinished'["po_ready"] = unfinished["po_ready"] + (Len(po_ready') - Len(po_ready)) + b
    BY <1>4, <1>6, <2>1, <2>5
  <2>9. unfinished'["pr_pending_critic"] =
            unfinished["pr_pending_critic"] + (Len(pr_pending_critic') - Len(pr_pending_critic)) + c
    BY <1>4, <2>1, <2>4, <2>5 DEF Queues
  <2> QED BY <1>8, <2>1, <2>6, <2>7, <2>8, <2>9, JoinsKeep
<1>10. PhaseSound'
  BY <1>1, PhaseKeeps
<1>11. /\ \A j : j \in IssuesOf(po_ready)' <=> j \in IssuesOf(po_ready) /\ j # Head(po_ready).issue
       /\ IssuesOf(pr_pending_critic)' = IssuesOf(pr_pending_critic) /\ Resulted' = Resulted
       /\ \A j : j \in Lost' <=> j \in Lost \/ j = Head(po_ready).issue \/ j = i
  <2>1. IssuesOf(po_ready)' = IssuesOf(Tail(po_ready))
    BY DEF IssuesOf
  <2>2. IssuesOf(pr_pending_critic)' = IssuesOf(pr_pending_critic)
    BY DEF IssuesOf
  <2> QED BY <1>6, <1>7, <2>1, <2>2 DEF Resulted, Lost
<1>12. ASSUME NEW B, Spread(B, IssuesOf(po_ready), IssuesOf(pr_pending_critic), InWork, Resulted, Lost)
       PROVE  Spread(B, IssuesOf(po_ready)', IssuesOf(pr_pending_critic)', InWork', Resulted', Lost')
  BY <1>2, <1>6, <1>11, <1>12 DEF Spread
<1> QED BY <1>2, <1>8, <1>9, <1>10, <1>12, StageKeeps

LEMMA WorkerDropKeeps ==
    ASSUME AsyncSound, NEW s \in WorkerSlots, Busy(s), NEW i, i = slot[s].item.issue,
           slot' = [slot EXCEPT ![s] = [st |-> "dead", item |-> NoItem]],
           Len(pr_pending_critic) >= QueueCap, pr_pending_critic' = Tail(pr_pending_critic),
           unfinished' = [unfinished EXCEPT !["po_ready"] = @ - 1, !["pr_pending_critic"] = @ - 1],
           overflowed' = overflowed \cup Dropped(pr_pending_critic), perished' = perished \cup {i},
           UNCHANGED <<mode, entry, po_ready, fresh, results>>
    PROVE  AsyncSound'
<1>1. s \in Slots /\ QueueOf(s) = "po_ready"
  BY QueueOfIs, SlotsApart
<1>2. /\ SlotsSound' /\ i \in Ready
      /\ i \in InWork /\ \A j : j \in InWork' <=> j \in InWork /\ j # i
      /\ i \notin IssuesOf(pr_pending_critic) /\ i \notin IssuesOf(po_ready)
      /\ i \notin Resulted /\ i \notin Lost
      /\ Cardinality(Held("po_ready"))' = Cardinality(Held("po_ready")) - 1
      /\ \A x : x # "po_ready" => Held(x)' = Held(x)
  BY <1>1, ItemLeaves
<1>3. SlotsSound /\ QueuesSound /\ Counted /\ ResultsOnce
  BY DEF AsyncSound
<1>4. /\ unfinished \in [Queues -> Int] /\ unfinished["pr_pending_critic"] \in Int
      /\ unfinished["po_ready"] \in Int
      /\ unfinished["fresh"] \in Int
  BY <1>3 DEF Counted, Queues
<1>5. pr_pending_critic # <<>>
  BY <1>3, AsyncAssumption DEF QueuesSound
<1>6. /\ pr_pending_critic' \in Seq(ItemRecord) /\ OnceIn(pr_pending_critic')
      /\ Len(pr_pending_critic') = Len(pr_pending_critic) - 1
      /\ Len(pr_pending_critic) \in Nat /\ Head(pr_pending_critic).issue \in IssuesOf(pr_pending_critic)
      /\ \A j : j \in IssuesOf(Tail(pr_pending_critic))
               <=> j \in IssuesOf(pr_pending_critic) /\ j # Head(pr_pending_critic).issue
  BY <1>3, <1>5, TailQueue DEF QueuesSound
<1>7. Dropped(pr_pending_critic) = {Head(pr_pending_critic).issue}
  BY <1>6, AsyncAssumption DEF Dropped
<1>8. QueuesSound' /\ ResultsOnce'
  BY <1>3, <1>6 DEF QueuesSound, ResultsOnce, OnceIn
<1>9. Counted'
  <2>1. /\ unfinished' \in [Queues -> Int] /\ unfinished'["po_ready"] = unfinished["po_ready"] - 1
        /\ unfinished'["pr_pending_critic"] = unfinished["pr_pending_critic"] - 1
        /\ unfinished'["fresh"] = unfinished["fresh"]
    BY <1>4 DEF Queues
  <2>2. Held("pr_pending_critic")' = Held("pr_pending_critic") /\ Held("fresh")' = Held("fresh")
    BY <1>2
  <2>3. /\ Cardinality(Held("pr_pending_critic")) \in Nat /\ Cardinality(Held("fresh")) \in Nat
        /\ Cardinality(Held("po_ready")) \in Nat
    BY HeldFinite
  <2>4. Len(po_ready) \in Nat /\ Len(fresh) \in Nat
    BY <1>3 DEF QueuesSound
  <2>5. PICK a \in Int, b \in Int, c \in Int : a = 0 /\ b = -1 /\ c = 0
    OBVIOUS
  <2>6. /\ Cardinality(Held("po_ready"))' = Cardinality(Held("po_ready")) + b
        /\ Cardinality(Held("pr_pending_critic"))' = Cardinality(Held("pr_pending_critic")) + c
        /\ Cardinality(Held("fresh"))' = Cardinality(Held("fresh")) + a
    BY <1>2, <2>2, <2>3, <2>5
  <2>7. unfinished'["po_ready"] = unfinished["po_ready"] + (Len(po_ready') - Len(po_ready)) + b
    BY <1>4, <2>1, <2>4, <2>5
  <2>8. unfinished'["pr_pending_critic"] =
        unfinished["pr_pending_critic"] + (Len(pr_pending_critic') - Len(pr_pending_critic)) + c
    BY <1>4, <1>6, <2>1, <2>5
  <2>9. unfinished'["fresh"] =
            unfinished["fresh"] + (Len(fresh') - Len(fresh)) + a
    BY <1>4, <2>1, <2>4, <2>5 DEF Queues
  <2> QED BY <1>8, <2>1, <2>6, <2>7, <2>8, <2>9, JoinsKeep
<1>10. PhaseSound'
  <2>1. unfinished'["fresh"] = unfinished["fresh"]
    BY <1>4 DEF Queues
  <2> QED BY <1>1, <2>1, PhaseKeeps
<1>11. /\ \A j : j \in IssuesOf(pr_pending_critic)'
                <=> j \in IssuesOf(pr_pending_critic) /\ j # Head(pr_pending_critic).issue
       /\ IssuesOf(po_ready)' = IssuesOf(po_ready) /\ Resulted' = Resulted
       /\ \A j : j \in Lost' <=> j \in Lost \/ j = Head(pr_pending_critic).issue \/ j = i
  <2>1. IssuesOf(pr_pending_critic)' = IssuesOf(Tail(pr_pending_critic))
    BY DEF IssuesOf
  <2>2. IssuesOf(po_ready)' = IssuesOf(po_ready)
    BY DEF IssuesOf
  <2> QED BY <1>6, <1>7, <2>1, <2>2 DEF Resulted, Lost
<1>12. ASSUME NEW B, Spread(B, IssuesOf(po_ready), IssuesOf(pr_pending_critic), InWork, Resulted, Lost)
       PROVE  Spread(B, IssuesOf(po_ready)', IssuesOf(pr_pending_critic)', InWork', Resulted', Lost')
  BY <1>2, <1>6, <1>11, <1>12 DEF Spread
<1> QED BY <1>2, <1>8, <1>9, <1>10, <1>12, StageKeeps

LEMMA TakeKeeps == ASSUME AsyncSound, Take PROVE AsyncSound'
BY TakeFirst, TakeNext, TakeLast DEF Take

LEMMA WorkerKeeps == ASSUME AsyncSound, NEW s \in WorkerSlots, _worker_worker(s) PROVE AsyncSound'
<1>1. PICK i : i = slot[s].item.issue
  OBVIOUS
<1>2. PICK status \in {"open", "merged", "failed", "timeout"} : Passes(s, status)
  BY DEF _worker_worker
<1>3. /\ Busy(s) /\ slot' = [slot EXCEPT ![s] = [st |-> "idle", item |-> NoItem]]
      /\ UNCHANGED <<mode, entry, fresh, po_ready, perished>>
  BY DEF _worker_worker, Freed, IdleSlot
<1>4. CASE status \in {"open", "merged"}
  <2>1. /\ pr_pending_critic' = Put(pr_pending_critic, Item(i, status))
        /\ unfinished' = [unfinished EXCEPT !["po_ready"] = @ - 1,
                              !["pr_pending_critic"] = PendingAfterPut(@, pr_pending_critic)]
        /\ overflowed' = overflowed \cup Dropped(pr_pending_critic) /\ results' = results
    BY <1>1, <1>2, <1>4 DEF Passes
  <2> QED BY <1>1, <1>3, <1>4, <2>1, PassKeeps
<1>5. CASE status \in {"failed", "timeout"}
  <2>1. /\ results' = results \cup {Result(i, status, "none")}
        /\ unfinished' = [unfinished EXCEPT !["po_ready"] = @ - 1]
        /\ UNCHANGED <<pr_pending_critic, overflowed>>
    BY <1>1, <1>2, <1>5 DEF Passes, Filed
  <2>2. Result(i, status, "none").issue = i
    BY DEF Result
  <2>3. s \in Slots /\ QueueOf(s) = "po_ready"
    BY QueueOfIs, SlotsApart
  <2> QED BY <1>1, <1>3, <2>1, <2>2, <2>3, EndKeeps
<1> QED BY <1>4, <1>5

LEMMA CriticKeeps == ASSUME AsyncSound, NEW s \in CriticSlots, _critic_worker(s) PROVE AsyncSound'
<1>1. PICK i : i = slot[s].item.issue
  OBVIOUS
<1>2. PICK critic : results' = results \cup {Result(i, slot[s].item.status, critic)}
  BY <1>1 DEF _critic_worker
<1>3. Result(i, slot[s].item.status, critic).issue = i
  BY DEF Result
<1>4. s \in Slots /\ QueueOf(s) = "pr_pending_critic"
  BY QueueOfIs, SlotsApart
<1>5. /\ Busy(s) /\ slot' = [slot EXCEPT ![s] = [st |-> "idle", item |-> NoItem]]
      /\ unfinished' = [unfinished EXCEPT !["pr_pending_critic"] = @ - 1]
      /\ UNCHANGED <<mode, entry, fresh, po_ready, pr_pending_critic, overflowed, perished>>
  BY DEF _critic_worker, Freed, IdleSlot
<1> QED BY <1>1, <1>2, <1>3, <1>4, <1>5, EndKeeps

LEMMA EmitKeeps == ASSUME AsyncSound, NEW s \in Slots, EmitRaises(s) PROVE AsyncSound'
<1>1. PICK i : i = slot[s].item.issue
  OBVIOUS
<1>2. /\ Busy(s) /\ slot' = [slot EXCEPT ![s] = [st |-> "dead", item |-> NoItem]]
      /\ perished' = perished \cup {i} /\ UNCHANGED <<mode, entry, fresh, results>>
  BY <1>1 DEF EmitRaises
<1>3. CASE /\ unfinished' = [unfinished EXCEPT ![QueueOf(s)] = @ - 1]
           /\ UNCHANGED <<po_ready, pr_pending_critic, overflowed>>
  BY <1>1, <1>2, <1>3, EndKeeps
<1>4. CASE /\ s \in PoSlots /\ Len(po_ready) >= QueueCap
           /\ po_ready' = Tail(po_ready) /\ overflowed' = overflowed \cup Dropped(po_ready)
           /\ unfinished' = [unfinished EXCEPT !["fresh"] = @ - 1, !["po_ready"] = @ - 1]
           /\ UNCHANGED pr_pending_critic
  BY <1>1, <1>2, <1>4, PoDropKeeps
<1>5. CASE /\ s \in WorkerSlots /\ Len(pr_pending_critic) >= QueueCap
           /\ pr_pending_critic' = Tail(pr_pending_critic)
           /\ overflowed' = overflowed \cup Dropped(pr_pending_critic)
           /\ unfinished' = [unfinished EXCEPT !["po_ready"] = @ - 1, !["pr_pending_critic"] = @ - 1]
           /\ UNCHANGED po_ready
  BY <1>1, <1>2, <1>5, WorkerDropKeeps
<1> QED BY <1>3, <1>4, <1>5 DEF EmitRaises

LEMMA MainLoopKeeps == ASSUME AsyncSound, MainLoop PROVE AsyncSound'
<1>1. CASE StopSeen
  BY <1>1, BetweenKeeps DEF StopSeen
<1>2. CASE SignalSeen
  BY <1>2, BetweenKeeps DEF SignalSeen
<1>3. CASE MaxTicksReached
  BY <1>3, BetweenKeeps DEF MaxTicksReached
<1>4. CASE _one_tick
  BY <1>4, BetweenKeeps DEF _one_tick
<1>5. CASE RunAsyncTick
  BY <1>5, StartKeeps
<1>6. CASE submit_many
  BY <1>6, SubmitKeeps
<1>7. CASE drain
  BY <1>7, JoinKeeps
<1>8. CASE TickDone_
  BY <1>8, ClearedKeeps DEF TickDone_
<1>9. CASE LoopStops
  BY <1>9, BetweenKeeps DEF LoopStops
<1> QED BY <1>1, <1>2, <1>3, <1>4, <1>5, <1>6, <1>7, <1>8, <1>9 DEF MainLoop

LEMMA AsyncStep == ASSUME AsyncSound, [AsyncNext]_asyncVars PROVE AsyncSound'
<1>1. CASE MainLoop
  BY <1>1, MainLoopKeeps
<1>2. CASE Stages
  BY <1>2, TakeKeeps, PoKeeps, WorkerKeeps, CriticKeeps DEF Stages
<1>3. CASE Asks
  BY <1>3, UntouchedKeeps DEF Asks, Tracked
<1>4. CASE SubmitRaises
  BY <1>4, ClearedKeeps DEF SubmitRaises
<1>5. CASE \E s \in Slots : EmitRaises(s)
  BY <1>5, EmitKeeps
<1>6. CASE \E i \in Ready : OrphanEnds(i)
  BY <1>6, UntouchedKeeps DEF OrphanEnds, Tracked
<1>7. CASE UNCHANGED asyncVars
  BY <1>7, UntouchedKeeps DEF asyncVars, Tracked, entry, queues
<1> QED BY <1>1, <1>2, <1>3, <1>4, <1>5, <1>6, <1>7 DEF AsyncNext

-----------------------------------------------------------------------------
(* What follows.                                                            *)

LEMMA SoundIsTyped == ASSUME AsyncSound PROVE AsyncTypeOK
BY DEF AsyncSound, SlotsSound, SlotRecord, Counted, PhaseSound, Modes, AsyncTypeOK

\* All joined, nothing is queued and nothing in work.
LEMMA NothingLeft ==
    ASSUME AsyncSound, mode = "finish"
    PROVE  /\ fresh = <<>> /\ po_ready = <<>> /\ pr_pending_critic = <<>> /\ submitting = <<>>
           /\ InWork = {}
<1>1. Counted /\ PhaseSound /\ QueuesSound
  BY DEF AsyncSound
<1>2. Len(fresh) \in Nat /\ Len(po_ready) \in Nat /\ Len(pr_pending_critic) \in Nat
  BY <1>1 DEF QueuesSound
<1>3. \A x : Cardinality(Held(x)) \in Nat
  BY HeldFinite
<1>4. /\ unfinished["fresh"] = 0 /\ unfinished["po_ready"] = 0 /\ unfinished["pr_pending_critic"] = 0
      /\ submitting = <<>>
  BY <1>1 DEF PhaseSound
<1>5. Len(fresh) = 0 /\ Cardinality(Held("fresh")) = 0
  BY <1>1, <1>2, <1>3, <1>4 DEF Counted
<1>6. Len(po_ready) = 0 /\ Cardinality(Held("po_ready")) = 0
  BY <1>1, <1>2, <1>3, <1>4 DEF Counted
<1>7. Len(pr_pending_critic) = 0 /\ Cardinality(Held("pr_pending_critic")) = 0
  BY <1>1, <1>2, <1>3, <1>4 DEF Counted
<1>8. fresh = <<>> /\ po_ready = <<>> /\ pr_pending_critic = <<>>
  BY <1>1, <1>5, <1>6, <1>7, EmptySeq DEF QueuesSound
<1>9. Held("fresh") = {} /\ Held("po_ready") = {} /\ Held("pr_pending_critic") = {}
  BY <1>5, <1>6, <1>7, HeldFinite, FS_EmptySet
<1>10. \A s \in Slots : slot[s].st # "busy"
  BY <1>9, QueueOfIs DEF Held, Queues
<1> QED BY <1>4, <1>8, <1>10, WorkIs

LEMMA SoundLosesNothing == ASSUME AsyncSound PROVE NothingLost
<1> SUFFICES ASSUME mode = "finish", NEW k \in DOMAIN batch, NEW mine, mine = {r \in results : r.issue = batch[k]}
             PROVE  Cardinality(mine) = 1 \/ (mine = {} /\ batch[k] \in overflowed \cup perished)
  BY DEF NothingLost
<1>1. /\ fresh = <<>> /\ po_ready = <<>> /\ pr_pending_critic = <<>> /\ submitting = <<>> /\ InWork = {}
  BY NothingLeft
<1>2. BatchSound /\ ResultsOnce
  BY DEF AsyncSound
<1>3. PICK p, q \in Nat : InLine(p, q) /\ Placed(p)
  BY DEF AsyncSound
<1>4. PICK n : n = Len(batch)
  OBVIOUS
<1>5. n \in Nat /\ k \in 1..n
  BY <1>2, <1>4 DEF BatchSound
<1>6. q = n /\ p = n
  BY <1>1, <1>3, <1>4, <1>5, EmptySeq DEF InLine
<1>7. batch[k] \in Behind(p)
  BY <1>5, <1>6, BehindIs
<1>8. IssuesOf(po_ready) = {} /\ IssuesOf(pr_pending_critic) = {}
  BY <1>1, EmptySeq DEF IssuesOf
<1>9. CASE batch[k] \in Resulted
  <2>1. PICK r \in results : r.issue = batch[k]
    BY <1>9 DEF Resulted
  <2>2. mine = {r}
    BY <1>2, <2>1 DEF ResultsOnce
  <2>3. Cardinality({r}) = 1
    BY FS_Singleton
  <2> QED BY <2>2, <2>3
<1>10. CASE batch[k] \in Lost
  <2>1. batch[k] \notin Resulted
    BY <1>3, <1>10 DEF Placed, Spread
  <2>2. mine = {}
    BY <2>1 DEF Resulted
  <2> QED BY <1>10, <2>2 DEF Lost
<1> QED BY <1>1, <1>3, <1>7, <1>8, <1>9, <1>10 DEF Placed, Spread

\* What was dropped is behind the first queue, whatever waits there came later.
LEMMA SoundDropsOldest ==
    ASSUME AsyncSound, NEW i \in overflowed, NEW k \in DOMAIN fresh
    PROVE  \E a, b \in DOMAIN batch : batch[a] = i /\ batch[b] = fresh[k].issue /\ a < b
<1>1. BatchSound /\ QueuesSound
  BY DEF AsyncSound
<1>2. PICK p, q \in Nat : InLine(p, q) /\ Placed(p)
  BY DEF AsyncSound
<1>3. PICK n : n = Len(batch)
  OBVIOUS
<1>4. n \in Nat /\ DOMAIN batch = 1..n /\ DOMAIN fresh = 1..Len(fresh) /\ Len(fresh) \in Nat
  BY <1>1, <1>3 DEF BatchSound, QueuesSound
<1>5. p <= q /\ q <= n /\ Len(fresh) = q - p /\ \A j \in 1..(q - p) : fresh[j].issue = batch[p + j]
  BY <1>2, <1>3 DEF InLine
<1>6. i \in Behind(p)
  BY <1>2 DEF Placed, Spread, Lost
<1>7. PICK a \in 1..p : batch[a] = i
  BY <1>6, BehindIs
<1>8. a \in 1..n /\ p + k \in 1..n /\ a < p + k
  BY <1>2, <1>4, <1>5, <1>7
<1>9. batch[p + k] = fresh[k].issue
  BY <1>4, <1>5
<1> QED BY <1>4, <1>7, <1>8, <1>9

\* In every tick of the asynchronous runner, whatever is late, dropped or dies: what the joins wait
\* for is what is queued and in work; a drained pipeline has one result for each issue of the batch
\* but those dropped or whose stage died; and what is dropped came before all that waits.
THEOREM ItemsAreAccounted == AsyncSpec => EachItemAccounted
<1>1. AsyncInit => AsyncSound
  BY AsyncInitSound
<1>2. AsyncSound /\ [AsyncNext]_asyncVars => AsyncSound'
  BY AsyncStep
<1>3. AsyncSpec => []AsyncSound
  BY <1>1, <1>2, PTL DEF AsyncSpec
<1>4. AsyncSound => AsyncTypeOK /\ NothingLost
  BY SoundIsTyped, SoundLosesNothing
<1>5. AsyncSound => \A i \in overflowed, k \in DOMAIN fresh :
                        \E a, b \in DOMAIN batch : batch[a] = i /\ batch[b] = fresh[k].issue /\ a < b
  BY SoundDropsOldest
<1>6. AsyncSound' => (\A i \in overflowed, k \in DOMAIN fresh :
                        \E a, b \in DOMAIN batch : batch[a] = i /\ batch[b] = fresh[k].issue /\ a < b)'
  BY <1>5, PTL
<1>7. AsyncSound /\ [AsyncNext]_asyncVars =>
        [\A i \in overflowed' \ overflowed, k \in DOMAIN fresh' :
           \E a, b \in DOMAIN batch' : batch'[a] = i /\ batch'[b] = fresh'[k].issue /\ a < b]_asyncVars
  BY <1>2, <1>6
<1>8. AsyncSpec => DropsOldest
  BY <1>3, <1>7, PTL DEF AsyncSpec, DropsOldest
<1> QED BY <1>3, <1>4, <1>8, PTL DEF EachItemAccounted

-----------------------------------------------------------------------------
(* The queue: what either backend keeps for its hosts, and that it does what  *)
(* the protocol of every backend promises.                                    *)

-----------------------------------------------------------------------------
(* The inductive invariant. *)

QueueForm ==
    /\ backend \in {"memory", "sqlite"} /\ pushed \in 0..NumTasks
    /\ waiting \in Seq(Ids) /\ firsts \in Seq(Ids)
    /\ inflight \in [Ids -> QueueHosts \cup {"none"}]
    /\ attempts \in [Ids -> Nat]
    /\ holding \in [QueueHosts -> SUBSET Ids]

(* What waits was pushed, waits once and is not in flight. *)
WaitingSound ==
    /\ \A i, j \in DOMAIN waiting : waiting[i] = waiting[j] => i = j
    /\ \A k \in DOMAIN waiting : waiting[k] <= pushed /\ inflight[waiting[k]] = "none"

(* What a host works on is in flight for it; what is in flight was tried. *)
HoldersSound ==
    /\ \A h \in QueueHosts : \A t \in holding[h] : inflight[t] = h
    /\ \A t \in Ids : inflight[t] # "none" => t <= pushed /\ attempts[t] > 0

(* Tasks are tried in the order they came: what was never tried waits still. *)
TriesSound ==
    /\ \A t \in Ids : t > pushed => attempts[t] = 0
    /\ \A t \in 1..pushed : attempts[t] = 0 => \E k \in DOMAIN waiting : waiting[k] = t
    /\ \A t, u \in 1..pushed : attempts[t] > 0 /\ attempts[u] = 0 => t < u
    /\ \A k \in DOMAIN firsts : firsts[k] <= pushed /\ attempts[firsts[k]] > 0

(* The rows are in the order of their ids, and in either queue what was never *)
(* tried follows the older.                                                   *)
RowsSound ==
    \A i, j \in DOMAIN waiting :
        i < j /\ (backend = "sqlite" \/ attempts[waiting[j]] = 0) => waiting[i] < waiting[j]

QueueSound ==
    /\ QueueForm /\ WaitingSound /\ HoldersSound /\ TriesSound /\ RowsSound
    /\ FirstTriesInOrder /\ NothingForgotten /\ BackGoesFirst

-----------------------------------------------------------------------------
(* The line of the waiting. *)

LEMMA ContainsIs ==
    ASSUME NEW line \in Seq(Ids), NEW t
    PROVE  Contains(line, t) <=> \E k \in DOMAIN line : line[k] = t
  BY DEF Contains

Inserts(line, k, t, longer) ==
    /\ longer \in Seq(Ids) /\ DOMAIN longer = 1..(Len(line) + 1)
    /\ \A j \in 1..(Len(line) + 1) :
          longer[j] = IF j < k THEN line[j] ELSE IF j = k THEN t ELSE line[j - 1]

LEMMA InsertIs ==
    ASSUME NEW line \in Seq(Ids), NEW t \in Ids, NEW k \in 1..(Len(line) + 1)
    PROVE  Inserts(line, k, t, InsertAt(line, k, t))
  <1> DEFINE before == SubSeq(line, 1, k - 1)
             after == SubSeq(line, k, Len(line))
  <1>1. Len(line) \in Nat /\ \A j \in 1..Len(line) : line[j] \in Ids
    OBVIOUS
  <1>2. /\ before \in Seq(Ids) /\ Len(before) = k - 1
        /\ \A j \in 1..(k - 1) : before[j] = line[j]
    <2>1. \A j \in 1..(k - 1) : line[j] \in Ids
      BY <1>1
    <2>2. QED  BY <1>1, <2>1, SubSeqProperties
  <1>3. /\ after \in Seq(Ids) /\ Len(after) = Len(line) - k + 1
        /\ \A j \in 1..(Len(line) - k + 1) : after[j] = line[k + j - 1]
    <2>1. \A j \in k..Len(line) : line[j] \in Ids
      BY <1>1
    <2>2. QED  BY <1>1, <2>1, SubSeqProperties
  <1>4. /\ <<t>> \in Seq(Ids) /\ Len(<<t>>) = 1 /\ <<t>>[1] = t
    OBVIOUS
  <1> HIDE DEF before, after
  <1> DEFINE front == before \o <<t>>
  <1>5. /\ front \in Seq(Ids) /\ Len(front) = (k - 1) + 1
        /\ \A j \in 1..((k - 1) + 1) : front[j] = IF j <= k - 1 THEN before[j] ELSE <<t>>[j - (k - 1)]
    BY <1>2, <1>4, ConcatProperties
  <1> HIDE DEF front
  <1>6. Len(front) = k /\ \A j \in 1..k : front[j] = IF j < k THEN line[j] ELSE t
    <2>1. Len(front) = k
      BY <1>1, <1>5
    <2>2. ASSUME NEW j \in 1..k PROVE front[j] = IF j < k THEN line[j] ELSE t
      <3>1. CASE j < k
        BY <1>2, <1>5, <3>1
      <3>2. CASE j = k
        BY <1>4, <1>5, <3>2
      <3>3. QED  BY <1>1, <3>1, <3>2
    <2>3. QED  BY <2>1, <2>2
  <1> DEFINE whole == front \o after
  <1>7. /\ whole \in Seq(Ids) /\ Len(whole) = Len(front) + Len(after)
        /\ \A j \in 1..(Len(front) + Len(after)) :
              whole[j] = IF j <= Len(front) THEN front[j] ELSE after[j - Len(front)]
    BY <1>3, <1>5, ConcatProperties
  <1> HIDE DEF whole
  <1>8. Len(front) + Len(after) = Len(line) + 1
    BY <1>1, <1>3, <1>6
  <1>9. DOMAIN whole = 1..(Len(line) + 1)
    BY <1>7, <1>8, LenProperties
  <1>10. ASSUME NEW j \in 1..(Len(line) + 1)
         PROVE  whole[j] = IF j < k THEN line[j] ELSE IF j = k THEN t ELSE line[j - 1]
    <2>1. whole[j] = IF j <= k THEN front[j] ELSE after[j - k]
      BY <1>6, <1>7, <1>8
    <2>2. CASE j <= k
      BY <1>6, <2>1, <2>2
    <2>3. CASE j > k
      <3>1. j - k \in 1..(Len(line) - k + 1) /\ k + (j - k) - 1 = j - 1
        BY <1>1, <2>3
      <3>2. after[j - k] = line[j - 1]
        BY <1>3, <3>1
      <3>3. QED  BY <2>1, <2>3, <3>2
    <2>4. QED  BY <1>1, <2>2, <2>3
  <1>11. InsertAt(line, k, t) = whole
    BY DEF InsertAt, before, after, front, whole
  <1>12. QED  BY <1>7, <1>9, <1>10, <1>11 DEF Inserts

LEMMA TakenIs ==
    ASSUME waiting \in Seq(Ids), waiting # <<>>,
           \A i, j \in DOMAIN waiting : waiting[i] = waiting[j] => i = j
    PROVE  Taken(Head(waiting)) = Tail(waiting)
  <1>1. Len(waiting) \in Nat /\ 1 \in DOMAIN waiting /\ Head(waiting) = waiting[1]
    OBVIOUS
  <1>2. (CHOOSE k \in DOMAIN waiting : waiting[k] = Head(waiting)) = 1
    BY <1>1
  <1>3. RemoveAt(waiting, 1) = Tail(waiting)
    <2>1. SubSeq(waiting, 1, 0) = <<>>
      BY SubSeqEmpty
    <2>2. Tail(waiting) = SubSeq(waiting, 2, Len(waiting)) /\ Tail(waiting) \in Seq(Ids)
      BY TailIsSubSeq, HeadTailProperties
    <2>3. RemoveAt(waiting, 1) = SubSeq(waiting, 1, 0) \o SubSeq(waiting, 2, Len(waiting))
      BY DEF RemoveAt
    <2>4. QED  BY <2>1, <2>2, <2>3, ConcatEmptySeq
  <1>4. Contains(waiting, Head(waiting))
    BY <1>1, ContainsIs
  <1>5. QED  BY <1>2, <1>3, <1>4 DEF Taken

(* Every set of naturals has a smallest. *)
LEMMA MinIs ==
    ASSUME NEW S, S \subseteq Nat, S # {}
    PROVE  \E k \in S : \A j \in S : k <= j
  <1> DEFINE R == {pair \in Nat \X Nat : pair[1] < pair[2]}
  <1>1. IsWellFoundedOn(R, Nat)
    BY NatLessThanWellFounded DEF OpToRel
  <1>2. \A j, k \in Nat : j < k => <<j, k>> \in R
    OBVIOUS
  <1> HIDE DEF R
  <1>3. PICK k \in S : \A j \in S : ~(<<j, k>> \in R)
    BY <1>1, WFMin
  <1>4. ASSUME NEW j \in S PROVE k <= j
    <2>1. j \in Nat /\ k \in Nat
      OBVIOUS
    <2>2. ~(j < k)
      BY <1>2, <1>3, <2>1
    <2>3. QED  BY <2>1, <2>2
  <1>5. QED  BY <1>4

(* A row that is given back has a place among those that wait. *)
LEMMA PlaceIs ==
    ASSUME waiting \in Seq(Ids), NEW t \in Ids,
           \A i, j \in DOMAIN waiting : i < j => waiting[i] < waiting[j],
           \A k \in DOMAIN waiting : waiting[k] # t
    PROVE  /\ Place(t) \in 1..(Len(waiting) + 1)
           /\ \A j \in DOMAIN waiting : waiting[j] < t <=> j < Place(t)
  <1> DEFINE After(k) == \A j \in DOMAIN waiting : k <= j => t < waiting[j]
             S == {k \in Nat : k >= 1 /\ After(k)}
  <1>1. /\ Len(waiting) \in Nat /\ DOMAIN waiting = 1..Len(waiting)
        /\ \A j \in DOMAIN waiting : waiting[j] \in Nat /\ t \in Nat
    BY QueueAssumption DEF Ids
  <1>2. Len(waiting) + 1 \in S
    BY <1>1
  <1>3. PICK k \in S : \A j \in S : k <= j
    <2> HIDE DEF S
    <2>1. S \subseteq Nat
      BY DEF S
    <2>2. QED  BY <1>2, <2>1, MinIs
  <1>4. k \in 1..(Len(waiting) + 1)
    BY <1>1, <1>2, <1>3
  <1>5. ASSUME NEW j \in DOMAIN waiting PROVE waiting[j] < t <=> j < k
    <2>1. CASE k <= j
      BY <1>1, <1>3, <2>1
    <2>2. CASE j < k
      <3>1. j \in Nat /\ j >= 1 /\ j \notin S
        <4>1. j \in S => k <= j
          <5> HIDE DEF S
          <5>1. QED  BY <1>3
        <4>2. QED  BY <1>1, <1>4, <2>2, <4>1
      <3>2. PICK i \in DOMAIN waiting : j <= i /\ ~(t < waiting[i])
        BY <3>1
      <3>3. waiting[i] < t /\ waiting[j] <= waiting[i]
        BY <1>1, <3>2
      <3>4. QED  BY <1>1, <2>2, <3>3
    <2>3. QED  BY <1>1, <1>4, <2>1, <2>2
  <1>6. \E p \in 1..(Len(waiting) + 1) : \A j \in DOMAIN waiting : waiting[j] < t <=> j < p
    BY <1>4, <1>5
  <1>7. QED  BY <1>6 DEF Place
-----------------------------------------------------------------------------
(* The operations. *)

LEMMA InitSound == QueueInit => QueueSound
  <1> SUFFICES ASSUME QueueInit PROVE QueueSound
    OBVIOUS
  <1>1. QueueForm
    BY QueueAssumption DEF QueueInit, QueueForm
  <1>2. waiting = <<>> /\ firsts = <<>> /\ pushed = 0 /\ attempts = [t \in Ids |-> 0]
        /\ inflight = [t \in Ids |-> "none"] /\ holding = [h \in QueueHosts |-> {}]
    BY DEF QueueInit
  <1>3. WaitingSound /\ RowsSound /\ FirstTriesInOrder /\ BackGoesFirst
    BY <1>2 DEF WaitingSound, RowsSound, FirstTriesInOrder, BackGoesFirst
  <1>4. HoldersSound
    BY <1>2 DEF HoldersSound
  <1>5. TriesSound /\ NothingForgotten
    BY <1>2 DEF TriesSound, NothingForgotten, Ids
  <1>6. QED  BY <1>1, <1>3, <1>4, <1>5 DEF QueueSound

LEMMA PushSound == QueueSound /\ push => QueueSound'
  <1> SUFFICES ASSUME QueueSound, push PROVE QueueSound'
    OBVIOUS
  <1> DEFINE new == pushed + 1
             n == Len(waiting)
  <1>1. /\ new \in Ids /\ pushed \in Nat /\ pushed' = new /\ waiting' = Append(waiting, new)
        /\ UNCHANGED <<backend, inflight, attempts, holding, firsts, finished>>
        /\ waiting \in Seq(Ids) /\ attempts \in [Ids -> Nat]
        /\ \A k \in DOMAIN waiting : waiting[k] \in Ids
        /\ \A t \in Ids : t \in Nat
    BY QueueAssumption DEF push, QueueSound, QueueForm, Ids
  <1>2. /\ waiting' \in Seq(Ids) /\ n \in Nat
        /\ DOMAIN waiting = 1..n /\ DOMAIN waiting' = 1..(n + 1)
        /\ \A k \in 1..n : waiting'[k] = waiting[k]
        /\ waiting'[n + 1] = new
    BY <1>1, AppendProperties, LenProperties
  <1>3. \A t \in 1..new : t \in Ids /\ (t = new \/ t \in 1..pushed)
    BY <1>1, QueueAssumption DEF Ids
  <1>4. attempts[new] = 0 /\ inflight[new] = "none"
    BY <1>1 DEF QueueSound, TriesSound, HoldersSound
  <1> HIDE DEF new, n
  <1>5. QueueForm'
    <2>1. new \in 0..NumTasks
      BY <1>1, QueueAssumption DEF Ids
    <2>2. QED  BY <1>1, <1>2, <2>1 DEF QueueSound, QueueForm
  <1>6. \A k \in 1..n : waiting[k] <= pushed /\ inflight[waiting[k]] = "none" /\ waiting[k] # new
        /\ waiting[k] < new
    <2>1. \A k \in 1..n : waiting[k] <= pushed /\ inflight[waiting[k]] = "none"
      BY <1>2 DEF QueueSound, WaitingSound
    <2>2. \A k \in 1..n : waiting[k] \in Nat
      BY <1>1, <1>2
    <2>3. QED  BY <1>1, <2>1, <2>2 DEF new
  <1>7. WaitingSound'
    <2>1. \A i, j \in 1..n : waiting[i] = waiting[j] => i = j
      BY <1>2 DEF QueueSound, WaitingSound
    <2>2. \A i, j \in DOMAIN waiting' : waiting'[i] = waiting'[j] => i = j
      BY <1>2, <1>6, <2>1
    <2>3. \A k \in DOMAIN waiting' : waiting'[k] <= pushed' /\ inflight'[waiting'[k]] = "none"
      <3> TAKE k \in DOMAIN waiting'
      <3>1. CASE k = n + 1
        BY <1>1, <1>2, <1>4, <3>1 DEF new
      <3>2. CASE k \in 1..n
        BY <1>1, <1>2, <1>6, <3>2 DEF new
      <3>3. QED  BY <1>2, <3>1, <3>2
    <2>4. QED  BY <2>2, <2>3 DEF WaitingSound
  <1>8. HoldersSound'
    <2>1. \A t \in Ids : t <= pushed => t <= new
      BY <1>1 DEF new
    <2>2. QED  BY <1>1, <2>1 DEF QueueSound, HoldersSound
  <1>9. TriesSound'
    <2>1. \A t \in Ids : t > pushed' => attempts'[t] = 0
      <3>1. \A t \in Ids : t > new => t > pushed
        BY <1>1 DEF new
      <3>2. QED  BY <1>1, <3>1 DEF QueueSound, TriesSound
    <2>2. ASSUME NEW t \in 1..pushed', attempts'[t] = 0
          PROVE  \E k \in DOMAIN waiting' : waiting'[k] = t
      <3>1. CASE t = new
        BY <1>2, <3>1
      <3>2. CASE t \in 1..pushed
        <4>1. PICK k \in 1..n : waiting[k] = t
          BY <1>1, <1>2, <2>2, <3>2 DEF QueueSound, TriesSound
        <4>2. QED  BY <1>2, <4>1
      <3>3. QED  BY <1>1, <1>3, <3>1, <3>2
    <2>3. \A t, u \in 1..pushed' : attempts'[t] > 0 /\ attempts'[u] = 0 => t < u
      <3>1. \A t, u \in 1..pushed : attempts[t] > 0 /\ attempts[u] = 0 => t < u
        BY DEF QueueSound, TriesSound
      <3>2. \A t \in 1..pushed : t < new
        BY <1>1 DEF new
      <3> SUFFICES ASSUME NEW t \in 1..new, NEW u \in 1..new, attempts[t] > 0, attempts[u] = 0
                   PROVE  t < u
        BY <1>1
      <3>3. t \in 1..pushed
        BY <1>3, <1>4
      <3>4. u = new \/ u \in 1..pushed
        BY <1>3
      <3>5. QED  BY <3>1, <3>2, <3>3, <3>4
    <2>4. \A k \in DOMAIN firsts' : firsts'[k] <= pushed' /\ attempts'[firsts'[k]] > 0
      <3>1. \A k \in DOMAIN firsts : firsts[k] \in Nat /\ firsts[k] <= pushed /\ attempts[firsts[k]] > 0
        BY <1>1 DEF QueueSound, QueueForm, TriesSound
      <3>2. QED  BY <1>1, <3>1 DEF new
    <2>5. QED  BY <2>1, <2>2, <2>3, <2>4 DEF TriesSound
  <1>10. RowsSound'
    <2>1. \A i, j \in 1..n :
             i < j /\ (backend = "sqlite" \/ attempts[waiting[j]] = 0) => waiting[i] < waiting[j]
      BY <1>2 DEF QueueSound, RowsSound
    <2>2. SUFFICES ASSUME NEW i \in 1..(n + 1), NEW j \in 1..(n + 1), i < j,
                          backend = "sqlite" \/ attempts[waiting'[j]] = 0
                   PROVE  waiting'[i] < waiting'[j]
      BY <1>1, <1>2 DEF RowsSound
    <2>3. i \in 1..n
      BY <1>2, <2>2
    <2>4. CASE j = n + 1
      BY <1>2, <1>6, <2>3, <2>4
    <2>5. CASE j \in 1..n
      BY <1>2, <2>1, <2>2, <2>3, <2>5
    <2>6. QED  BY <1>2, <2>4, <2>5
  <1>11. FirstTriesInOrder'
    BY <1>1 DEF QueueSound, FirstTriesInOrder
  <1>12. NothingForgotten'
    <2> SUFFICES ASSUME NEW t \in 1..new, t \notin finished, inflight[t] = "none"
                 PROVE  Contains(waiting', t)
      BY <1>1 DEF NothingForgotten
    <2>1. CASE t = new
      BY <1>2, <2>1, ContainsIs
    <2>2. CASE t \in 1..pushed
      <3>1. PICK k \in 1..n : waiting[k] = t
        BY <1>1, <1>2, <2>2, ContainsIs DEF QueueSound, NothingForgotten
      <3>2. QED  BY <1>2, <3>1, ContainsIs
    <2>3. QED  BY <1>3, <2>1, <2>2
  <1>13. BackGoesFirst'
    <2>1. \A i, j \in 1..n : i < j /\ attempts[waiting[i]] = 0 => attempts[waiting[j]] = 0
      BY <1>2 DEF QueueSound, BackGoesFirst
    <2>2. SUFFICES ASSUME NEW i \in 1..(n + 1), NEW j \in 1..(n + 1), i < j,
                          attempts[waiting'[i]] = 0
                   PROVE  attempts[waiting'[j]] = 0
      BY <1>1, <1>2 DEF BackGoesFirst
    <2>3. i \in 1..n
      BY <1>2, <2>2
    <2>4. CASE j = n + 1
      BY <1>2, <1>4, <2>4
    <2>5. CASE j \in 1..n
      BY <1>2, <2>1, <2>2, <2>3, <2>5
    <2>6. QED  BY <1>2, <2>4, <2>5
  <1>14. QED  BY <1>5, <1>7, <1>8, <1>9, <1>10, <1>11, <1>12, <1>13 DEF QueueSound

LEMMA PopSound == ASSUME NEW h \in QueueHosts, QueueSound, pop_blocking(h) PROVE QueueSound'
  <1> DEFINE t == Head(waiting)
             n == Len(waiting)
  <1>1. /\ waiting \in Seq(Ids) /\ waiting # <<>> /\ n \in Nat /\ n > 0 /\ DOMAIN waiting = 1..n
        /\ t = waiting[1] /\ t \in Ids
        /\ \A k \in 1..n : waiting[k] \in Ids
        /\ \A u \in Ids : u \in Nat
    BY QueueAssumption DEF pop_blocking, QueueSound, QueueForm, Ids
  <1>2. waiting' = Tail(waiting)
    BY <1>1, TakenIs DEF pop_blocking, Deliver, Mark, FirstWaiting, QueueSound, WaitingSound
  <1>3. /\ waiting' \in Seq(Ids) /\ DOMAIN waiting' = 1..(n - 1)
        /\ \A k \in 1..(n - 1) : waiting'[k] = waiting[k + 1] /\ k + 1 \in 1..n
    BY <1>1, <1>2, HeadTailProperties, LenProperties
  <1>4. /\ inflight' = [inflight EXCEPT ![t] = h]
        /\ attempts' = [attempts EXCEPT ![t] = @ + 1]
        /\ holding' \in {holding, [holding EXCEPT ![h] = @ \cup {t}]}
        /\ (attempts[t] = 0 /\ firsts' = Append(firsts, t)) \/ firsts' = firsts
        /\ UNCHANGED <<backend, pushed, finished>>
    BY DEF pop_blocking, Deliver, Mark, FirstWaiting
  <1>5. /\ pushed \in Nat /\ inflight \in [Ids -> QueueHosts \cup {"none"}]
        /\ attempts \in [Ids -> Nat] /\ holding \in [QueueHosts -> SUBSET Ids] /\ firsts \in Seq(Ids)
    BY DEF QueueSound, QueueForm
  <1>6. t <= pushed /\ inflight[t] = "none"
    BY <1>1 DEF QueueSound, WaitingSound
  <1> HIDE DEF t, n
  <1>7. /\ attempts' \in [Ids -> Nat] /\ attempts'[t] > 0
        /\ \A u \in Ids : u # t => attempts'[u] = attempts[u]
        /\ \A u \in Ids : attempts[u] > 0 => attempts'[u] > 0
        /\ \A u \in Ids : attempts'[u] = 0 => u # t /\ attempts[u] = 0
    BY <1>1, <1>4, <1>5
  <1>8. inflight'[t] = h /\ \A u \in Ids : u # t => inflight'[u] = inflight[u]
    BY <1>1, <1>4, <1>5
  <1>9. \A k \in 1..n : waiting[k] = t => k = 1
    BY <1>1 DEF QueueSound, WaitingSound
  <1>10. \A k \in 1..(n - 1) : waiting'[k] # t /\ waiting'[k] \in Ids
    BY <1>1, <1>3, <1>9
  <1>11. ASSUME NEW u \in Ids, u # t, \E k \in 1..n : waiting[k] = u
         PROVE  \E k \in 1..(n - 1) : waiting'[k] = u
    <2>1. PICK k \in 1..n : waiting[k] = u
      BY <1>11
    <2>2. k # 1
      BY <1>1, <1>11, <2>1
    <2>3. k - 1 \in 1..(n - 1) /\ k - 1 + 1 = k
      BY <1>1, <2>2
    <2>4. QED  BY <1>3, <2>1, <2>3
  <1>12. QueueForm'
    <2>0. Append(firsts, t) \in Seq(Ids)
      BY <1>1, <1>5, AppendProperties
    <2>1. firsts' \in Seq(Ids)
      BY <1>4, <1>5, <2>0
    <2>2. inflight' \in [Ids -> QueueHosts \cup {"none"}] /\ holding' \in [QueueHosts -> SUBSET Ids]
      BY <1>1, <1>4, <1>5
    <2>3. QED  BY <1>3, <1>4, <1>7, <2>1, <2>2 DEF QueueSound, QueueForm
  <1>13. WaitingSound'
    <2>1. \A i, j \in 1..n : waiting[i] = waiting[j] => i = j
      BY <1>1 DEF QueueSound, WaitingSound
    <2>2. \A k \in 1..n : waiting[k] <= pushed /\ inflight[waiting[k]] = "none"
      BY <1>1 DEF QueueSound, WaitingSound
    <2>3. \A i, j \in 1..(n - 1) : waiting'[i] = waiting'[j] => i = j
      <3> TAKE i, j \in 1..(n - 1)
      <3>1. waiting'[i] = waiting'[j] => i + 1 = j + 1
        BY <1>3, <2>1
      <3>2. QED  BY <3>1
    <2>4. \A k \in 1..(n - 1) : waiting'[k] <= pushed' /\ inflight'[waiting'[k]] = "none"
      BY <1>3, <1>4, <1>8, <1>10, <2>2
    <2>5. QED  BY <1>3, <2>3, <2>4 DEF WaitingSound
  <1>14. HoldersSound'
    <2>1. ASSUME NEW g \in QueueHosts, NEW u \in holding'[g] PROVE inflight'[u] = g
      <3>1. u \in holding[g] => u \in Ids /\ inflight[u] = g /\ u # t
        BY <1>5, <1>6, QueueAssumption DEF QueueSound, HoldersSound
      <3>2. u \in holding[g] \/ (g = h /\ u = t)
        BY <1>4, <1>5, <2>1
      <3>3. QED  BY <1>8, <3>1, <3>2
    <2>2. \A u \in Ids : inflight'[u] # "none" => u <= pushed' /\ attempts'[u] > 0
      BY <1>4, <1>6, <1>7, <1>8 DEF QueueSound, HoldersSound
    <2>3. QED  BY <2>1, <2>2 DEF HoldersSound
  <1>15. \A u \in Ids : u \in 1..pushed /\ attempts[u] = 0 => u = t \/ t < u
    <2> TAKE u \in Ids
    <2> HAVE u \in 1..pushed /\ attempts[u] = 0
    <2>1. PICK k \in 1..n : waiting[k] = u
      BY <1>1 DEF QueueSound, TriesSound
    <2>2. CASE k = 1
      BY <1>1, <2>1, <2>2
    <2>3. CASE 1 < k
      BY <1>1, <2>1, <2>3 DEF QueueSound, RowsSound
    <2>4. QED  BY <1>1, <2>2, <2>3
  <1>16. \A u \in 1..pushed : u \in Ids
    BY QueueAssumption DEF QueueSound, QueueForm, Ids
  <1>17. TriesSound'
    <2>1. \A u \in Ids : u > pushed' => attempts'[u] = 0
      <3>1. \A u \in Ids : u > pushed => attempts[u] = 0 /\ u # t
        BY <1>1, <1>5, <1>6 DEF QueueSound, TriesSound
      <3>2. QED  BY <1>4, <1>7, <3>1
    <2>2. \A u \in 1..pushed' : attempts'[u] = 0 => \E k \in DOMAIN waiting' : waiting'[k] = u
      <3>1. \A u \in 1..pushed : attempts[u] = 0 => \E k \in 1..n : waiting[k] = u
        BY <1>1 DEF QueueSound, TriesSound
      <3>2. QED  BY <1>3, <1>4, <1>7, <1>11, <1>16, <3>1
    <2>3. \A u, v \in 1..pushed' : attempts'[u] > 0 /\ attempts'[v] = 0 => u < v
      <3> SUFFICES ASSUME NEW u \in 1..pushed, NEW v \in 1..pushed, attempts'[u] > 0, attempts'[v] = 0
                   PROVE  u < v
        BY <1>4
      <3>1. v # t /\ attempts[v] = 0 /\ t < v
        BY <1>7, <1>15, <1>16
      <3>2. CASE u = t
        BY <3>1, <3>2
      <3>3. CASE u # t
        <4>1. attempts[u] > 0
          BY <1>7, <1>16, <3>3
        <4>2. QED  BY <3>1, <4>1 DEF QueueSound, TriesSound
      <3>4. QED  BY <3>2, <3>3
    <2>4. \A k \in DOMAIN firsts' : firsts'[k] <= pushed' /\ attempts'[firsts'[k]] > 0
      <3>1. \A k \in DOMAIN firsts : firsts[k] \in Ids /\ firsts[k] <= pushed /\ attempts'[firsts[k]] > 0
        BY <1>5, <1>7 DEF QueueSound, TriesSound
      <3>2. CASE attempts[t] = 0 /\ firsts' = Append(firsts, t)
        <4>1. /\ DOMAIN firsts = 1..Len(firsts) /\ DOMAIN firsts' = 1..(Len(firsts) + 1)
              /\ \A k \in 1..Len(firsts) : firsts'[k] = firsts[k]
              /\ firsts'[Len(firsts) + 1] = t /\ Len(firsts) \in Nat
          BY <1>1, <1>4, <1>5, <3>2, AppendProperties, LenProperties
        <4>2. QED  BY <1>4, <1>6, <1>7, <3>1, <4>1
      <3>3. CASE firsts' = firsts
        BY <1>4, <3>1, <3>3
      <3>4. QED  BY <1>4, <3>2, <3>3
    <2>5. QED  BY <2>1, <2>2, <2>3, <2>4 DEF TriesSound
  <1>18. RowsSound'
    <2>1. \A i, j \in 1..n :
             i < j /\ (backend = "sqlite" \/ attempts[waiting[j]] = 0) => waiting[i] < waiting[j]
      BY <1>1 DEF QueueSound, RowsSound
    <2>2. SUFFICES ASSUME NEW i \in 1..(n - 1), NEW j \in 1..(n - 1), i < j,
                          backend = "sqlite" \/ attempts'[waiting'[j]] = 0
                   PROVE  waiting'[i] < waiting'[j]
      BY <1>3, <1>4 DEF RowsSound
    <2>3. backend = "sqlite" \/ attempts[waiting[j + 1]] = 0
      BY <1>3, <1>7, <1>10, <2>2
    <2>4. i + 1 < j + 1
      BY <2>2
    <2>5. QED  BY <1>3, <2>1, <2>3, <2>4
  <1>19. FirstTriesInOrder'
    <2>1. \A i, j \in DOMAIN firsts : i < j => firsts[i] < firsts[j]
      BY DEF QueueSound, FirstTriesInOrder
    <2>2. CASE attempts[t] = 0 /\ firsts' = Append(firsts, t)
      <3>1. \A k \in DOMAIN firsts : firsts[k] < t
        <4> TAKE k \in DOMAIN firsts
        <4>1. firsts[k] \in 1..pushed /\ attempts[firsts[k]] > 0
          <5>1. firsts[k] \in Ids
            BY <1>5
          <5>2. firsts[k] <= pushed /\ attempts[firsts[k]] > 0
            BY DEF QueueSound, TriesSound
          <5>3. QED  BY <1>5, <5>1, <5>2, QueueAssumption DEF Ids
        <4>2. t \in 1..pushed
          BY <1>1, <1>6 DEF Ids
        <4>3. QED  BY <2>2, <4>1, <4>2 DEF QueueSound, TriesSound
      <3>2. /\ DOMAIN firsts = 1..Len(firsts) /\ DOMAIN firsts' = 1..(Len(firsts) + 1)
            /\ \A k \in 1..Len(firsts) : firsts'[k] = firsts[k]
            /\ firsts'[Len(firsts) + 1] = t /\ Len(firsts) \in Nat
        BY <1>1, <1>4, <1>5, <2>2, AppendProperties, LenProperties
      <3>3. SUFFICES ASSUME NEW i \in 1..(Len(firsts) + 1), NEW j \in 1..(Len(firsts) + 1), i < j
                     PROVE  firsts'[i] < firsts'[j]
        BY <3>2 DEF FirstTriesInOrder
      <3>4. i \in 1..Len(firsts)
        BY <3>2, <3>3
      <3>5. CASE j = Len(firsts) + 1
        BY <3>1, <3>2, <3>4, <3>5
      <3>6. CASE j \in 1..Len(firsts)
        BY <2>1, <3>2, <3>3, <3>4, <3>6
      <3>7. QED  BY <3>2, <3>5, <3>6
    <2>3. CASE firsts' = firsts
      BY <2>1, <2>3 DEF FirstTriesInOrder
    <2>4. QED  BY <1>4, <2>2, <2>3
  <1>20. NothingForgotten'
    <2> SUFFICES ASSUME NEW u \in 1..pushed, u \notin finished, inflight'[u] = "none"
                 PROVE  Contains(waiting', u)
      BY <1>4 DEF NothingForgotten
    <2>1. u \in Ids /\ u # t
      BY <1>8, <1>16, QueueAssumption
    <2>2. inflight[u] = "none"
      BY <1>8, <2>1
    <2>3. \E k \in 1..n : waiting[k] = u
      BY <1>1, <2>2, ContainsIs DEF QueueSound, NothingForgotten
    <2>4. QED  BY <1>3, <1>11, <2>1, <2>3, ContainsIs
  <1>21. BackGoesFirst'
    <2>1. \A i, j \in 1..n : i < j /\ attempts[waiting[i]] = 0 => attempts[waiting[j]] = 0
      BY <1>1 DEF QueueSound, BackGoesFirst
    <2>2. SUFFICES ASSUME NEW i \in 1..(n - 1), NEW j \in 1..(n - 1), i < j, attempts'[waiting'[i]] = 0
                   PROVE  attempts'[waiting'[j]] = 0
      BY <1>3 DEF BackGoesFirst
    <2>3. attempts[waiting[i + 1]] = 0 /\ i + 1 < j + 1
      BY <1>3, <1>7, <1>10, <2>2
    <2>4. attempts[waiting'[j]] = 0
      BY <1>3, <2>1, <2>3
    <2>5. QED  BY <1>7, <1>10, <2>4
  <1>22. QED  BY <1>12, <1>13, <1>14, <1>17, <1>18, <1>19, <1>20, <1>21 DEF QueueSound

(* What a host settles is in flight for it, and does not wait. *)
LEMMA SettledIs ==
    ASSUME NEW h \in QueueHosts, NEW t \in Ids, QueueSound, t \in holding[h]
    PROVE  /\ inflight[t] = h /\ h # "none" /\ t <= pushed /\ attempts[t] > 0
           /\ \A k \in DOMAIN waiting : waiting[k] # t
           /\ ~Contains(waiting, t)
  <1>1. inflight[t] = h /\ h # "none"
    BY QueueAssumption DEF QueueSound, HoldersSound
  <1>2. t <= pushed /\ attempts[t] > 0
    BY <1>1 DEF QueueSound, HoldersSound
  <1>3. \A k \in DOMAIN waiting : waiting[k] # t
    BY <1>1 DEF QueueSound, WaitingSound
  <1>4. waiting \in Seq(Ids)
    BY DEF QueueSound, QueueForm
  <1>5. QED  BY <1>1, <1>2, <1>3, <1>4, ContainsIs

(* A task that a host settles is in flight no more. *)
LEMMA HoldersKept ==
    ASSUME NEW h \in QueueHosts, NEW t \in Ids, QueueSound, t \in holding[h],
           holding' = [holding EXCEPT ![h] = @ \ {t}],
           inflight' = [inflight EXCEPT ![t] = "none"],
           UNCHANGED <<pushed, attempts>>
    PROVE  /\ HoldersSound'
           /\ inflight' \in [Ids -> QueueHosts \cup {"none"}] /\ holding' \in [QueueHosts -> SUBSET Ids]
           /\ inflight'[t] = "none" /\ \A u \in Ids : u # t => inflight'[u] = inflight[u]
  <1>1. inflight \in [Ids -> QueueHosts \cup {"none"}] /\ holding \in [QueueHosts -> SUBSET Ids]
    BY DEF QueueSound, QueueForm
  <1>2. inflight' \in [Ids -> QueueHosts \cup {"none"}] /\ holding' \in [QueueHosts -> SUBSET Ids]
    BY <1>1
  <1>3. inflight'[t] = "none" /\ \A u \in Ids : u # t => inflight'[u] = inflight[u]
    BY <1>1
  <1>4. ASSUME NEW g \in QueueHosts, NEW u \in holding'[g] PROVE inflight'[u] = g
    <2>1. u \in holding[g] /\ u \in Ids /\ (g = h => u # t)
      BY <1>1
    <2>2. inflight[u] = g
      BY <2>1 DEF QueueSound, HoldersSound
    <2>3. u # t
      BY <2>1, <2>2, SettledIs
    <2>4. QED  BY <1>3, <2>1, <2>2, <2>3
  <1>5. \A u \in Ids : inflight'[u] # "none" => u <= pushed' /\ attempts'[u] > 0
    BY <1>3 DEF QueueSound, HoldersSound
  <1>6. QED  BY <1>2, <1>3, <1>4, <1>5 DEF HoldersSound

LEMMA GoneSound ==
    ASSUME NEW h \in QueueHosts, NEW t \in Ids, QueueSound, ack(h, t) \/ giveUp(h, t)
    PROVE  QueueSound'
  <1>1. /\ t \in holding[h] /\ holding' = [holding EXCEPT ![h] = @ \ {t}]
        /\ inflight' = [inflight EXCEPT ![t] = "none"]
        /\ finished' = finished \cup {t}
        /\ UNCHANGED <<backend, pushed, attempts, firsts>>
    BY DEF ack, giveUp, Settles, Gone
  <1>2. waiting' = waiting
    <2>1. ~Contains(waiting, t)
      BY <1>1, SettledIs
    <2>2. QED  BY <2>1 DEF ack, giveUp, Gone, Taken
  <1>3. /\ HoldersSound'
        /\ inflight' \in [Ids -> QueueHosts \cup {"none"}] /\ holding' \in [QueueHosts -> SUBSET Ids]
        /\ inflight'[t] = "none" /\ \A u \in Ids : u # t => inflight'[u] = inflight[u]
    BY <1>1, HoldersKept
  <1>4. QueueForm'
    BY <1>1, <1>2, <1>3 DEF QueueSound, QueueForm
  <1>5. WaitingSound'
    <2>1. waiting \in Seq(Ids)
      BY DEF QueueSound, QueueForm
    <2>2. \A k \in DOMAIN waiting : waiting[k] \in Ids /\ waiting[k] # t
      BY <1>1, <2>1, SettledIs
    <2>3. QED  BY <1>1, <1>2, <1>3, <2>2 DEF QueueSound, WaitingSound
  <1>6. TriesSound' /\ RowsSound' /\ FirstTriesInOrder' /\ BackGoesFirst'
    BY <1>1, <1>2 DEF QueueSound, TriesSound, RowsSound, FirstTriesInOrder, BackGoesFirst
  <1>7. NothingForgotten'
    <2> SUFFICES ASSUME NEW u \in 1..pushed, u \notin finished', inflight'[u] = "none"
                 PROVE  Contains(waiting, u)
      BY <1>1, <1>2 DEF NothingForgotten
    <2>1. u \in Ids
      BY QueueAssumption DEF QueueSound, QueueForm, Ids
    <2>2. u # t /\ u \notin finished /\ inflight[u] = "none"
      BY <1>1, <1>3, <2>1
    <2>3. QED  BY <2>2 DEF QueueSound, NothingForgotten
  <1>8. QED  BY <1>3, <1>4, <1>5, <1>6, <1>7 DEF QueueSound

LEMMA BackIs ==
    ASSUME NEW t \in Ids, QueueSound, \A k \in DOMAIN waiting : waiting[k] # t
    PROVE  \E p \in 1..(Len(waiting) + 1) :
              /\ Back(t) = InsertAt(waiting, p, t)
              /\ backend = "memory" => p = 1
              /\ backend = "sqlite" => \A j \in DOMAIN waiting : waiting[j] < t <=> j < p
  <1>1. waiting \in Seq(Ids) /\ Len(waiting) \in Nat /\ backend \in {"memory", "sqlite"}
    BY DEF QueueSound, QueueForm
  <1>2. CASE backend = "memory"
    <2>1. Back(t) = InsertAt(waiting, 1, t)
      BY <1>2 DEF Back
    <2>2. 1 \in 1..(Len(waiting) + 1)
      BY <1>1
    <2>3. QED  BY <1>2, <2>1, <2>2
  <1>3. CASE backend = "sqlite"
    <2>1. \A i, j \in DOMAIN waiting : i < j => waiting[i] < waiting[j]
      BY <1>3 DEF QueueSound, RowsSound
    <2>2. /\ Place(t) \in 1..(Len(waiting) + 1)
          /\ \A j \in DOMAIN waiting : waiting[j] < t <=> j < Place(t)
      BY <1>1, <2>1, PlaceIs
    <2>3. Back(t) = InsertAt(waiting, Place(t), t)
      BY <1>3 DEF Back
    <2>4. QED  BY <1>3, <2>2, <2>3
  <1>4. QED  BY <1>1, <1>2, <1>3

LEMMA NackSound ==
    ASSUME NEW h \in QueueHosts, NEW t \in Ids, QueueSound, nack(h, t)
    PROVE  QueueSound'
  <1> DEFINE n == Len(waiting)
  <1>1. /\ t \in holding[h] /\ holding' = [holding EXCEPT ![h] = @ \ {t}]
        /\ inflight' = [inflight EXCEPT ![t] = "none"]
        /\ waiting' = Back(t)
        /\ UNCHANGED <<backend, pushed, attempts, firsts, finished>>
    BY DEF nack, Settles
  <1>2. /\ inflight[t] = h /\ h # "none" /\ t <= pushed /\ attempts[t] > 0
        /\ \A k \in DOMAIN waiting : waiting[k] # t
    BY <1>1, SettledIs
  <1>3. /\ HoldersSound'
        /\ inflight' \in [Ids -> QueueHosts \cup {"none"}] /\ holding' \in [QueueHosts -> SUBSET Ids]
        /\ inflight'[t] = "none" /\ \A u \in Ids : u # t => inflight'[u] = inflight[u]
    BY <1>1, HoldersKept
  <1>4. /\ waiting \in Seq(Ids) /\ n \in Nat /\ DOMAIN waiting = 1..n
        /\ \A k \in 1..n : waiting[k] \in Ids
        /\ \A u \in Ids : u \in Nat /\ u >= 1
        /\ attempts \in [Ids -> Nat] /\ pushed \in Nat
        /\ \A u \in 1..pushed : u \in Ids
    BY QueueAssumption DEF QueueSound, QueueForm, Ids
  <1>5. PICK p \in 1..(n + 1) :
           /\ waiting' = InsertAt(waiting, p, t)
           /\ backend = "memory" => p = 1
           /\ backend = "sqlite" => \A j \in DOMAIN waiting : waiting[j] < t <=> j < p
    BY <1>1, <1>2, BackIs
  <1> HIDE DEF n
  <1>6. /\ waiting' \in Seq(Ids) /\ DOMAIN waiting' = 1..(n + 1)
        /\ \A j \in 1..(n + 1) :
              waiting'[j] = IF j < p THEN waiting[j] ELSE IF j = p THEN t ELSE waiting[j - 1]
    <2>1. p \in 1..(Len(waiting) + 1)
      BY DEF n
    <2>2. waiting \in Seq(Ids)
      BY <1>4
    <2>3. Inserts(waiting, p, t, waiting')
      BY <1>5, <2>1, <2>2, InsertIs
    <2>4. QED  BY <2>3 DEF n, Inserts
  <1> DEFINE From(j) == IF j < p THEN j ELSE j - 1
  <1>7. \A j \in 1..(n + 1) : j # p => From(j) \in 1..n /\ waiting'[j] = waiting[From(j)]
    BY <1>4, <1>6
  <1>8. waiting'[p] = t
    BY <1>6
  <1>9. \A k \in 1..n : \E j \in 1..(n + 1) : waiting'[j] = waiting[k]
    <2> TAKE k \in 1..n
    <2>1. CASE k < p
      <3>1. k \in 1..(n + 1)
        BY <1>4
      <3>2. QED  BY <1>6, <2>1, <3>1
    <2>2. CASE p <= k
      <3>1. k + 1 \in 1..(n + 1) /\ p < k + 1 /\ k + 1 - 1 = k
        BY <1>4, <2>2
      <3>2. QED  BY <1>6, <3>1
    <2>3. QED  BY <1>4, <2>1, <2>2
  <1>10. \A i, j \in 1..(n + 1) : i < j /\ i # p /\ j # p => From(i) < From(j)
    BY <1>4
  <1>11. \A i, j \in 1..(n + 1) : i # p /\ j # p /\ From(i) = From(j) => i = j
    BY <1>4
  <1>12. \A j \in 1..(n + 1) : (j < p => From(j) < p) /\ (p < j => p <= From(j))
    BY <1>4
  <1> HIDE DEF From
  <1>13. QueueForm'
    BY <1>1, <1>3, <1>6 DEF QueueSound, QueueForm
  <1>14. WaitingSound'
    <2>1. \A i, j \in 1..n : waiting[i] = waiting[j] => i = j
      BY <1>4 DEF QueueSound, WaitingSound
    <2>2. \A k \in 1..n : waiting[k] <= pushed /\ inflight'[waiting[k]] = "none"
      BY <1>2, <1>3, <1>4 DEF QueueSound, WaitingSound
    <2>3. ASSUME NEW i \in 1..(n + 1), NEW j \in 1..(n + 1), waiting'[i] = waiting'[j] PROVE i = j
      <3>1. CASE i # p /\ j # p
        <4>1. From(i) = From(j)
          BY <1>7, <2>1, <2>3, <3>1
        <4>2. QED  BY <1>11, <3>1, <4>1
      <3>2. CASE i = p \/ j = p
        BY <1>2, <1>4, <1>7, <1>8, <2>3, <3>2
      <3>3. QED  BY <3>1, <3>2
    <2>4. \A k \in 1..(n + 1) : waiting'[k] <= pushed' /\ inflight'[waiting'[k]] = "none"
      BY <1>1, <1>2, <1>3, <1>7, <1>8, <2>2
    <2>5. QED  BY <1>6, <2>3, <2>4 DEF WaitingSound
  <1>15. TriesSound'
    <2>1. \A u \in 1..pushed : attempts[u] = 0 => \E j \in 1..(n + 1) : waiting'[j] = u
      <3>1. \A u \in 1..pushed : attempts[u] = 0 => \E k \in 1..n : waiting[k] = u
        BY <1>4 DEF QueueSound, TriesSound
      <3>2. QED  BY <1>9, <3>1
    <2>2. QED  BY <1>1, <1>6, <2>1 DEF QueueSound, TriesSound
  <1>16. \A u \in Ids : u <= pushed /\ attempts[u] = 0 => t < u
    BY <1>2, <1>4 DEF QueueSound, TriesSound
  <1>17. RowsSound'
    <2>1. \A i, j \in 1..n :
             i < j /\ (backend = "sqlite" \/ attempts[waiting[j]] = 0) => waiting[i] < waiting[j]
      BY <1>4 DEF QueueSound, RowsSound
    <2>2. SUFFICES ASSUME NEW i \in 1..(n + 1), NEW j \in 1..(n + 1), i < j,
                          backend = "sqlite" \/ attempts[waiting'[j]] = 0
                   PROVE  waiting'[i] < waiting'[j]
      BY <1>1, <1>6 DEF RowsSound
    <2>3. CASE i # p /\ j # p
      <3>1. From(i) \in 1..n /\ From(j) \in 1..n /\ From(i) < From(j)
            /\ waiting'[i] = waiting[From(i)] /\ waiting'[j] = waiting[From(j)]
        BY <1>7, <1>10, <2>2, <2>3
      <3>2. QED  BY <2>1, <2>2, <3>1
    <2>4. CASE i = p
      <3>1. j # p /\ p < j
        BY <1>4, <2>2, <2>4
      <3>2. From(j) \in 1..n /\ waiting'[j] = waiting[From(j)] /\ p <= From(j)
        BY <1>7, <1>12, <3>1
      <3>3. CASE backend = "sqlite"
        <4>1. ~(waiting[From(j)] < t) /\ waiting[From(j)] # t /\ waiting[From(j)] \in Nat /\ t \in Nat
          BY <1>2, <1>4, <1>5, <3>2, <3>3
        <4>2. QED  BY <1>8, <2>4, <3>2, <4>1
      <3>4. CASE attempts[waiting'[j]] = 0
        <4>1. waiting[From(j)] \in Ids /\ waiting[From(j)] <= pushed
          BY <1>4, <3>2 DEF QueueSound, WaitingSound
        <4>2. QED  BY <1>8, <1>16, <2>4, <3>2, <3>4, <4>1
      <3>5. QED  BY <2>2, <3>3, <3>4
    <2>5. CASE j = p
      <3>1. backend = "sqlite" /\ i # p /\ i < p
        BY <1>2, <1>4, <1>8, <2>2, <2>5
      <3>2. From(i) \in 1..n /\ waiting'[i] = waiting[From(i)] /\ From(i) < p
        BY <1>7, <1>12, <3>1
      <3>3. QED  BY <1>4, <1>5, <1>8, <2>5, <3>1, <3>2
    <2>6. QED  BY <2>3, <2>4, <2>5
  <1>18. FirstTriesInOrder'
    BY <1>1 DEF QueueSound, FirstTriesInOrder
  <1>19. NothingForgotten'
    <2> SUFFICES ASSUME NEW u \in 1..pushed, u \notin finished, inflight'[u] = "none"
                 PROVE  \E j \in 1..(n + 1) : waiting'[j] = u
      BY <1>1, <1>6, ContainsIs DEF NothingForgotten
    <2>1. CASE u = t
      BY <1>8, <2>1
    <2>2. CASE u # t
      <3>1. inflight[u] = "none"
        BY <1>3, <1>4, <2>2
      <3>2. \E k \in 1..n : waiting[k] = u
        BY <1>4, <3>1, ContainsIs DEF QueueSound, NothingForgotten
      <3>3. QED  BY <1>9, <3>2
    <2>3. QED  BY <2>1, <2>2
  <1>20. BackGoesFirst'
    <2>1. \A i, j \in 1..n : i < j /\ attempts[waiting[i]] = 0 => attempts[waiting[j]] = 0
      BY <1>4 DEF QueueSound, BackGoesFirst
    <2>2. SUFFICES ASSUME NEW i \in 1..(n + 1), NEW j \in 1..(n + 1), i < j, attempts[waiting'[i]] = 0
                   PROVE  attempts[waiting'[j]] = 0
      BY <1>1, <1>6 DEF BackGoesFirst
    <2>3. i # p
      BY <1>2, <1>8, <2>2
    <2>4. From(i) \in 1..n /\ waiting'[i] = waiting[From(i)]
      BY <1>7, <2>3
    <2>5. j # p
      <3> SUFFICES ASSUME j = p PROVE FALSE
        OBVIOUS
      <3>1. i < p /\ backend = "sqlite"
        <4>1. i < p /\ i >= 1
          BY <2>2
        <4>2. p # 1
          BY <4>1
        <4>3. backend \in {"memory", "sqlite"}
          BY DEF QueueSound, QueueForm
        <4>4. QED  BY <1>5, <4>1, <4>2, <4>3
      <3>2. waiting[From(i)] < t
        BY <1>4, <1>5, <1>12, <2>4, <3>1
      <3>3. waiting[From(i)] \in Ids /\ waiting[From(i)] <= pushed
        BY <1>4, <2>4 DEF QueueSound, WaitingSound
      <3>4. t < waiting[From(i)]
        BY <1>16, <2>2, <2>4, <3>3
      <3>5. QED  BY <1>4, <3>2, <3>3, <3>4
    <2>6. From(j) \in 1..n /\ waiting'[j] = waiting[From(j)] /\ From(i) < From(j)
      BY <1>7, <1>10, <2>2, <2>3, <2>5
    <2>7. QED  BY <2>1, <2>2, <2>4, <2>6
  <1>21. QED  BY <1>3, <1>13, <1>14, <1>15, <1>17, <1>18, <1>19, <1>20 DEF QueueSound

LEMMA CrashSound == QueueSound /\ Crashes => QueueSound'
  <1> SUFFICES ASSUME QueueSound, Crashes PROVE QueueSound'
    OBVIOUS
  <1>1. /\ holding' = [g \in QueueHosts |-> {}]
        /\ UNCHANGED <<backend, pushed, waiting, inflight, attempts, firsts, finished>>
    BY DEF Crashes
  <1>2. QueueForm'
    BY <1>1 DEF QueueSound, QueueForm
  <1>3. HoldersSound'
    BY <1>1 DEF QueueSound, HoldersSound
  <1>4. WaitingSound' /\ TriesSound' /\ RowsSound' /\ FirstTriesInOrder' /\ BackGoesFirst' /\ NothingForgotten'
    BY <1>1 DEF QueueSound, WaitingSound, TriesSound, RowsSound, FirstTriesInOrder, BackGoesFirst,
       NothingForgotten
  <1>5. QED  BY <1>2, <1>3, <1>4 DEF QueueSound

LEMMA FailSound == ASSUME NEW h \in QueueHosts, NEW t \in Ids, QueueSound, SettleFails(h, t)
                   PROVE  QueueSound'
  <1>1. /\ holding' = [holding EXCEPT ![h] = @ \ {t}]
        /\ UNCHANGED <<backend, pushed, waiting, inflight, attempts, firsts, finished>>
    BY DEF SettleFails, Settles
  <1>2. holding' \in [QueueHosts -> SUBSET Ids] /\ \A g \in QueueHosts : holding'[g] \subseteq holding[g]
    BY <1>1 DEF QueueSound, QueueForm
  <1>3. QueueForm'
    BY <1>1, <1>2 DEF QueueSound, QueueForm
  <1>4. HoldersSound'
    BY <1>1, <1>2 DEF QueueSound, HoldersSound
  <1>5. WaitingSound' /\ TriesSound' /\ RowsSound' /\ FirstTriesInOrder' /\ BackGoesFirst' /\ NothingForgotten'
    BY <1>1 DEF QueueSound, WaitingSound, TriesSound, RowsSound, FirstTriesInOrder, BackGoesFirst,
       NothingForgotten
  <1>6. QED  BY <1>3, <1>4, <1>5 DEF QueueSound

LEMMA NextSound == QueueSound /\ [QueueNext]_queueVars => QueueSound'
  <1> SUFFICES ASSUME QueueSound, [QueueNext]_queueVars PROVE QueueSound'
    OBVIOUS
  <1>1. CASE push
    BY <1>1, PushSound
  <1>2. CASE Crashes
    BY <1>2, CrashSound
  <1>3. ASSUME NEW h \in QueueHosts, pop_blocking(h) PROVE QueueSound'
    BY <1>3, PopSound
  <1>4. ASSUME NEW h \in QueueHosts, NEW t \in Ids, ack(h, t) \/ giveUp(h, t) PROVE QueueSound'
    BY <1>4, GoneSound
  <1>5. ASSUME NEW h \in QueueHosts, NEW t \in Ids, nack(h, t) PROVE QueueSound'
    BY <1>5, NackSound
  <1>6. ASSUME NEW h \in QueueHosts, NEW t \in Ids, SettleFails(h, t) PROVE QueueSound'
    BY <1>6, FailSound
  <1>7. CASE UNCHANGED queueVars
    BY <1>7 DEF queueVars, QueueSound, QueueForm, WaitingSound, HoldersSound, TriesSound, RowsSound,
       FirstTriesInOrder, NothingForgotten, BackGoesFirst
  <1>8. QED  BY <1>1, <1>2, <1>3, <1>4, <1>5, <1>6, <1>7 DEF QueueNext

LEMMA QueueSoundHolds == QueueSpec => []QueueSound
  BY InitSound, NextSound, PTL DEF QueueSpec

-----------------------------------------------------------------------------
(* What follows. *)

LEMMA OneHost == QueueSound => OneHostPerTask
  <1> SUFFICES ASSUME QueueSound, NEW t \in Ids
               PROVE  Cardinality({h \in QueueHosts : t \in holding[h]}) <= 1
    BY DEF OneHostPerTask
  <1> DEFINE H == {h \in QueueHosts : t \in holding[h]}
  <1>1. H \subseteq {inflight[t]}
    BY DEF QueueSound, HoldersSound
  <1>2. IsFiniteSet({inflight[t]}) /\ Cardinality({inflight[t]}) = 1
    BY FS_Singleton
  <1> HIDE DEF H
  <1>3. Cardinality(H) <= Cardinality({inflight[t]})
    BY <1>1, <1>2, FS_Subset
  <1>4. QED  BY <1>2, <1>3 DEF H

LEMMA SoundTypes == QueueSound => QueueTypeOK
  <1> SUFFICES ASSUME QueueSound PROVE QueueTypeOK
    OBVIOUS
  <1>1. pushed \in 0..NumTasks /\ pushed \in Nat /\ waiting \in Seq(Ids)
    BY QueueAssumption DEF QueueSound, QueueForm
  <1>2. IsInjective(waiting)
    BY DEF QueueSound, WaitingSound, IsInjective
  <1>3. \A k \in DOMAIN waiting : waiting[k] \in 1..pushed /\ inflight[waiting[k]] = "none"
    <2>1. \A k \in DOMAIN waiting : waiting[k] \in Ids
      BY <1>1
    <2>2. \A k \in DOMAIN waiting : waiting[k] \in 1..NumTasks
      BY <2>1 DEF Ids
    <2>3. \A k \in DOMAIN waiting : waiting[k] <= pushed /\ inflight[waiting[k]] = "none"
      BY DEF QueueSound, WaitingSound
    <2>4. QED  BY <1>1, <2>2, <2>3, QueueAssumption
  <1>4. QED  BY <1>1, <1>2, <1>3 DEF QueueTypeOK, ToSet

(* No task is with two hosts, tried out of its turn or forgotten, and what is *)
(* given back goes before what was never tried, in memory and through any     *)
(* death with the table (InMemoryQueue, SQLiteQueue).                         *)
THEOREM QueueIsFair == QueueSpec => []QueueInv
  <1>1. QueueSound => QueueInv
    BY OneHost, SoundTypes DEF QueueSound, QueueInv
  <1>2. QED  BY QueueSoundHolds, <1>1, PTL

-----------------------------------------------------------------------------
(* The refinement. *)

asSeen == [t \in Ids |-> Seen(t)]

LEMMA Moves ==
    ASSUME NEW t \in Ids, NEW from, Seen(t) \in from, \A u \in Ids : u # t => Seen(u)' = Seen(u)
    PROVE  Contract!Move(t, from, Seen(t)')
  <1>1. asSeen' = [asSeen EXCEPT ![t] = Seen(t)']
    BY DEF asSeen
  <1>2. asSeen[t] \in from
    BY DEF asSeen
  <1>3. QED  BY <1>1, <1>2 DEF Contract!Move, asSeen

LEMMA InitRefines == QueueInit => Contract!ContractInit
  BY DEF QueueInit, Contract!ContractInit, Seen, Ids

Waits(t) == \E k \in DOMAIN waiting : waiting[k] = t

LEMMA SeenIs ==
    ASSUME QueueSound, QueueSound', NEW t \in Ids
    PROVE  /\ Seen(t) = IF t > pushed THEN "new"
                        ELSE IF inflight[t] # "none" THEN inflight[t]
                        ELSE IF Waits(t) THEN "waiting" ELSE "gone"
           /\ Seen(t)' = IF t > pushed' THEN "new"
                         ELSE IF inflight'[t] # "none" THEN inflight'[t]
                         ELSE IF Waits(t)' THEN "waiting" ELSE "gone"
  <1>1. waiting \in Seq(Ids) /\ waiting' \in Seq(Ids)
    BY DEF QueueSound, QueueForm
  <1>2. (Contains(waiting, t) <=> Waits(t)) /\ (Contains(waiting', t) <=> Waits(t)')
    BY <1>1, ContainsIs DEF Waits
  <1>3. QED  BY <1>2 DEF Seen

LEMMA StepRefines ==
    QueueSound /\ QueueSound' /\ [QueueNext]_queueVars => [Contract!ContractNext]_asSeen
  <1> SUFFICES ASSUME QueueSound, QueueSound', [QueueNext]_queueVars
               PROVE  Contract!ContractNext \/ asSeen' = asSeen
    OBVIOUS
  <1>1. /\ waiting \in Seq(Ids) /\ waiting' \in Seq(Ids) /\ pushed \in Nat
        /\ \A t \in Ids : t \in Nat
        /\ inflight \in [Ids -> QueueHosts \cup {"none"}]
        /\ holding \in [QueueHosts -> SUBSET Ids]
    BY QueueAssumption DEF QueueSound, QueueForm, Ids
  <1>2. CASE push
    <2>1. PICK t \in Ids : /\ t = pushed + 1 /\ pushed' = t /\ UNCHANGED inflight
                           /\ waiting' = Append(waiting, t)
      BY <1>1, <1>2, QueueAssumption DEF push, Ids
    <2>2. /\ DOMAIN waiting = 1..Len(waiting) /\ DOMAIN waiting' = 1..(Len(waiting) + 1)
          /\ \A k \in 1..Len(waiting) : waiting'[k] = waiting[k]
          /\ waiting'[Len(waiting) + 1] = t /\ Len(waiting) \in Nat
      BY <1>1, <2>1, AppendProperties, LenProperties
    <2>3. \A u \in Ids : u # t => (Waits(u)' <=> Waits(u))
      <3>1. \A k \in 1..(Len(waiting) + 1) : k = Len(waiting) + 1 \/ k \in 1..Len(waiting)
        BY <2>2
      <3>2. \A k \in 1..Len(waiting) : k \in 1..(Len(waiting) + 1)
        BY <2>2
      <3>3. QED  BY <2>2, <3>1, <3>2 DEF Waits
    <2>4. Waits(t)' /\ inflight'[t] = "none"
      <3>1. t > pushed /\ Len(waiting) + 1 \in 1..(Len(waiting) + 1)
        BY <1>1, <2>1, <2>2
      <3>2. inflight[t] = "none"
        BY <1>1, <3>1 DEF QueueSound, HoldersSound
      <3>3. QED  BY <2>1, <2>2, <3>1, <3>2 DEF Waits
    <2>5. Seen(t) = "new" /\ Seen(t)' = "waiting"
      BY <1>1, <2>1, <2>4, SeenIs
    <2>6. \A u \in Ids : u # t => Seen(u)' = Seen(u)
      <3>1. \A u \in Ids : u # t => (u > pushed' <=> u > pushed)
        BY <1>1, <2>1
      <3>2. QED  BY <2>1, <2>3, <3>1, SeenIs
    <2>7. Contract!Move(t, {"new"}, "waiting")
      BY <2>5, <2>6, Moves
    <2>8. QED  BY <2>7 DEF Contract!ContractNext
  <1>3. ASSUME NEW h \in QueueHosts, pop_blocking(h) PROVE Contract!ContractNext
    <2>1. waiting # <<>> /\ waiting' = Tail(waiting) /\ UNCHANGED pushed
      BY <1>1, <1>3, TakenIs DEF pop_blocking, Deliver, Mark, FirstWaiting, QueueSound, WaitingSound
    <2>2. Head(waiting) \in Ids /\ Head(waiting) = waiting[1]
      BY <1>1, <2>1, HeadTailProperties
    <2>3. PICK t \in Ids : /\ t = waiting[1] /\ inflight' = [inflight EXCEPT ![t] = h]
      BY <1>3, <2>2 DEF pop_blocking, Deliver, Mark, FirstWaiting
    <2>4. /\ DOMAIN waiting = 1..Len(waiting) /\ DOMAIN waiting' = 1..(Len(waiting) - 1)
          /\ \A k \in 1..(Len(waiting) - 1) : waiting'[k] = waiting[k + 1]
          /\ Len(waiting) \in Nat /\ 1 \in DOMAIN waiting
      BY <1>1, <2>1, HeadTailProperties, LenProperties
    <2>5. t <= pushed /\ inflight[t] = "none" /\ Waits(t)
      BY <2>3, <2>4 DEF QueueSound, WaitingSound, Waits
    <2>6. ASSUME NEW u \in Ids, u # t PROVE Waits(u)' <=> Waits(u)
      <3>1. ASSUME NEW k \in 1..Len(waiting), waiting[k] = u
            PROVE  \E j \in 1..(Len(waiting) - 1) : waiting'[j] = u
        <4>1. k # 1
          BY <2>3, <2>6, <3>1
        <4>2. k - 1 \in 1..(Len(waiting) - 1) /\ k - 1 + 1 = k
          BY <2>4, <4>1
        <4>3. QED  BY <2>4, <3>1, <4>2
      <3>2. \A k \in 1..(Len(waiting) - 1) : k + 1 \in 1..Len(waiting)
        BY <2>4
      <3>3. QED  BY <2>4, <3>1, <3>2 DEF Waits
    <2>7. Seen(t) = "waiting"
      BY <1>1, <2>5, SeenIs
    <2>8. inflight'[t] = h /\ h # "none" /\ \A u \in Ids : u # t => inflight'[u] = inflight[u]
      BY <1>1, <2>3, QueueAssumption
    <2>9. Seen(t)' = h
      BY <1>1, <2>1, <2>5, <2>8, SeenIs
    <2>10. \A u \in Ids : u # t => Seen(u)' = Seen(u)
      BY <2>1, <2>6, <2>8, SeenIs
    <2>11. Contract!Move(t, {"waiting"}, h)
      BY <2>7, <2>9, <2>10, Moves
    <2>12. QED  BY <2>11 DEF Contract!ContractNext
  <1>4. ASSUME NEW h \in QueueHosts, NEW t \in Ids, ack(h, t) \/ giveUp(h, t)
        PROVE  Contract!ContractNext
    <2>1. t \in holding[h] /\ UNCHANGED pushed /\ inflight' = [inflight EXCEPT ![t] = "none"]
      BY <1>4 DEF ack, giveUp, Settles, Gone
    <2>2. inflight[t] = h /\ h # "none" /\ t <= pushed /\ ~Contains(waiting, t) /\ ~Waits(t)
      BY <2>1, SettledIs DEF Waits
    <2>3. waiting' = waiting
      BY <1>4, <2>2 DEF ack, giveUp, Gone, Taken
    <2>4. inflight'[t] = "none" /\ \A u \in Ids : u # t => inflight'[u] = inflight[u]
      BY <1>1, <2>1
    <2>5. Seen(t) = h
      BY <1>1, <2>2, SeenIs
    <2>6. Seen(t)' = "gone"
      BY <1>1, <2>1, <2>2, <2>3, <2>4, SeenIs DEF Waits
    <2>7. \A u \in Ids : u # t => Seen(u)' = Seen(u)
      BY <2>1, <2>3, <2>4, SeenIs DEF Waits
    <2>8. Contract!Move(t, QueueHosts, "gone")
      BY <2>5, <2>6, <2>7, Moves
    <2>9. QED  BY <2>8 DEF Contract!ContractNext
  <1>5. ASSUME NEW h \in QueueHosts, NEW t \in Ids, nack(h, t) PROVE Contract!ContractNext
    <2>1. /\ t \in holding[h] /\ UNCHANGED pushed /\ inflight' = [inflight EXCEPT ![t] = "none"]
          /\ waiting' = Back(t)
      BY <1>5 DEF nack, Settles
    <2>2. /\ inflight[t] = h /\ h # "none" /\ t <= pushed
          /\ \A k \in DOMAIN waiting : waiting[k] # t
      BY <2>1, SettledIs
    <2>3. PICK p \in 1..(Len(waiting) + 1) : waiting' = InsertAt(waiting, p, t)
      BY <2>1, <2>2, BackIs
    <2>4. /\ DOMAIN waiting' = 1..(Len(waiting) + 1) /\ DOMAIN waiting = 1..Len(waiting)
          /\ Len(waiting) \in Nat
          /\ \A j \in 1..(Len(waiting) + 1) :
                waiting'[j] = IF j < p THEN waiting[j] ELSE IF j = p THEN t ELSE waiting[j - 1]
      <3>1. waiting \in Seq(Ids)
        BY <1>1
      <3>2. Inserts(waiting, p, t, waiting')
        BY <2>3, <3>1, InsertIs
      <3>3. QED  BY <3>1, <3>2, LenProperties DEF Inserts
    <2>5. Waits(t)'
      BY <2>4 DEF Waits
    <2>6. ASSUME NEW u \in Ids, u # t PROVE Waits(u)' <=> Waits(u)
      <3>1. ASSUME NEW j \in 1..(Len(waiting) + 1), waiting'[j] = u
            PROVE  \E k \in 1..Len(waiting) : waiting[k] = u
        <4>1. CASE j < p
          BY <2>4, <3>1, <4>1
        <4>2. CASE j > p
          <5>1. j - 1 \in 1..Len(waiting)
            BY <2>4, <4>2
          <5>2. QED  BY <2>4, <3>1, <4>2, <5>1
        <4>3. QED  BY <2>4, <2>6, <3>1, <4>1, <4>2
      <3>2. ASSUME NEW k \in 1..Len(waiting), waiting[k] = u
            PROVE  \E j \in 1..(Len(waiting) + 1) : waiting'[j] = u
        <4>1. CASE k < p
          <5>1. k \in 1..(Len(waiting) + 1)
            BY <2>4
          <5>2. QED  BY <2>4, <3>2, <4>1, <5>1
        <4>2. CASE p <= k
          <5>1. k + 1 \in 1..(Len(waiting) + 1) /\ p < k + 1 /\ k + 1 - 1 = k
            BY <2>4, <4>2
          <5>2. ~(k + 1 < p) /\ k + 1 # p
            BY <2>4, <5>1
          <5>3. waiting'[k + 1] = waiting[k + 1 - 1]
            BY <2>4, <5>1, <5>2
          <5>4. QED  BY <3>2, <5>1, <5>3
        <4>3. QED  BY <2>4, <4>1, <4>2
      <3>3. QED  BY <2>4, <3>1, <3>2 DEF Waits
    <2>7. inflight'[t] = "none" /\ \A u \in Ids : u # t => inflight'[u] = inflight[u]
      BY <1>1, <2>1
    <2>8. Seen(t) = h
      BY <1>1, <2>2, SeenIs
    <2>9. Seen(t)' = "waiting"
      BY <1>1, <2>1, <2>2, <2>5, <2>7, SeenIs
    <2>10. \A u \in Ids : u # t => Seen(u)' = Seen(u)
      BY <2>1, <2>6, <2>7, SeenIs
    <2>11. Contract!Move(t, QueueHosts, "waiting")
      BY <2>8, <2>9, <2>10, Moves
    <2>12. QED  BY <2>11 DEF Contract!ContractNext
  <1>6. CASE \/ Crashes \/ UNCHANGED queueVars
             \/ \E h \in QueueHosts, t \in Ids : SettleFails(h, t)
    BY <1>6 DEF Crashes, SettleFails, Settles, queueVars, asSeen, Seen
  <1>7. QED  BY <1>2, <1>3, <1>4, <1>5, <1>6 DEF QueueNext

(* Both queues do what queue/__init__.py promises of every backend, although  *)
(* one keeps a deque and a dictionary, and the other rows that outlive it.    *)
THEOREM BothKeepTheContract == QueueSpec => ImplementsContract
  <1>1. [Contract!ContractNext]_asSeen <=> [Contract!ContractNext]_[t \in Ids |-> Seen(t)]
    BY DEF asSeen
  <1>2. QED
    BY QueueSoundHolds, InitRefines, StepRefines, <1>1, PTL
       DEF QueueSpec, ImplementsContract, Contract!ContractSpec, asSeen
=============================================================================
