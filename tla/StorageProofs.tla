--------------------------- MODULE StorageProofs ---------------------------
(***************************************************************************)
(* What the runner's files hold, what a product command files, what the    *)
(* memory remembers, what a worker's run shows and what a chain of roles   *)
(* promises, for any length of the stream, any number of archives, lines,  *)
(* visions, reports, skills, runs, errors, deaths, steps and issues.       *)
(***************************************************************************)
EXTENDS RunnerFiles, Backlog, Knowledge, SdkRun, Pipeline,
        SequenceTheorems, FiniteSetTheorems, FunctionTheorems, WellFoundedInduction, TLAPS

-----------------------------------------------------------------------------
(* The files.  No file is ever the last place of a load-bearing line when it  *)
(* goes: PlaceSound says, for each step of a rotation and of a consolidation, *)
(* where the lines are that the next step takes away.                         *)

Slots == 1..MAX_ARCHIVES

-----------------------------------------------------------------------------
(* The inductive invariant. *)

(* The lines of a file are those that were written under their numbers. *)
Genuine(log, kinds) ==
    \A k \in DOMAIN log : log[k].n \in 1..Len(kinds) /\ log[k].kind = kinds[log[k].n]

LinesSound ==
    /\ Len(written) <= MaxLines
    /\ Genuine(live, written) /\ Genuine(run.lines, written)
    /\ \A n \in Slots : Genuine(archive[n], written)

(* What the runner is about to empty, move or replace is elsewhere, or meant  *)
(* to go, or was put there by another process.                                *)
PlaceSound ==
    /\ run.pc \notin {"cut", "fill"} => run.lines = <<>>
    /\ run.pc \in {"preserve", "unlink"} => run.at = MAX_ARCHIVES - 1
    /\ run.pc = "unlink" /\ ioErrors = 0 => Bearing(archive[MAX_ARCHIVES]) \subseteq preserved
    /\ run.pc = "shift" => run.at < MAX_ARCHIVES /\ archive[run.at + 1] = <<>>
    /\ run.pc = "rename" => archive[1] = <<>>
    /\ run.pc = "cut" => On(run.lines) \subseteq On(live)
                         /\ On(live) \subseteq On(run.lines) \cup dropped \cup mislaid
    /\ run.pc = "fill" => On(live) \subseteq mislaid
    /\ run.pc = "replace" => stateFile.tmp = "whole"

Before(older, younger) == \A b \in On(older), a \in On(younger) : b < a

(* The archives are in the order of time, and so is what is about to follow.  *)
OrderSound ==
    /\ \A m, n \in Slots : m < n => Before(archive[n], archive[m])
    /\ \A n \in Slots : Before(archive[n], live) /\ Before(archive[n], run.lines)

FilesSound ==
    /\ FilesTypeOK /\ LinesSound /\ PlaceSound /\ OrderSound
    /\ LoadBearingKept /\ StateIsWhole

-----------------------------------------------------------------------------
(* The lines on a file. *)

LEMMA OnEmpty == On(<<>>) = {} /\ Bearing(<<>>) = {}
  BY DEF On, Bearing

LEMMA OnAppend ==
    ASSUME NEW log \in Seq(Line), NEW line \in Line
    PROVE  /\ Append(log, line) \in Seq(Line)
           /\ On(Append(log, line)) = On(log) \cup {line.n}
  <1>1. /\ Append(log, line) \in Seq(Line) /\ Len(Append(log, line)) = Len(log) + 1
        /\ \A k \in 1..Len(log) : Append(log, line)[k] = log[k]
        /\ Append(log, line)[Len(log) + 1] = line
    BY AppendProperties
  <1>2. DOMAIN Append(log, line) = DOMAIN log \cup {Len(log) + 1} /\ DOMAIN log = 1..Len(log)
    BY <1>1
  <1>3. QED  BY <1>1, <1>2 DEF On

(* The last lines of a file, and those before them. *)
LEMMA OnLast ==
    ASSUME NEW log \in Seq(Line), NEW keep \in Nat, keep < Len(log)
    PROVE  LET last == SubSeq(log, Len(log) - keep + 1, Len(log))
           IN  /\ last \in Seq(Line)
               /\ On(log) = On(last) \cup {log[k].n : k \in 1..(Len(log) - keep)}
               /\ \A kinds : Genuine(log, kinds) => Genuine(last, kinds)
  <1> DEFINE first == Len(log) - keep
             last == SubSeq(log, first + 1, Len(log))
  <1>1. first \in Nat /\ Len(log) \in Nat /\ first < Len(log) + 1 /\ DOMAIN log = 1..Len(log)
    OBVIOUS
  <1>2. /\ last \in Seq(Line) /\ DOMAIN last = 1..keep
        /\ \A k \in 1..keep : last[k] = log[first + k]
    BY <1>1, SubSeqProperties
  <1>3. \A k \in 1..Len(log) : k \in 1..first \/ \E j \in 1..keep : k = first + j
    <2> TAKE k \in 1..Len(log)
    <2>1. k \notin 1..first => k - first \in 1..keep /\ k = first + (k - first)
      BY <1>1
    <2>2. QED  BY <2>1
  <1>4. \A j \in 1..keep : first + j \in 1..Len(log)
    BY <1>1
  <1>5. On(log) = On(last) \cup {log[k].n : k \in 1..first}
    <2>1. \A k \in 1..first : k \in 1..Len(log)
      BY <1>1
    <2>2. ASSUME NEW n \in On(log)
          PROVE  n \in On(last) \cup {log[k].n : k \in 1..first}
      <3>1. PICK k \in 1..Len(log) : n = log[k].n
        BY <1>1 DEF On
      <3>2. CASE k \notin 1..first
        <4>1. PICK j \in 1..keep : k = first + j
          BY <1>3, <3>2
        <4>2. QED  BY <1>2, <3>1, <4>1 DEF On
      <3>3. QED  BY <3>1, <3>2
    <2>3. {log[k].n : k \in 1..first} \subseteq On(log)
      BY <1>1, <2>1 DEF On
    <2>4. On(last) \subseteq On(log)
      BY <1>1, <1>2, <1>4 DEF On
    <2>5. QED  BY <2>2, <2>3, <2>4
  <1>6. ASSUME NEW kinds, Genuine(log, kinds) PROVE Genuine(last, kinds)
    <2>1. \A j \in 1..Len(log) : log[j].n \in 1..Len(kinds) /\ log[j].kind = kinds[log[j].n]
      BY <1>1, <1>6 DEF Genuine
    <2>2. \A k \in 1..keep : last[k].n \in 1..Len(kinds) /\ last[k].kind = kinds[last[k].n]
      BY <1>2, <1>4, <2>1
    <2> HIDE DEF last
    <2>3. QED  BY <1>2, <2>2 DEF Genuine
  <1>7. QED  BY <1>2, <1>5, <1>6

(* Where a load-bearing line may be. *)
Saved(n) ==
    \/ n \in On(live) \/ n \in preserved \/ n \in On(run.lines) \/ n \in dropped \/ n \in mislaid
    \/ \E m \in Slots : n \in On(archive[m])

LEMMA SavedIs ==
    /\ LoadBearingKept <=>
          (ioErrors = 0 => \A n \in DOMAIN written : written[n] # "telemetry" => Saved(n))
    /\ LoadBearingKept' <=>
          (ioErrors' = 0 => \A n \in DOMAIN written' : written'[n] # "telemetry" => Saved(n)')
  BY DEF LoadBearingKept, Saved, OnDisk, Slots

(* A step that writes no line keeps what it keeps. *)
LEMMA KeptByMoving ==
    ASSUME LoadBearingKept, written' = written, ioErrors' = 0 => ioErrors = 0,
           ioErrors' = 0 =>
             \A n \in DOMAIN written : written[n] # "telemetry" /\ Saved(n) => Saved(n)'
    PROVE  LoadBearingKept'
  BY SavedIs

LEMMA OrderIs == FilesSound => ArchivesInOrder
  BY DEF FilesSound, OrderSound, Before, ArchivesInOrder, Slots
-----------------------------------------------------------------------------
(* Appending. *)

LEMMA AppendFacts ==
    ASSUME FilesSound, NEW kind \in LineKinds, append_event(kind)
    PROVE  /\ live' \in Seq(Line) /\ written' \in Seq(LineKinds)
           /\ Len(written') = Len(written) + 1 /\ Len(written) \in Nat /\ Len(written') <= MaxLines
           /\ On(live') = On(live) \cup {Len(written')}
           /\ Genuine(live', written')
           /\ \A log \in Seq(Line) : Genuine(log, written) => Genuine(log, written')
           /\ \A n \in 1..Len(written) : written'[n] = written[n]
  <1> DEFINE line == [n |-> Len(written) + 1, kind |-> kind]
  <1>1. /\ live \in Seq(Line) /\ written \in Seq(LineKinds) /\ Len(written) \in Nat
        /\ Len(written) < MaxLines /\ MaxLines \in Nat /\ Genuine(live, written)
    BY FilesAssumption DEF FilesSound, FilesTypeOK, LinesSound, append_event
  <1>2. live' = Append(live, line) /\ written' = Append(written, kind)
    BY DEF append_event
  <1>3. line \in Line
    BY <1>1 DEF Line
  <1>4. /\ written' \in Seq(LineKinds) /\ Len(written') = Len(written) + 1
        /\ \A n \in 1..Len(written) : written'[n] = written[n]
        /\ written'[Len(written) + 1] = kind
    BY <1>1, <1>2, AppendProperties
  <1>5. live' \in Seq(Line) /\ On(live') = On(live) \cup {Len(written')}
    BY <1>1, <1>2, <1>3, <1>4, OnAppend
  <1>6. \A log \in Seq(Line) : Genuine(log, written) => Genuine(log, written')
    BY <1>1, <1>4 DEF Genuine
  <1>7. Genuine(live', written')
    <2>1. Genuine(live, written')
      BY <1>1, <1>6
    <2>2. /\ Len(live') = Len(live) + 1 /\ Len(live) \in Nat
          /\ \A k \in 1..Len(live) : live'[k] = live[k]
          /\ live'[Len(live) + 1] = line
      BY <1>1, <1>2, <1>3, AppendProperties
    <2>3. DOMAIN live' = 1..(Len(live) + 1) /\ DOMAIN live = 1..Len(live)
      BY <1>1, <1>5, <2>2
    <2>4. line.n \in 1..Len(written') /\ line.kind = written'[line.n]
      BY <1>1, <1>4
    <2>5. \A k \in 1..(Len(live) + 1) : k \in 1..Len(live) \/ k = Len(live) + 1
      BY <2>2
    <2>6. QED  BY <2>1, <2>2, <2>3, <2>4, <2>5 DEF Genuine
  <1>8. Len(written') <= MaxLines
    BY <1>1, <1>4
  <1>9. QED  BY <1>1, <1>4, <1>5, <1>6, <1>7, <1>8

(* What is on a genuine file was written. *)
LEMMA OnGenuine ==
    ASSUME NEW log, NEW kinds, Genuine(log, kinds)
    PROVE  On(log) \subseteq 1..Len(kinds)
  BY DEF On, Genuine

(* A line is appended, by the runner or by another process, and a rotation    *)
(* may end with it.                                                           *)
LEMMA AppendSound ==
    ASSUME FilesSound, NEW kind \in LineKinds, append_event(kind),
           UNCHANGED <<archive, preserved, stateFile, dropped, kills>>,
           ioErrors' \in 0..MaxIoErrors, ioErrors' = 0 => ioErrors = 0,
           \/ /\ run' = run /\ ioErrors' = ioErrors
              /\ mislaid' = IF run.pc \in {"cut", "fill"} THEN mislaid \cup {Len(written')} ELSE mislaid
           \/ /\ run.pc \notin {"cut", "fill"} /\ run' = [run EXCEPT !.pc = "idle", !.at = 0]
              /\ mislaid' = mislaid
    PROVE  FilesSound'
  <1>0. /\ FilesTypeOK /\ LinesSound /\ PlaceSound /\ OrderSound /\ LoadBearingKept /\ StateIsWhole
        /\ run \in Runner /\ run.lines \in Seq(Line)
        /\ \A n \in Slots : archive[n] \in Seq(Line)
    BY DEF FilesSound, FilesTypeOK, Runner, Slots
  <1>1. /\ live' \in Seq(Line) /\ written' \in Seq(LineKinds)
        /\ Len(written') = Len(written) + 1 /\ Len(written) \in Nat /\ Len(written') <= MaxLines
        /\ On(live') = On(live) \cup {Len(written')}
        /\ Genuine(live', written')
        /\ \A log \in Seq(Line) : Genuine(log, written) => Genuine(log, written')
        /\ \A n \in 1..Len(written) : written'[n] = written[n]
    BY AppendFacts
  <1>2. /\ run' \in Runner /\ run'.lines = run.lines
        /\ run'.pc # run.pc => run'.pc = "idle" /\ run.pc \notin {"cut", "fill"}
        /\ run'.pc = "idle" \/ run' = run
    <2>1. CASE run' = run
      BY <1>0, <2>1
    <2>2. CASE run.pc \notin {"cut", "fill"} /\ run' = [run EXCEPT !.pc = "idle", !.at = 0]
      <3>1. 0 \in 0..MAX_ARCHIVES
        BY FilesAssumption
      <3>2. run' \in Runner /\ run'.lines = run.lines /\ run'.pc = "idle"
        BY <1>0, <2>2, <3>1 DEF Runner
      <3>3. QED  BY <2>2, <3>2
    <2>3. QED  BY <2>1, <2>2
  <1>3. mislaid \subseteq mislaid' /\ mislaid' \subseteq mislaid \cup {Len(written')}
    OBVIOUS
  <1>4. FilesTypeOK'
    <2>1. \A n \in 1..Len(written) : n \in 1..Len(written')
      BY <1>1
    <2>2. Len(written') \in 1..Len(written')
      BY <1>1
    <2>3. preserved' \subseteq 1..Len(written') /\ dropped' \cup mislaid' \subseteq 1..Len(written')
      BY <1>0, <1>3, <2>1, <2>2 DEF FilesTypeOK
    <2>4. QED  BY <1>0, <1>1, <1>2, <2>3 DEF FilesTypeOK
  <1>5. LinesSound'
    BY <1>0, <1>1, <1>2 DEF LinesSound
  <1>6. PlaceSound'
    <2>1. CASE run' = run
      <3>1. run.pc \in {"cut", "fill"} => mislaid' = mislaid \cup {Len(written')}
        BY <2>1
      <3>2. QED  BY <1>0, <1>1, <1>3, <2>1, <3>1 DEF PlaceSound
    <2>2. CASE run'.pc = "idle" /\ run.pc \notin {"cut", "fill"}
      BY <1>0, <1>2, <2>2 DEF PlaceSound
    <2>3. QED  BY <1>2, <2>1, <2>2
  <1>7. OrderSound'
    <2>1. \A n \in Slots : Before(archive[n], live)'
      <3> SUFFICES ASSUME NEW n \in Slots, NEW b \in On(archive[n]), NEW a \in On(live') PROVE b < a
        BY DEF Before
      <3>1. b \in 1..Len(written)
        BY <1>0, OnGenuine DEF LinesSound
      <3>2. CASE a \in On(live)
        BY <1>0, <3>2 DEF OrderSound, Before
      <3>3. QED  BY <1>1, <3>1, <3>2
    <2>2. QED  BY <1>0, <1>2, <2>1 DEF OrderSound, Before
  <1>8. LoadBearingKept'
    <2> SUFFICES ASSUME ioErrors' = 0, NEW n \in DOMAIN written', written'[n] # "telemetry"
                 PROVE  Saved(n)'
      BY SavedIs
    <2>1. n \in 1..Len(written) \/ n = Len(written')
      BY <1>1
    <2>2. CASE n = Len(written')
      BY <1>1, <2>2 DEF Saved
    <2>3. CASE n \in 1..Len(written)
      <3>1. n \in DOMAIN written /\ written[n] # "telemetry"
        BY <1>0, <1>1, <2>3 DEF FilesTypeOK
      <3>2. Saved(n)
        BY <1>0, <3>1, SavedIs
      <3>3. QED  BY <1>1, <1>2, <1>3, <3>2 DEF Saved
    <2>4. QED  BY <2>1, <2>2, <2>3
  <1>9. StateIsWhole'
    BY <1>0 DEF StateIsWhole
  <1>10. QED  BY <1>4, <1>5, <1>6, <1>7, <1>8, <1>9 DEF FilesSound
-----------------------------------------------------------------------------
(* The other steps. *)

RunnerPC == {"boot", "preserve", "unlink", "shift", "rename", "touch", "idle", "cut", "fill",
             "state", "replace", "down"}

LEMMA AtMoves ==
    ASSUME run \in Runner, NEW pc \in RunnerPC, NEW n \in 0..MAX_ARCHIVES, At(pc, n)
    PROVE  run' \in Runner /\ run'.pc = pc /\ run'.at = n /\ run'.lines = run.lines
  BY DEF Runner, RunnerPC, At

LEMMA IdleMoves ==
    ASSUME NEW pc \in RunnerPC, run' = [Idle EXCEPT !.pc = pc]
    PROVE  run' \in Runner /\ run'.pc = pc /\ run'.at = 0 /\ run'.lines = <<>>
  <1>1. 0 \in 0..MAX_ARCHIVES /\ <<>> \in Seq(Line)
    BY FilesAssumption
  <1>2. QED  BY <1>1 DEF Runner, RunnerPC, Idle

LEMMA Slotted ==
    ASSUME FilesTypeOK
    PROVE  /\ 1 \in Slots /\ MAX_ARCHIVES \in Slots /\ MAX_ARCHIVES - 1 \in 0..MAX_ARCHIVES
           /\ \A n \in Slots : archive[n] \in Seq(Line)
           /\ run \in Runner /\ run.lines \in Seq(Line) /\ run.at \in 0..MAX_ARCHIVES
  <1>1. MAX_ARCHIVES \in Nat /\ MAX_ARCHIVES # 0
    BY FilesAssumption
  <1>2. 1 \in Slots /\ MAX_ARCHIVES \in Slots /\ MAX_ARCHIVES - 1 \in 0..MAX_ARCHIVES
    BY <1>1 DEF Slots
  <1>3. \A n \in Slots : archive[n] \in Seq(Line)
    BY DEF FilesTypeOK, Slots
  <1>4. run \in Runner /\ run.lines \in Seq(Line) /\ run.at \in 0..MAX_ARCHIVES
    BY DEF FilesTypeOK, Runner
  <1>5. QED  BY <1>2, <1>3, <1>4

(* A step that leaves the stream and its archives alone. *)
LEMMA QuietSound ==
    ASSUME FilesSound, UNCHANGED <<live, archive, preserved, written, dropped, mislaid>>,
           run' \in Runner, run'.lines = run.lines, PlaceSound', StateIsWhole',
           stateFile' \in [main : {"missing", "whole", "torn"}, tmp : {"missing", "whole", "torn"}],
           ioErrors' \in 0..MaxIoErrors, ioErrors' = 0 => ioErrors = 0, kills' \in 0..MaxKills
    PROVE  FilesSound'
  <1>1. FilesTypeOK' /\ LinesSound' /\ OrderSound'
    BY DEF FilesSound, FilesTypeOK, LinesSound, OrderSound, Before
  <1>2. LoadBearingKept'
    BY KeptByMoving DEF FilesSound, Saved
  <1>3. QED  BY <1>1, <1>2 DEF FilesSound

LEMMA RotateSound == FilesSound /\ rotate_events_file_if_needed => FilesSound'
  <1> SUFFICES ASSUME FilesSound, rotate_events_file_if_needed PROVE FilesSound'
    OBVIOUS
  <1>0. FilesTypeOK /\ PlaceSound /\ StateIsWhole
    BY DEF FilesSound
  <1>1. /\ run.pc = "boot" /\ run.lines = <<>>
        /\ UNCHANGED <<live, archive, preserved, stateFile, histories, fileBounds>>
    BY <1>0 DEF rotate_events_file_if_needed, PlaceSound
  <1>2. CASE At("idle", 0)
    <2>1. run' \in Runner /\ run'.pc = "idle" /\ run'.lines = run.lines
      BY <1>0, <1>2, AtMoves, Slotted, FilesAssumption DEF RunnerPC
    <2>2. PlaceSound'
      BY <1>1, <2>1 DEF PlaceSound
    <2>3. QED  BY <1>0, <1>1, <2>1, <2>2, QuietSound DEF FilesTypeOK, StateIsWhole, histories, fileBounds
  <1>3. CASE archive[MAX_ARCHIVES] # <<>> /\ At("preserve", MAX_ARCHIVES - 1)
    <2>1. /\ run' \in Runner /\ run'.pc = "preserve" /\ run'.at = MAX_ARCHIVES - 1
          /\ run'.lines = run.lines
      BY <1>0, <1>3, AtMoves, Slotted DEF RunnerPC
    <2>2. PlaceSound'
      BY <1>1, <2>1 DEF PlaceSound
    <2>3. QED  BY <1>0, <1>1, <2>1, <2>2, QuietSound DEF FilesTypeOK, StateIsWhole, histories, fileBounds
  <1>4. CASE archive[MAX_ARCHIVES] = <<>> /\ At("shift", MAX_ARCHIVES - 1)
    <2>1. /\ run' \in Runner /\ run'.pc = "shift" /\ run'.at = MAX_ARCHIVES - 1
          /\ run'.lines = run.lines
      BY <1>0, <1>4, AtMoves, Slotted DEF RunnerPC
    <2>2. (MAX_ARCHIVES - 1) + 1 = MAX_ARCHIVES /\ MAX_ARCHIVES - 1 < MAX_ARCHIVES
      BY FilesAssumption
    <2>3. PlaceSound'
      BY <1>1, <1>4, <2>1, <2>2 DEF PlaceSound
    <2>4. QED  BY <1>0, <1>1, <2>1, <2>3, QuietSound DEF FilesTypeOK, StateIsWhole, histories, fileBounds
  <1>5. QED  BY <1>2, <1>3, <1>4 DEF rotate_events_file_if_needed

LEMMA PreserveSound == FilesSound /\ _preserve_load_bearing_lines => FilesSound'
  <1> SUFFICES ASSUME FilesSound, _preserve_load_bearing_lines PROVE FilesSound'
    OBVIOUS
  <1> DEFINE oldest == archive[MAX_ARCHIVES]
  <1>0. /\ FilesTypeOK /\ LinesSound /\ PlaceSound /\ OrderSound /\ LoadBearingKept /\ StateIsWhole
        /\ UNCHANGED <<live, archive, stateFile, histories, kills>>
        /\ run.pc = "preserve" /\ At("unlink", run.at)
    BY DEF FilesSound, _preserve_load_bearing_lines
  <1>1. /\ run' \in Runner /\ run'.pc = "unlink" /\ run'.at = run.at /\ run'.lines = run.lines
        /\ run.lines = <<>> /\ run.at = MAX_ARCHIVES - 1
    BY <1>0, AtMoves, Slotted DEF RunnerPC, PlaceSound
  <1>2. /\ preserved \subseteq preserved' /\ preserved' \subseteq preserved \cup Bearing(oldest)
        /\ ioErrors' = 0 => ioErrors = 0 /\ Bearing(oldest) \subseteq preserved'
        /\ ioErrors' \in 0..MaxIoErrors
    <2>1. ioErrors \in 0..MaxIoErrors /\ MaxIoErrors \in Nat
      BY <1>0, FilesAssumption DEF FilesTypeOK
    <2>2. CASE preserved' = preserved \cup Bearing(oldest) /\ ioErrors' = ioErrors
      BY <2>1, <2>2
    <2>3. CASE IoError /\ preserved' = preserved
      <3>1. ioErrors' \in 0..MaxIoErrors /\ ioErrors' # 0
        BY <2>1, <2>3 DEF IoError
      <3>2. QED  BY <2>3, <3>1
    <2>4. QED  BY <2>2, <2>3 DEF _preserve_load_bearing_lines
  <1>3. Bearing(oldest) \subseteq 1..Len(written)
    BY <1>0, Slotted DEF LinesSound, Genuine, Bearing
  <1>4. FilesTypeOK'
    BY <1>0, <1>1, <1>2, <1>3 DEF FilesTypeOK, histories
  <1>5. LinesSound' /\ OrderSound' /\ StateIsWhole'
    BY <1>0, <1>1 DEF LinesSound, OrderSound, Before, StateIsWhole, histories
  <1>6. PlaceSound'
    BY <1>0, <1>1, <1>2 DEF PlaceSound, histories
  <1>7. LoadBearingKept'
    BY <1>0, <1>1, <1>2, KeptByMoving DEF Saved, histories
  <1>8. QED  BY <1>4, <1>5, <1>6, <1>7 DEF FilesSound

(* The load-bearing lines of a genuine file. *)
LEMMA BearingGenuine ==
    ASSUME NEW log, NEW kinds, Genuine(log, kinds), NEW n \in On(log), kinds[n] # "telemetry"
    PROVE  n \in Bearing(log)
  BY DEF On, Bearing, Genuine, is_load_bearing

LEMMA UnlinkSound == FilesSound /\ UnlinkOldest => FilesSound'
  <1> SUFFICES ASSUME FilesSound, UnlinkOldest PROVE FilesSound'
    OBVIOUS
  <1>0. /\ FilesTypeOK /\ LinesSound /\ PlaceSound /\ OrderSound /\ LoadBearingKept /\ StateIsWhole
        /\ UNCHANGED <<live, preserved, stateFile, histories, fileBounds>>
        /\ run.pc = "unlink" /\ At("shift", run.at)
        /\ archive' = [archive EXCEPT ![MAX_ARCHIVES] = <<>>]
    BY DEF FilesSound, UnlinkOldest
  <1>1. /\ run' \in Runner /\ run'.pc = "shift" /\ run'.at = run.at /\ run'.lines = run.lines
        /\ run.lines = <<>> /\ run.at = MAX_ARCHIVES - 1
    BY <1>0, AtMoves, Slotted DEF RunnerPC, PlaceSound
  <1>2. /\ archive' \in [Slots -> Seq(Line)] /\ archive'[MAX_ARCHIVES] = <<>>
        /\ \A n \in Slots : n # MAX_ARCHIVES => archive'[n] = archive[n]
    BY <1>0, Slotted DEF FilesTypeOK, Slots
  <1>3. FilesTypeOK'
    BY <1>0, <1>1, <1>2 DEF FilesTypeOK, histories, fileBounds, Slots
  <1>4. \A n \in Slots : archive'[n] = archive[n] \/ archive'[n] = <<>>
    BY <1>2
  <1>5. LinesSound' /\ OrderSound' /\ StateIsWhole'
    <2>1. LinesSound'
      BY <1>0, <1>1, <1>4 DEF LinesSound, histories, Genuine
    <2>2. OrderSound'
      BY <1>0, <1>1, <1>4, OnEmpty DEF OrderSound, Before, histories
    <2>3. QED  BY <1>0, <2>1, <2>2 DEF StateIsWhole
  <1>6. PlaceSound'
    <2>1. (MAX_ARCHIVES - 1) + 1 = MAX_ARCHIVES /\ MAX_ARCHIVES - 1 < MAX_ARCHIVES
      BY FilesAssumption
    <2>2. QED  BY <1>0, <1>1, <1>2, <2>1 DEF PlaceSound, histories
  <1>7. LoadBearingKept'
    <2>1. ASSUME ioErrors = 0, NEW n, written[n] # "telemetry", Saved(n) PROVE Saved(n)'
      <3>1. CASE n \in On(archive[MAX_ARCHIVES])
        <4>1. n \in Bearing(archive[MAX_ARCHIVES])
          BY <1>0, <2>1, <3>1, Slotted, BearingGenuine DEF LinesSound
        <4>2. n \in preserved
          BY <1>0, <2>1, <4>1 DEF PlaceSound
        <4>3. QED  BY <1>0, <4>2 DEF Saved
      <3>2. CASE n \notin On(archive[MAX_ARCHIVES])
        BY <1>0, <1>1, <1>2, <2>1, <3>2 DEF Saved, histories
      <3>3. QED  BY <3>1, <3>2
    <2>2. QED  BY <1>0, <2>1, KeptByMoving DEF histories, fileBounds
  <1>8. QED  BY <1>3, <1>5, <1>6, <1>7 DEF FilesSound
LEMMA ShiftSound == FilesSound /\ ShiftArchive => FilesSound'
  <1> SUFFICES ASSUME FilesSound, ShiftArchive PROVE FilesSound'
    OBVIOUS
  <1>0. /\ FilesTypeOK /\ LinesSound /\ PlaceSound /\ OrderSound /\ LoadBearingKept /\ StateIsWhole
        /\ UNCHANGED <<live, preserved, stateFile, histories, fileBounds>>
        /\ run.pc = "shift" /\ run.lines = <<>>
        /\ run.at \in Nat /\ run.at < MAX_ARCHIVES /\ archive[run.at + 1] = <<>>
    BY Slotted DEF FilesSound, ShiftArchive, PlaceSound
  <1>1. CASE run.at = 0 /\ At("rename", 0) /\ UNCHANGED archive
    <2>1. run' \in Runner /\ run'.pc = "rename" /\ run'.lines = run.lines
      BY <1>0, <1>1, AtMoves, Slotted, FilesAssumption DEF RunnerPC
    <2>2. archive[1] = <<>>
      BY <1>0, <1>1
    <2>3. PlaceSound'
      BY <1>0, <1>1, <2>1, <2>2 DEF PlaceSound
    <2>4. QED  BY <1>0, <1>1, <2>1, <2>3, QuietSound DEF FilesTypeOK, StateIsWhole, histories, fileBounds
  <1>2. CASE run.at # 0 /\ At("shift", run.at - 1)
    <2> DEFINE k == run.at
    <2>0. k \in Slots /\ k + 1 \in Slots /\ k - 1 \in 0..MAX_ARCHIVES /\ k - 1 < MAX_ARCHIVES
          /\ (k - 1) + 1 = k /\ k # k + 1
      <3>1. MAX_ARCHIVES \in Nat
        BY FilesAssumption
      <3>2. QED  BY <1>0, <1>2, <3>1 DEF Slots
    <2>1. /\ run' \in Runner /\ run'.pc = "shift" /\ run'.at = k - 1 /\ run'.lines = run.lines
      BY <1>0, <1>2, <2>0, AtMoves, Slotted DEF RunnerPC
    <2>2. /\ archive' \in [Slots -> Seq(Line)]
          /\ archive'[k + 1] = archive[k] /\ archive'[k] = <<>>
          /\ \A n \in Slots : n # k /\ n # k + 1 => archive'[n] = archive[n]
      <3>1. CASE archive[k] = <<>>
        BY <1>0, <1>2, <3>1 DEF ShiftArchive, FilesTypeOK, Slots
      <3>2. CASE archive[k] # <<>>
        <4>1. archive' = [archive EXCEPT ![k + 1] = archive[k], ![k] = <<>>]
          BY <1>2, <3>2 DEF ShiftArchive
        <4>2. archive \in [Slots -> Seq(Line)] /\ <<>> \in Seq(Line)
          BY <1>0 DEF FilesTypeOK, Slots
        <4>3. QED  BY <2>0, <4>1, <4>2
      <3>3. QED  BY <3>1, <3>2
    <2>3. FilesTypeOK'
      BY <1>0, <2>1, <2>2 DEF FilesTypeOK, histories, fileBounds, Slots
    <2>4. LinesSound'
      <3>1. Genuine(<<>>, written)
        BY DEF Genuine
      <3>2. \A n \in Slots : Genuine(archive'[n], written)
        BY <1>0, <2>0, <2>2, <3>1 DEF LinesSound
      <3>3. QED  BY <1>0, <2>1, <3>2 DEF LinesSound, histories
    <2>5. OrderSound'
      <3>1. \A n \in Slots : n # k /\ n # k + 1 => On(archive'[n]) = On(archive[n])
        BY <2>2
      <3>2. On(archive'[k]) = {} /\ On(archive'[k + 1]) = On(archive[k])
        BY <2>2, OnEmpty
      <3>3. ASSUME NEW m \in Slots, NEW n \in Slots, m < n PROVE Before(archive[n], archive[m])'
        <4>1. CASE m = k \/ n = k
          BY <3>2, <4>1 DEF Before
        <4>2. CASE m = k + 1 /\ n # k
          <5>1. k < n /\ n # k + 1
            BY <1>0, <3>3, <4>2 DEF Slots
          <5>2. QED  BY <1>0, <2>0, <3>1, <3>2, <4>2, <5>1 DEF OrderSound, Before
        <4>3. CASE n = k + 1 /\ m # k
          <5>1. m < k
            BY <1>0, <3>3, <4>3 DEF Slots
          <5>2. QED  BY <1>0, <2>0, <3>1, <3>2, <4>3, <5>1 DEF OrderSound, Before
        <4>4. CASE m \notin {k, k + 1} /\ n \notin {k, k + 1}
          BY <1>0, <3>1, <3>3, <4>4 DEF OrderSound, Before
        <4>5. QED  BY <3>3, <4>1, <4>2, <4>3, <4>4
      <3>4. ASSUME NEW n \in Slots PROVE (Before(archive[n], live) /\ Before(archive[n], run.lines))'
        BY <1>0, <2>0, <2>1, <3>1, <3>2 DEF OrderSound, Before
      <3>5. QED  BY <3>3, <3>4 DEF OrderSound
    <2>6. PlaceSound'
      BY <1>0, <2>0, <2>1, <2>2 DEF PlaceSound
    <2>7. LoadBearingKept'
      <3>1. ASSUME NEW n, Saved(n) PROVE Saved(n)'
        <4>1. ASSUME NEW m \in Slots, n \in On(archive[m]) PROVE \E j \in Slots : n \in On(archive'[j])
          <5>1. CASE m = k
            BY <2>0, <2>2, <4>1, <5>1
          <5>2. CASE m = k + 1
            BY <1>0, <4>1, <5>2, OnEmpty
          <5>3. QED  BY <2>2, <4>1, <5>1, <5>2
        <4>2. QED  BY <1>0, <2>1, <3>1, <4>1 DEF Saved, histories
      <3>2. QED  BY <1>0, <3>1, KeptByMoving DEF histories, fileBounds
    <2>8. QED  BY <1>0, <2>3, <2>4, <2>5, <2>6, <2>7 DEF FilesSound, StateIsWhole
  <1>3. QED  BY <1>1, <1>2 DEF ShiftArchive

LEMMA RenameSound == FilesSound /\ RenameLive => FilesSound'
  <1> SUFFICES ASSUME FilesSound, RenameLive PROVE FilesSound'
    OBVIOUS
  <1>0. /\ FilesTypeOK /\ LinesSound /\ PlaceSound /\ OrderSound /\ LoadBearingKept /\ StateIsWhole
        /\ UNCHANGED <<preserved, stateFile, histories, fileBounds>>
        /\ run.pc = "rename" /\ At("touch", 0) /\ run.lines = <<>> /\ archive[1] = <<>>
        /\ live' = <<>> /\ archive' = [archive EXCEPT ![1] = live]
    BY DEF FilesSound, RenameLive, PlaceSound
  <1>1. run' \in Runner /\ run'.pc = "touch" /\ run'.lines = run.lines
    BY <1>0, AtMoves, Slotted, FilesAssumption DEF RunnerPC
  <1>2. /\ archive' \in [Slots -> Seq(Line)] /\ archive'[1] = live /\ 1 \in Slots
        /\ \A n \in Slots : n # 1 => archive'[n] = archive[n]
    BY <1>0, Slotted DEF FilesTypeOK, Slots
  <1>3. FilesTypeOK'
    BY <1>0, <1>1, <1>2 DEF FilesTypeOK, histories, fileBounds, Slots
  <1>4. LinesSound'
    <2>1. Genuine(<<>>, written)
      BY DEF Genuine
    <2>2. \A n \in Slots : Genuine(archive'[n], written)
      BY <1>0, <1>2 DEF LinesSound
    <2>3. QED  BY <1>0, <1>1, <2>1, <2>2 DEF LinesSound, histories
  <1>5. OrderSound'
    <2>1. ASSUME NEW m \in Slots, NEW n \in Slots, m < n PROVE Before(archive[n], archive[m])'
      <3>1. n # 1 /\ archive'[n] = archive[n]
        BY <1>2, <2>1 DEF Slots
      <3>2. CASE m = 1
        BY <1>0, <1>2, <3>1, <3>2 DEF OrderSound, Before
      <3>3. CASE m # 1
        BY <1>0, <1>2, <2>1, <3>1, <3>3 DEF OrderSound, Before
      <3>4. QED  BY <3>2, <3>3
    <2>2. ASSUME NEW n \in Slots PROVE (Before(archive[n], live) /\ Before(archive[n], run.lines))'
      BY <1>0, <1>1, OnEmpty DEF Before
    <2>3. QED  BY <2>1, <2>2 DEF OrderSound
  <1>6. PlaceSound'
    BY <1>0, <1>1 DEF PlaceSound
  <1>7. LoadBearingKept'
    <2>1. ASSUME NEW n, Saved(n) PROVE Saved(n)'
      BY <1>0, <1>1, <1>2, <2>1, OnEmpty DEF Saved, histories
    <2>2. QED  BY <1>0, <2>1, KeptByMoving DEF histories, fileBounds
  <1>8. QED  BY <1>0, <1>3, <1>4, <1>5, <1>6, <1>7 DEF FilesSound, StateIsWhole
(* The end of a rotation, with its marker or, after an error, without.        *)
LEMMA StampSound == FilesSound /\ (StampMarker \/ RotationFails) => FilesSound'
  <1> SUFFICES ASSUME FilesSound, StampMarker \/ RotationFails PROVE FilesSound'
    OBVIOUS
  <1>0. /\ FilesTypeOK /\ PlaceSound /\ StateIsWhole /\ Stamp /\ At("idle", 0)
        /\ UNCHANGED <<archive, preserved, stateFile, dropped, mislaid, kills>>
        /\ run.pc \in {"unlink", "shift", "rename", "touch"}
    BY DEF FilesSound, StampMarker, RotationFails, fileBounds
  <1>1. ioErrors' \in 0..MaxIoErrors /\ (ioErrors' = 0 => ioErrors = 0)
    <2>1. ioErrors \in 0..MaxIoErrors /\ MaxIoErrors \in Nat
      BY <1>0, FilesAssumption DEF FilesTypeOK
    <2>2. CASE ioErrors' = ioErrors
      BY <2>1, <2>2
    <2>3. CASE IoError
      BY <2>1, <2>3 DEF IoError
    <2>4. QED  BY <2>2, <2>3 DEF StampMarker, RotationFails, fileBounds
  <1>2. CASE append_event("telemetry")
    BY <1>0, <1>1, <1>2, AppendSound DEF LineKinds, At
  <1>3. CASE UNCHANGED <<live, written>>
    <2>1. run' \in Runner /\ run'.pc = "idle" /\ run'.lines = run.lines /\ run.lines = <<>>
      BY <1>0, AtMoves, Slotted, FilesAssumption DEF RunnerPC, PlaceSound
    <2>2. PlaceSound'
      BY <2>1 DEF PlaceSound
    <2>3. QED  BY <1>0, <1>1, <1>3, <2>1, <2>2, QuietSound DEF FilesTypeOK, StateIsWhole
  <1>4. QED  BY <1>0, <1>2, <1>3 DEF Stamp

LEMMA AppendsSound == FilesSound /\ (RunnerAppends \/ OtherAppends) => FilesSound'
  <1> SUFFICES ASSUME FilesSound, RunnerAppends \/ OtherAppends PROVE FilesSound'
    OBVIOUS
  <1>0. ioErrors \in 0..MaxIoErrors
    BY DEF FilesSound, FilesTypeOK
  <1>1. CASE RunnerAppends
    BY <1>0, <1>1, AppendSound DEF RunnerAppends, fileBounds
  <1>2. CASE OtherAppends
    BY <1>0, <1>2, AppendSound DEF OtherAppends, LineKinds, fileBounds
  <1>3. QED  BY <1>1, <1>2

LEMMA ConsolidateSound == FilesSound /\ consolidate_sprint => FilesSound'
  <1> SUFFICES ASSUME FilesSound, consolidate_sprint PROVE FilesSound'
    OBVIOUS
  <1> DEFINE last == SubSeq(live, Len(live) - KEEP + 1, Len(live))
             old == {live[k].n : k \in 1..(Len(live) - KEEP)}
  <1>0. /\ FilesTypeOK /\ LinesSound /\ PlaceSound /\ OrderSound /\ LoadBearingKept /\ StateIsWhole
        /\ UNCHANGED <<live, archive, preserved, stateFile, written, mislaid, fileBounds>>
        /\ run.pc = "idle" /\ run.lines = <<>> /\ KEEP < Len(live) /\ live \in Seq(Line)
        /\ run' = [pc |-> "cut", at |-> 0, lines |-> last] /\ dropped' = dropped \cup old
    BY DEF FilesSound, consolidate_sprint, PlaceSound, FilesTypeOK
  <1>1. /\ last \in Seq(Line) /\ On(live) = On(last) \cup old /\ Genuine(last, written)
    <2>1. KEEP \in Nat
      BY FilesAssumption
    <2>2. QED  BY <1>0, <2>1, OnLast DEF LinesSound
  <1> HIDE DEF last, old
  <1>2. run' \in Runner /\ run'.pc = "cut" /\ run'.lines = last
    <2>1. 0 \in 0..MAX_ARCHIVES
      BY FilesAssumption
    <2>2. QED  BY <1>0, <1>1, <2>1 DEF Runner
  <1>3. On(live) \subseteq 1..Len(written)
    BY <1>0, OnGenuine DEF LinesSound
  <1>4. FilesTypeOK' /\ LinesSound'
    BY <1>0, <1>1, <1>2, <1>3 DEF FilesTypeOK, LinesSound, fileBounds
  <1>5. OrderSound'
    BY <1>0, <1>1, <1>2 DEF OrderSound, Before
  <1>6. PlaceSound'
    BY <1>0, <1>1, <1>2 DEF PlaceSound
  <1>7. LoadBearingKept'
    <2>1. ASSUME NEW n, Saved(n) PROVE Saved(n)'
      BY <1>0, <1>2, <2>1, OnEmpty DEF Saved
    <2>2. QED  BY <1>0, <2>1, KeptByMoving DEF fileBounds
  <1>8. QED  BY <1>0, <1>4, <1>5, <1>6, <1>7 DEF FilesSound, StateIsWhole

LEMMA CutSound == FilesSound /\ CutStream => FilesSound'
  <1> SUFFICES ASSUME FilesSound, CutStream PROVE FilesSound'
    OBVIOUS
  <1>0. /\ FilesTypeOK /\ LinesSound /\ PlaceSound /\ OrderSound /\ LoadBearingKept /\ StateIsWhole
        /\ UNCHANGED <<archive, preserved, stateFile, histories, fileBounds>>
        /\ run.pc = "cut" /\ live' = <<>> /\ run \in Runner
        /\ On(live) \subseteq On(run.lines) \cup dropped \cup mislaid
    BY Slotted DEF FilesSound, CutStream, PlaceSound
  <1>1. run' \in Runner /\ run'.pc = "fill" /\ run'.lines = run.lines
    BY <1>0 DEF CutStream, Runner
  <1>2. On(live') = {} /\ live' \in Seq(Line) /\ Genuine(live', written)
    BY <1>0, OnEmpty DEF Genuine
  <1>3. FilesTypeOK' /\ LinesSound'
    BY <1>0, <1>1, <1>2 DEF FilesTypeOK, LinesSound, histories, fileBounds
  <1>4. OrderSound' /\ PlaceSound'
    BY <1>0, <1>1, <1>2 DEF OrderSound, Before, PlaceSound
  <1>5. LoadBearingKept'
    <2>1. ASSUME NEW n, Saved(n) PROVE Saved(n)'
      BY <1>0, <1>1, <2>1 DEF Saved, histories
    <2>2. QED  BY <1>0, <2>1, KeptByMoving DEF histories, fileBounds
  <1>6. QED  BY <1>0, <1>3, <1>4, <1>5 DEF FilesSound, StateIsWhole

LEMMA FillSound == FilesSound /\ FillStream => FilesSound'
  <1> SUFFICES ASSUME FilesSound, FillStream PROVE FilesSound'
    OBVIOUS
  <1>0. /\ FilesTypeOK /\ LinesSound /\ PlaceSound /\ OrderSound /\ LoadBearingKept /\ StateIsWhole
        /\ UNCHANGED <<archive, preserved, stateFile, histories, fileBounds>>
        /\ run.pc = "fill" /\ live' = run.lines /\ run.lines \in Seq(Line) /\ run' = Idle
        /\ On(live) \subseteq mislaid
    BY Slotted DEF FilesSound, FillStream, PlaceSound
  <1>1. run' \in Runner /\ run'.pc = "idle" /\ run'.lines = <<>>
    <2>1. run' = [Idle EXCEPT !.pc = "idle"]
      BY <1>0 DEF Idle
    <2>2. QED  BY <2>1, IdleMoves DEF RunnerPC
  <1>2. Genuine(<<>>, written)
    BY DEF Genuine
  <1>3. FilesTypeOK' /\ LinesSound'
    BY <1>0, <1>1, <1>2 DEF FilesTypeOK, LinesSound, histories, fileBounds
  <1>4. OrderSound' /\ PlaceSound'
    BY <1>0, <1>1, OnEmpty DEF OrderSound, Before, PlaceSound
  <1>5. LoadBearingKept'
    <2>1. ASSUME NEW n, Saved(n) PROVE Saved(n)'
      BY <1>0, <1>1, <2>1 DEF Saved, histories
    <2>2. QED  BY <1>0, <2>1, KeptByMoving DEF histories, fileBounds
  <1>6. QED  BY <1>0, <1>3, <1>4, <1>5 DEF FilesSound, StateIsWhole

(* The state file is replaced, and the runner is started.                     *)
LEMMA StateSound ==
    FilesSound /\ (write_state \/ TmpWritten \/ ReplaceState \/ Started) => FilesSound'
  <1> SUFFICES ASSUME FilesSound, write_state \/ TmpWritten \/ ReplaceState \/ Started
               PROVE  FilesSound'
    OBVIOUS
  <1> DEFINE Held == {"missing", "whole", "torn"}
  <1>0. /\ PlaceSound /\ StateIsWhole /\ run.lines = <<>>
        /\ stateFile \in [main : Held, tmp : Held]
        /\ UNCHANGED <<live, archive, preserved, histories, fileBounds>>
        /\ ioErrors \in 0..MaxIoErrors /\ kills \in 0..MaxKills
    BY DEF FilesSound, PlaceSound, FilesTypeOK, write_state, TmpWritten, ReplaceState, Started
  <1>1. CASE write_state
    <2>1. run' \in Runner /\ run'.pc = "state" /\ run'.lines = <<>>
      BY <1>1, IdleMoves DEF write_state, RunnerPC
    <2>2. stateFile' \in [main : Held, tmp : Held] /\ stateFile'.main = stateFile.main
      BY <1>0, <1>1 DEF write_state
    <2>3. PlaceSound' /\ StateIsWhole'
      BY <1>0, <2>1, <2>2 DEF PlaceSound, StateIsWhole
    <2>4. QED  BY <1>0, <2>1, <2>2, <2>3, QuietSound DEF histories, fileBounds
  <1>2. CASE TmpWritten
    <2>1. run' \in Runner /\ run'.pc = "replace" /\ run'.lines = <<>>
      BY <1>2, IdleMoves DEF TmpWritten, RunnerPC
    <2>2. /\ stateFile' \in [main : Held, tmp : Held] /\ stateFile'.main = stateFile.main
          /\ stateFile'.tmp = "whole"
      BY <1>0, <1>2 DEF TmpWritten
    <2>3. PlaceSound' /\ StateIsWhole'
      BY <1>0, <2>1, <2>2 DEF PlaceSound, StateIsWhole
    <2>4. QED  BY <1>0, <2>1, <2>2, <2>3, QuietSound DEF histories, fileBounds
  <1>3. CASE ReplaceState
    <2>1. run' \in Runner /\ run'.pc = "idle" /\ run'.lines = <<>>
      <3>1. run' = [Idle EXCEPT !.pc = "idle"]
        BY <1>3 DEF Idle, ReplaceState
      <3>2. QED  BY <3>1, IdleMoves DEF RunnerPC
    <2>2. stateFile' \in [main : Held, tmp : Held] /\ stateFile'.main = "whole"
      BY <1>0, <1>3 DEF ReplaceState, PlaceSound
    <2>3. PlaceSound' /\ StateIsWhole'
      BY <1>0, <2>1, <2>2 DEF PlaceSound, StateIsWhole
    <2>4. QED  BY <1>0, <2>1, <2>2, <2>3, QuietSound DEF histories, fileBounds
  <1>4. CASE Started
    <2>1. run' \in Runner /\ run'.pc = "boot" /\ run'.lines = <<>>
      BY <1>4, IdleMoves DEF Started, RunnerPC
    <2>2. stateFile' = stateFile
      BY <1>4 DEF Started
    <2>3. PlaceSound' /\ StateIsWhole'
      BY <1>0, <2>1, <2>2 DEF PlaceSound, StateIsWhole
    <2>4. QED  BY <1>0, <2>1, <2>2, <2>3, QuietSound DEF histories, fileBounds
  <1>5. QED  BY <1>1, <1>2, <1>3, <1>4

LEMMA KilledSound == FilesSound /\ Killed => FilesSound'
  <1> SUFFICES ASSUME FilesSound, Killed PROVE FilesSound'
    OBVIOUS
  <1>0. /\ FilesTypeOK /\ LinesSound /\ PlaceSound /\ OrderSound /\ LoadBearingKept /\ StateIsWhole
        /\ UNCHANGED <<live, archive, preserved, stateFile, written, dropped, ioErrors>>
        /\ mislaid' = IF run.pc = "fill" THEN mislaid \cup On(run.lines) ELSE mislaid
        /\ kills' = kills + 1 /\ kills < MaxKills
    BY DEF FilesSound, Killed
  <1>1. run' \in Runner /\ run'.pc = "down" /\ run'.lines = <<>>
    BY IdleMoves DEF Killed, RunnerPC
  <1>2. /\ On(run.lines) \subseteq 1..Len(written) /\ kills' \in 0..MaxKills
        /\ Genuine(<<>>, written)
    <2>1. kills \in 0..MaxKills /\ MaxKills \in Nat
      BY <1>0, FilesAssumption DEF FilesTypeOK
    <2>2. On(run.lines) \subseteq 1..Len(written)
      BY <1>0, OnGenuine DEF LinesSound
    <2>3. kills' \in 0..MaxKills
      BY <1>0, <2>1
    <2>4. QED  BY <2>2, <2>3 DEF Genuine
  <1>3. FilesTypeOK' /\ LinesSound'
    BY <1>0, <1>1, <1>2 DEF FilesTypeOK, LinesSound
  <1>4. OrderSound' /\ PlaceSound'
    BY <1>0, <1>1, OnEmpty DEF OrderSound, Before, PlaceSound
  <1>5. LoadBearingKept'
    <2>1. ASSUME NEW n, Saved(n) PROVE Saved(n)'
      <3>1. CASE n \in On(run.lines)
        <4>1. CASE run.pc = "cut"
          BY <1>0, <3>1, <4>1 DEF PlaceSound, Saved
        <4>2. CASE run.pc = "fill"
          BY <1>0, <3>1, <4>2 DEF Saved
        <4>3. CASE run.pc \notin {"cut", "fill"}
          BY <1>0, <3>1, <4>3, OnEmpty DEF PlaceSound
        <4>4. QED  BY <4>1, <4>2, <4>3
      <3>2. CASE n \notin On(run.lines)
        BY <1>0, <2>1, <3>2 DEF Saved
      <3>3. QED  BY <3>1, <3>2
    <2>2. QED  BY <1>0, <2>1, KeptByMoving
  <1>6. QED  BY <1>0, <1>3, <1>4, <1>5 DEF FilesSound, StateIsWhole

-----------------------------------------------------------------------------
(* The theorem. *)

LEMMA InitFiles == FilesInit => FilesSound
  <1> SUFFICES ASSUME FilesInit PROVE FilesSound
    OBVIOUS
  <1>1. /\ live = <<>> /\ preserved = {} /\ written = <<>> /\ dropped = {} /\ mislaid = {}
        /\ ioErrors = 0 /\ kills = 0 /\ archive = [n \in Slots |-> <<>>]
        /\ stateFile = [main |-> "missing", tmp |-> "missing"]
    BY DEF FilesInit, Slots
  <1>2. run \in Runner /\ run.pc = "boot" /\ run.lines = <<>>
    <2>1. 0 \in 0..MAX_ARCHIVES /\ <<>> \in Seq(Line)
      BY FilesAssumption
    <2>2. QED  BY <2>1 DEF FilesInit, Idle, Runner
  <1>3. FilesTypeOK
    <2>1. 0 \in 0..MaxIoErrors /\ 0 \in 0..MaxKills
      BY FilesAssumption
    <2>2. QED  BY <1>1, <1>2, <2>1 DEF FilesTypeOK, Slots
  <1>4. LinesSound
    <2>1. Len(written) <= MaxLines
      BY <1>1, FilesAssumption
    <2>2. QED  BY <1>1, <1>2, <2>1 DEF LinesSound, Genuine
  <1>5. PlaceSound /\ OrderSound /\ StateIsWhole
    BY <1>1, <1>2, OnEmpty DEF PlaceSound, OrderSound, Before, StateIsWhole
  <1>6. LoadBearingKept
    BY <1>1 DEF LoadBearingKept
  <1>7. QED  BY <1>3, <1>4, <1>5, <1>6 DEF FilesSound

LEMMA NextFiles == FilesSound /\ [FilesNext]_filesVars => FilesSound'
  <1> SUFFICES ASSUME FilesSound, [FilesNext]_filesVars PROVE FilesSound'
    OBVIOUS
  <1>1. CASE UNCHANGED filesVars
    <2>1. run' \in Runner /\ PlaceSound' /\ StateIsWhole'
      BY <1>1 DEF filesVars, FilesSound, FilesTypeOK, PlaceSound, StateIsWhole
    <2>2. QED  BY <1>1, <2>1, QuietSound DEF filesVars, FilesSound, FilesTypeOK
  <1>2. CASE FilesNext
    BY <1>2, AppendsSound, RotateSound, PreserveSound, UnlinkSound, ShiftSound, RenameSound,
       StampSound, ConsolidateSound, CutSound, FillSound, StateSound, KilledSound DEF FilesNext
  <1>3. QED  BY <1>1, <1>2

(* Wherever a rotation, a consolidation or a write is cut short, and whatever *)
(* other processes append meanwhile: as long as no call fails, no load-bearing *)
(* line goes but those a consolidation drops, overwrites as another process   *)
(* appends them, or takes with it when it dies; also when calls fail, the     *)
(* archives stay in order and a reader never opens a torn state file.         *)
THEOREM FilesHold == FilesSpec => []FilesInv
  <1>1. FilesSound => FilesInv
    BY OrderIs DEF FilesSound, FilesInv
  <1>2. QED  BY <1>1, InitFiles, NextFiles, PTL DEF FilesSpec

-----------------------------------------------------------------------------
(* Lists.  ElementsAt keeps the elements at given positions, in their order: what its  *)
(* recursion computes follows from the first place where it would not.         *)

(* Every set of naturals has a smallest. *)
LEMMA MinIs ==
    ASSUME NEW S, S \subseteq Nat, S # {}
    PROVE  \E k \in S : \A j \in S : k <= j
  <1> DEFINE R == {pair \in Nat \X Nat : pair[1] < pair[2]}
  <1>1. IsWellFoundedOn(R, Nat)
    BY NatLessThanWellFounded DEF OpToRel
  <1>2. \A j, k \in Nat : j < k => <<j, k>> \in R
    OBVIOUS
  <1> HIDE DEF R
  <1>3. PICK k \in S : \A j \in S : ~(<<j, k>> \in R)
    BY <1>1, WFMin
  <1>4. ASSUME NEW j \in S PROVE k <= j
    <2>1. j \in Nat /\ k \in Nat
      OBVIOUS
    <2>2. ~(j < k)
      BY <1>2, <1>3, <2>1
    <2>3. QED  BY <2>1, <2>2
  <1>5. QED  BY <1>4

(* The elements of s at the first n positions, as ElementsAt collects them. *)
Takes(g, s, positions, n) ==
    g = [m \in 0..n |-> IF m = 0 THEN <<>>
                        ELSE IF m \in positions THEN Append(g[m - 1], s[m]) ELSE g[m - 1]]

(* t is s along e, which enumerates the positions up to n upwards. *)
Along(t, e, s, positions, n) ==
    /\ e \in [1..Len(t) -> {k \in positions : k \in 1..n}]
    /\ \A j, k \in 1..Len(t) : j < k => e[j] < e[k]
    /\ \A p \in positions : p \in 1..n => \E k \in 1..Len(t) : e[k] = p
    /\ \A k \in 1..Len(t) : t[k] = s[e[k]]

(* The recursion has a solution. *)
LEMMA TakesSome ==
    ASSUME NEW s, NEW positions, NEW len \in Nat
    PROVE  \E g : Takes(g, s, positions, len)
  <1> DEFINE Bad == {n \in Nat : ~\E g : Takes(g, s, positions, n)}
  <1>1. SUFFICES ASSUME Bad # {} PROVE FALSE
    OBVIOUS
  <1>2. PICK n \in Bad : \A j \in Bad : n <= j
    <2> HIDE DEF Bad
    <2>1. Bad \subseteq Nat
      BY DEF Bad
    <2>2. QED  BY <1>1, <2>1, MinIs
  <1>3. n # 0
    <2>1. Takes([m \in 0..0 |-> <<>>], s, positions, 0)
      BY DEF Takes
    <2>2. QED  BY <2>1
  <1>4. n - 1 \in Nat /\ n - 1 \notin Bad
    <2>1. n - 1 \in Nat /\ ~(n <= n - 1)
      BY <1>2, <1>3
    <2>2. QED  BY <1>2, <2>1
  <1>5. PICK g : Takes(g, s, positions, n - 1)
    BY <1>4
  <1> DEFINE last == IF n \in positions THEN Append(g[n - 1], s[n]) ELSE g[n - 1]
             h == [m \in 0..n |-> IF m = n THEN last ELSE g[m]]
  <1>6. h = [m \in 0..n |-> IF m = 0 THEN <<>>
                ELSE IF m \in positions THEN Append(h[m - 1], s[m]) ELSE h[m - 1]]
    <2> HIDE DEF last
    <2>1. \A m \in 0..n : m # 0 => m - 1 \in 0..(n - 1) /\ h[m - 1] = g[m - 1]
      BY <1>2, <1>3
    <2>2. ASSUME NEW m \in 0..n
          PROVE  h[m] = IF m = 0 THEN <<>>
                        ELSE IF m \in positions THEN Append(h[m - 1], s[m]) ELSE h[m - 1]
      <3>1. CASE m = n
        BY <1>3, <2>1, <3>1 DEF last
      <3>2. CASE m # n
        <4>1. m \in 0..(n - 1) /\ h[m] = g[m]
          BY <1>2, <3>2
        <4>2. g[m] = IF m = 0 THEN <<>>
                     ELSE IF m \in positions THEN Append(g[m - 1], s[m]) ELSE g[m - 1]
          BY <1>5, <4>1 DEF Takes
        <4>3. QED  BY <2>1, <4>1, <4>2
      <3>3. QED  BY <3>1, <3>2
    <2>3. QED  BY <2>2
  <1>7. Takes(h, s, positions, n)
    BY <1>6 DEF Takes
  <1>8. QED  BY <1>2, <1>7

(* One position more. *)
LEMMA AlongNext ==
    ASSUME NEW S, NEW s \in Seq(S), NEW positions, NEW n \in 1..Len(s),
           NEW t \in Seq(S), NEW e, Along(t, e, s, positions, n - 1), n \in positions
    PROVE  \E f : Along(Append(t, s[n]), f, s, positions, n)
  <1> DEFINE u == Append(t, s[n])
             f == [k \in 1..(Len(t) + 1) |-> IF k = Len(t) + 1 THEN n ELSE e[k]]
  <1>1. /\ Len(t) \in Nat /\ n \in Nat /\ u \in Seq(S) /\ Len(u) = Len(t) + 1 /\ u[Len(t) + 1] = s[n]
        /\ \A k \in 1..Len(t) : u[k] = t[k]
    BY AppendProperties
  <1>2. \A k \in 1..Len(t) : e[k] \in positions /\ e[k] \in 1..(n - 1)
    BY DEF Along
  <1>3. f \in [1..Len(u) -> {k \in positions : k \in 1..n}]
    BY <1>1, <1>2
  <1>4. \A j, k \in 1..Len(u) : j < k => f[j] < f[k]
    BY <1>1, <1>2 DEF Along
  <1>5. \A p \in positions : p \in 1..n => \E k \in 1..Len(u) : f[k] = p
    <2>1. ASSUME NEW p \in positions, p \in 1..n PROVE \E k \in 1..Len(u) : f[k] = p
      <3>1. CASE p = n
        BY <1>1, <3>1
      <3>2. CASE p # n
        <4>1. p \in 1..(n - 1)
          BY <1>1, <2>1, <3>2
        <4>2. PICK k \in 1..Len(t) : e[k] = p
          BY <4>1 DEF Along
        <4>3. k \in 1..Len(u) /\ f[k] = p
          BY <1>1, <4>2
        <4>4. QED  BY <4>3
      <3>3. QED  BY <3>1, <3>2
    <2>2. QED  BY <2>1
  <1>6. \A k \in 1..Len(u) : u[k] = s[f[k]]
    BY <1>1 DEF Along
  <1>7. Along(u, f, s, positions, n)
    <2> HIDE DEF u, f
    <2>1. QED  BY <1>3, <1>4, <1>5, <1>6 DEF Along
  <1>8. QED  BY <1>7

(* What ElementsAt collects is s along the positions. *)
LEMMA TakenAlong ==
    ASSUME NEW S, NEW s \in Seq(S), NEW positions, NEW g, Takes(g, s, positions, Len(s))
    PROVE  g[Len(s)] \in Seq(S) /\ \E e : Along(g[Len(s)], e, s, positions, Len(s))
  <1> DEFINE Good(n) == g[n] \in Seq(S) /\ \E e : Along(g[n], e, s, positions, n)
             Bad == {n \in 0..Len(s) : ~Good(n)}
  <1>1. SUFFICES ASSUME Bad # {} PROVE FALSE
    BY LenProperties
  <1>2. Len(s) \in Nat
    OBVIOUS
  <1>3. PICK n \in Bad : \A j \in Bad : n <= j
    <2> HIDE DEF Bad
    <2>1. Bad \subseteq Nat
      BY <1>2 DEF Bad
    <2>2. QED  BY <1>1, <2>1, MinIs
  <1>4. \A m \in 0..Len(s) : g[m] = IF m = 0 THEN <<>>
            ELSE IF m \in positions THEN Append(g[m - 1], s[m]) ELSE g[m - 1]
    BY DEF Takes
  <1>5. n # 0
    <2>1. g[0] = <<>> /\ <<>> \in Seq(S) /\ Len(<<>>) = 0
      BY <1>2, <1>4
    <2>2. Along(<<>>, <<>>, s, positions, 0)
      BY <2>1 DEF Along
    <2>3. QED  BY <2>1, <2>2
  <1>6. n \in 1..Len(s) /\ n - 1 \in 0..Len(s) /\ Good(n - 1)
    <2>1. n \in 1..Len(s) /\ n - 1 \in 0..Len(s) /\ ~(n <= n - 1)
      BY <1>2, <1>3, <1>5
    <2>2. QED  BY <1>3, <2>1
  <1> HIDE DEF Bad
  <1>7. CASE n \in positions
    <2>1. PICK e : Along(g[n - 1], e, s, positions, n - 1)
      BY <1>6
    <2>2. g[n] = Append(g[n - 1], s[n]) /\ s[n] \in S
      <3>1. s[n] \in S
        BY <1>6, ElementOfSeq
      <3>2. n \in 0..Len(s) /\ n # 0
        BY <1>2, <1>6
      <3>3. QED  BY <1>4, <1>7, <3>1, <3>2
    <2>3. g[n] \in Seq(S)
      BY <1>6, <2>2, AppendProperties
    <2>4. \E f : Along(Append(g[n - 1], s[n]), f, s, positions, n)
      BY <1>6, <1>7, <2>1, AlongNext
    <2>5. QED  BY <1>3, <2>2, <2>3, <2>4 DEF Bad
  <1>8. CASE n \notin positions
    <2>1. PICK e : Along(g[n - 1], e, s, positions, n - 1)
      BY <1>6
    <2>2. g[n] = g[n - 1]
      BY <1>4, <1>6, <1>8
    <2>3. \A p \in positions : p \in 1..n <=> p \in 1..(n - 1)
      BY <1>6, <1>8
    <2>4. {k \in positions : k \in 1..n} = {k \in positions : k \in 1..(n - 1)}
      BY <2>3
    <2>5. Along(g[n], e, s, positions, n)
      BY <2>1, <2>2, <2>3, <2>4 DEF Along
    <2>6. QED  BY <1>3, <1>6, <2>2, <2>5 DEF Bad
  <1>9. QED  BY <1>7, <1>8

(* The elements at some positions are a sequence: s along them, upwards. *)
LEMMA AtIs ==
    ASSUME NEW S, NEW s \in Seq(S), NEW positions
    PROVE  /\ ElementsAt(s, positions) \in Seq(S)
           /\ \E e : Along(ElementsAt(s, positions), e, s, positions, Len(s))
  <1> DEFINE g == CHOOSE f : Takes(f, s, positions, Len(s))
  <1>1. Takes(g, s, positions, Len(s))
    <2>1. Len(s) \in Nat
      OBVIOUS
    <2>2. \E f : Takes(f, s, positions, Len(s))
      BY <2>1, TakesSome
    <2>3. QED  BY <2>2
  <1>2. ElementsAt(s, positions) = g[Len(s)]
    BY DEF ElementsAt, Takes
  <1>3. QED
    <2> HIDE DEF g
    <2>1. QED  BY <1>1, <1>2, TakenAlong

(* What is selected is an element that was, and all that were are selected. *)
LEMMA AtElements ==
    ASSUME NEW S, NEW s \in Seq(S), NEW positions
    PROVE  /\ ElementsAt(s, positions) \in Seq(S)
           /\ \A k \in DOMAIN ElementsAt(s, positions) :
                 \E p \in DOMAIN s : p \in positions /\ ElementsAt(s, positions)[k] = s[p]
           /\ \A p \in DOMAIN s : p \in positions =>
                 \E k \in DOMAIN ElementsAt(s, positions) : ElementsAt(s, positions)[k] = s[p]
           /\ ElementsAt(s, positions) = <<>> <=> \A p \in DOMAIN s : p \notin positions
  <1> DEFINE t == ElementsAt(s, positions)
  <1>1. t \in Seq(S) /\ DOMAIN s = 1..Len(s) /\ Len(s) \in Nat
    BY AtIs
  <1>2. PICK e : Along(t, e, s, positions, Len(s))
    BY AtIs
  <1> HIDE DEF t
  <1>3. DOMAIN t = 1..Len(t) /\ Len(t) \in Nat
    BY <1>1
  <1>4. \A k \in DOMAIN t : \E p \in DOMAIN s : p \in positions /\ t[k] = s[p]
    BY <1>1, <1>2, <1>3 DEF Along
  <1>5. \A p \in DOMAIN s : p \in positions => \E k \in DOMAIN t : t[k] = s[p]
    BY <1>1, <1>2, <1>3 DEF Along
  <1>6. t = <<>> <=> DOMAIN t = {}
    <2>1. t = <<>> <=> Len(t) = 0
      BY <1>1, EmptySeq
    <2>2. Len(t) = 0 <=> 1..Len(t) = {}
      <3>1. \A n \in Nat : (n = 0 => 1..n = {}) /\ (n # 0 => 1 \in 1..n)
        OBVIOUS
      <3>2. QED  BY <1>3, <3>1
    <2>3. QED  BY <1>3, <2>1, <2>2
  <1>7. t = <<>> <=> \A p \in DOMAIN s : p \notin positions
    BY <1>4, <1>5, <1>6
  <1>8. QED  BY <1>1, <1>4, <1>5, <1>7 DEF t

(* What is selected is of the kind it was selected for. *)
LEMMA AtTyped ==
    ASSUME NEW S, NEW s \in Seq(S), NEW positions, NEW T,
           \A p \in DOMAIN s : p \in positions => s[p] \in T
    PROVE  ElementsAt(s, positions) \in Seq(T)
  <1>1. /\ ElementsAt(s, positions) \in Seq(S)
        /\ \A k \in DOMAIN ElementsAt(s, positions) :
              \E p \in DOMAIN s : p \in positions /\ ElementsAt(s, positions)[k] = s[p]
    BY AtElements
  <1>2. \A k \in DOMAIN ElementsAt(s, positions) : ElementsAt(s, positions)[k] \in T
    BY <1>1
  <1>3. QED
    <2> DEFINE t == ElementsAt(s, positions)
    <2>1. Len(t) \in Nat /\ DOMAIN t = 1..Len(t) /\ t = [k \in 1..Len(t) |-> t[k]]
      BY <1>1
    <2>2. \A k \in 1..Len(t) : t[k] \in T
      BY <1>2, <2>1
    <2> HIDE DEF t
    <2>3. t \in Seq(T)
      BY <2>1, <2>2, IsASeq
    <2>4. QED  BY <2>3 DEF t

(* Two places of what is selected are two places of what was. *)
LEMMA AtApart ==
    ASSUME NEW S, NEW s \in Seq(S), NEW positions, NEW j \in DOMAIN ElementsAt(s, positions),
           NEW k \in DOMAIN ElementsAt(s, positions), j < k
    PROVE  \E p, q \in DOMAIN s : /\ p < q /\ p \in positions /\ q \in positions
                                  /\ ElementsAt(s, positions)[j] = s[p] /\ ElementsAt(s, positions)[k] = s[q]
  <1> DEFINE t == ElementsAt(s, positions)
  <1>1. t \in Seq(S) /\ DOMAIN s = 1..Len(s) /\ Len(s) \in Nat
    BY AtIs
  <1>2. PICK e : Along(t, e, s, positions, Len(s))
    BY AtIs
  <1>3. j \in DOMAIN t /\ k \in DOMAIN t /\ j < k
    OBVIOUS
  <1> HIDE DEF t
  <1>4. j \in 1..Len(t) /\ k \in 1..Len(t)
    BY <1>1, <1>3
  <1>5. /\ e[j] \in DOMAIN s /\ e[k] \in DOMAIN s /\ e[j] < e[k]
        /\ e[j] \in positions /\ e[k] \in positions /\ t[j] = s[e[j]] /\ t[k] = s[e[k]]
    BY <1>1, <1>2, <1>3, <1>4 DEF Along
  <1>6. QED  BY <1>5 DEF t

-----------------------------------------------------------------------------
(* The backlog.  A product command files what its report proposes, under the    *)
(* epic it filed itself, and decides each proposal once.                       *)

(* What is written where, and of what kind. *)
Norms == {Norm[t] : t \in DOMAIN Norm}
Hashes == {"none"} \cup {r.hash : r \in Reports}
Keys == Hashes \X {"epic", "ticket"} \X Norms \X Axes
Proposed(kinds) == [title : DOMAIN Norm, axis : Axes, kind : kinds]
Verdict == [key : Keys, title : DOMAIN Norm, axis : Axes, outcome : {"accepted", "rejected"},
            issue : Nat]
Note == [id : {"rejpath", "decision"} \X Keys, title : DOMAIN Norm, axis : Axes, by : {NoItem},
         tags : {{"rejected-path"}, {"frontier-decision"}}]
Filing == [title : DOMAIN Norm, kind : {"epic", "ticket", "pull"}, axis : Axes, open : BOOLEAN,
           parent : Nat, by : Hashes \cup {"person"}, blind : BOOLEAN]
Command == [phase : {"idle", "session", "dupes", "file", "accept"}, hash : Hashes,
            epics : Seq(Proposed({"epic"})), tickets : Seq(Proposed({"ticket"})),
            dupes : Seq(Proposed({"epic", "ticket"})), filed : [Axes -> Nat],
            accepted : Seq(Verdict), titles : SUBSET Norms, rejected : SUBSET (Norms \X Axes),
            blind : BOOLEAN]

BacklogForm ==
    /\ issues \in Seq(Filing) /\ notes \in Seq(Note) /\ cmd \in Command
    /\ ledger \in [ok : BOOLEAN, list : Seq(Verdict)] /\ mishaps \in 0..MaxBacklogOdd

(* A source key has one decision, a note one row. *)
KeysOnce(decisions, rows) ==
    /\ \A j, k \in DOMAIN decisions : decisions[j].key = decisions[k].key => j = k
    /\ \A j, k \in DOMAIN rows : rows[j].id = rows[k].id => j = k

OpenTitle(filed, title) ==
    \E n \in DOMAIN filed :
        /\ filed[n].open /\ filed[n].kind \in {"epic", "ticket"}
        /\ Norm[filed[n].title] = Norm[title]

Distinct(items) == \A j, k \in DOMAIN items : Norm[items[j].title] = Norm[items[k].title] => j = k

(* What a command that sees all has left to file are new titles, each once. *)
FreshSound(filed, c) ==
    ~c.blind /\ c.phase # "session" =>
        /\ Distinct(c.epics) /\ Distinct(c.tickets)
        /\ \A j \in DOMAIN c.epics, k \in DOMAIN c.tickets :
              Norm[c.epics[j].title] # Norm[c.tickets[k].title]
        /\ \A k \in DOMAIN c.epics : ~OpenTitle(filed, c.epics[k].title)
        /\ \A k \in DOMAIN c.tickets : ~OpenTitle(filed, c.tickets[k].title)

(* The epic a command has filed for an axis is of that axis and that command;  *)
(* the decision it is about to record is of the issue it is about.             *)
CommandSound(filed, c) ==
    /\ c.phase = "idle" => c = NoCommand
    /\ \A a \in Axes :
          c.filed[a] # 0 => /\ c.filed[a] \in DOMAIN filed
                            /\ filed[c.filed[a]].kind = "epic" /\ filed[c.filed[a]].axis = a
                            /\ filed[c.filed[a]].by = c.hash
    /\ c.phase = "accept" =>
          /\ c.accepted # <<>>
          /\ c.accepted[1].issue \in DOMAIN filed
          /\ filed[c.accepted[1].issue].title = c.accepted[1].title

BacklogSound ==
    /\ BacklogForm /\ KeysOnce(ledger.list, notes)
    /\ CommandSound(issues, cmd) /\ FreshSound(issues, cmd)
    /\ NothingFiledTwice /\ TicketHasItsEpic /\ AcceptedWasFiled

(* Between two commands nothing is claimed of the backlog. *)
LEMMA NoCommandIs ==
    NoCommand \in Command /\ \A filed : CommandSound(filed, NoCommand) /\ FreshSound(filed, NoCommand)
  <1>1. NoCommand \in Command
    <2>1. [a \in Axes |-> 0] \in [Axes -> Nat] /\ "none" \in Hashes
      BY DEF Hashes
    <2>2. <<>> \in Seq(Proposed({"epic"})) /\ <<>> \in Seq(Proposed({"ticket"}))
          /\ <<>> \in Seq(Proposed({"epic", "ticket"})) /\ <<>> \in Seq(Verdict)
      BY EmptySeq
    <2>3. QED  BY <2>1, <2>2 DEF NoCommand, Command
  <1>2. ASSUME NEW filed PROVE CommandSound(filed, NoCommand) /\ FreshSound(filed, NoCommand)
    <2>1. /\ \A a \in Axes : NoCommand.filed[a] = 0
          /\ NoCommand.phase = "idle" /\ DOMAIN NoCommand.epics = {} /\ DOMAIN NoCommand.tickets = {}
          /\ NoCommand.epics = <<>> /\ NoCommand.tickets = <<>>
      BY DEF NoCommand
    <2>2. CommandSound(filed, NoCommand)
      BY <2>1 DEF CommandSound
    <2>3. FreshSound(filed, NoCommand)
      BY <2>1 DEF FreshSound, Distinct
    <2>4. QED  BY <2>2, <2>3
  <1>3. QED  BY <1>1, <1>2

(* What a command carries. *)
LEMMA CommandFields ==
    ASSUME NEW c \in Command
    PROVE  /\ c.phase \in {"idle", "session", "dupes", "file", "accept"} /\ c.hash \in Hashes
           /\ c.epics \in Seq(Proposed({"epic"})) /\ c.tickets \in Seq(Proposed({"ticket"}))
           /\ c.dupes \in Seq(Proposed({"epic", "ticket"})) /\ c.filed \in [Axes -> Nat]
           /\ c.accepted \in Seq(Verdict) /\ c.titles \in SUBSET Norms
           /\ c.rejected \in SUBSET (Norms \X Axes) /\ c.blind \in BOOLEAN
  BY DEF Command

(* The backlog starts sound, whatever the repository holds already. *)
LEMMA InitBacklog == BacklogInit => BacklogSound
  <1> SUFFICES ASSUME BacklogInit PROVE BacklogSound
    OBVIOUS
  <1>1. <<>> \in Seq(Filing) /\ <<>> \in Seq(Note) /\ <<>> \in Seq(Verdict) /\ DOMAIN <<>> = {}
    BY EmptySeq
  <1>2. BacklogForm
    BY <1>1, NoCommandIs, BacklogAssumption DEF BacklogInit, BacklogForm
  <1>3. KeysOnce(ledger.list, notes) /\ NothingFiledTwice /\ TicketHasItsEpic /\ AcceptedWasFiled
    BY <1>1 DEF BacklogInit, KeysOnce, NothingFiledTwice, TicketHasItsEpic, AcceptedWasFiled
  <1>4. QED  BY <1>2, <1>3, NoCommandIs DEF BacklogInit, BacklogSound

-----------------------------------------------------------------------------
(* The two stores. *)

(* A read of the store finds nothing when no row has the id. *)
LEMMA GetIs ==
    ASSUME NEW S, NEW store \in Seq(S), NEW id
    PROVE  get(store, id) = <<>> <=> \A k \in DOMAIN store : store[k].id # id
  <1> DEFINE P == {k \in DOMAIN store : store[k].id = id}
  <1>1. get(store, id) = ElementsAt(store, P)
    BY DEF get, Where
  <1>2. ElementsAt(store, P) = <<>> <=> \A p \in DOMAIN store : p \notin P
    BY AtElements
  <1>3. QED  BY <1>1, <1>2

(* A look in a list of verdicts finds nothing when no verdict has the key. *)
LEMMA FindIs ==
    ASSUME NEW S, NEW list \in Seq(S), NEW key
    PROVE  Find(list, key) = <<>> <=> \A k \in DOMAIN list : list[k].key # key
  <1> DEFINE P == {k \in DOMAIN list : list[k].key = key}
  <1>1. Find(list, key) = ElementsAt(list, P)
    BY DEF Find, Where
  <1>2. ElementsAt(list, P) = <<>> <=> \A p \in DOMAIN list : p \notin P
    BY AtElements
  <1>3. QED  BY <1>1, <1>2

(* A put keeps every other row in its place, and a row to an id. *)
LEMMA PutIs ==
    ASSUME NEW S, NEW store \in Seq(S), NEW item \in S,
           \A j, k \in DOMAIN store : store[j].id = store[k].id => j = k
    PROVE  /\ put(store, item) \in Seq(S)
           /\ \A j, k \in DOMAIN put(store, item) :
                 put(store, item)[j].id = put(store, item)[k].id => j = k
           /\ \A k \in DOMAIN put(store, item) :
                 \/ put(store, item)[k] = item
                 \/ k \in DOMAIN store /\ put(store, item)[k] = store[k] /\ store[k].id # item.id
           /\ \A k \in DOMAIN store : k \in DOMAIN put(store, item) /\ put(store, item)[k].id = store[k].id
           /\ \E k \in DOMAIN put(store, item) : put(store, item)[k] = item
  <1> DEFINE new == put(store, item)
  <1>0. DOMAIN store = 1..Len(store) /\ Len(store) \in Nat
    OBVIOUS
  <1>1. CASE \A k \in DOMAIN store : store[k].id # item.id
    <2>1. new = Append(store, item)
      BY <1>1, GetIs DEF put
    <2>2. /\ new \in Seq(S) /\ DOMAIN new = 1..(Len(store) + 1) /\ new[Len(store) + 1] = item
          /\ \A k \in DOMAIN store : new[k] = store[k]
      BY <1>0, <2>1, AppendProperties
    <2> HIDE DEF new
    <2>3. \A k \in DOMAIN new : k \in DOMAIN store \/ k = Len(store) + 1
      BY <1>0, <2>2
    <2>4. \A j, k \in DOMAIN new : new[j].id = new[k].id => j = k
      BY <1>0, <1>1, <2>2, <2>3
    <2>5. \A k \in DOMAIN store : k \in DOMAIN new
      BY <1>0, <2>2
    <2>6. Len(store) + 1 \in DOMAIN new
      BY <1>0, <2>2
    <2>7. QED  BY <1>1, <2>2, <2>3, <2>4, <2>5, <2>6 DEF new
  <1>2. CASE \E k \in DOMAIN store : store[k].id = item.id
    <2>1. new = [k \in DOMAIN store |-> IF store[k].id = item.id THEN item ELSE store[k]]
      BY <1>2, GetIs DEF put
    <2>2. /\ DOMAIN new = DOMAIN store
          /\ \A k \in DOMAIN store : new[k] = IF store[k].id = item.id THEN item ELSE store[k]
      BY <2>1
    <2>3. new \in Seq(S)
      <3>1. \A k \in 1..Len(store) : (IF store[k].id = item.id THEN item ELSE store[k]) \in S
        BY <1>0, ElementOfSeq
      <3>2. [k \in 1..Len(store) |-> IF store[k].id = item.id THEN item ELSE store[k]] \in Seq(S)
        BY <1>0, <3>1, IsASeq
      <3>3. QED  BY <1>0, <2>1, <3>2
    <2> HIDE DEF new
    <2>4. \A k \in DOMAIN store : new[k].id = store[k].id
      BY <2>2
    <2>5. QED  BY <1>2, <2>2, <2>3, <2>4 DEF new
  <1>3. QED  BY <1>1, <1>2

(* The first verdict on a source key stands. *)
LEMMA RecordIs ==
    ASSUME NEW S, NEW list \in Seq(S), NEW d \in S,
           \A j, k \in DOMAIN list : list[j].key = list[k].key => j = k
    PROVE  /\ record(list, d) \in Seq(S) /\ IsPrefix(list, record(list, d))
           /\ \A j, k \in DOMAIN record(list, d) :
                 record(list, d)[j].key = record(list, d)[k].key => j = k
           /\ \A k \in DOMAIN record(list, d) :
                 \/ record(list, d)[k] = d
                 \/ k \in DOMAIN list /\ record(list, d)[k] = list[k]
  <1> DEFINE new == record(list, d)
  <1>0. DOMAIN list = 1..Len(list) /\ Len(list) \in Nat
    OBVIOUS
  <1>1. CASE \A k \in DOMAIN list : list[k].key # d.key
    <2>1. new = Append(list, d)
      BY <1>1, FindIs DEF record
    <2>2. /\ new \in Seq(S) /\ DOMAIN new = 1..(Len(list) + 1) /\ new[Len(list) + 1] = d
          /\ Len(new) = Len(list) + 1
          /\ \A k \in DOMAIN list : new[k] = list[k]
      BY <1>0, <2>1, AppendProperties
    <2> HIDE DEF new
    <2>3. \A k \in DOMAIN new : k \in DOMAIN list \/ k = Len(list) + 1
      BY <1>0, <2>2
    <2>4. \A j, k \in DOMAIN new : new[j].key = new[k].key => j = k
      BY <1>0, <1>1, <2>2, <2>3
    <2>5. SubSeq(new, 1, Len(list)) = SubSeq(list, 1, Len(list))
      BY <1>0, <2>2
    <2>6. IsPrefix(list, new)
      BY <1>0, <2>2, <2>5 DEF IsPrefix
    <2>7. \A k \in DOMAIN new : new[k] = d \/ (k \in DOMAIN list /\ new[k] = list[k])
      BY <2>2, <2>3
    <2>8. new \in Seq(S)
      BY <2>2
    <2>9. QED  BY <2>4, <2>6, <2>7, <2>8 DEF new
  <1>2. CASE \E k \in DOMAIN list : list[k].key = d.key
    <2>1. new = list
      BY <1>2, FindIs DEF record
    <2>2. IsPrefix(list, list)
      BY <1>0 DEF IsPrefix
    <2>3. QED  BY <2>1, <2>2
  <1>3. QED  BY <1>1, <1>2

(* A verdict, and its note, go where they were not yet. *)
LEMMA DecidedSound ==
    ASSUME BacklogSound, NEW d \in Verdict, Decided(d),
           d.outcome = "accepted" => d.issue \in DOMAIN issues /\ issues[d.issue].title = d.title
    PROVE  /\ ledger' \in [ok : BOOLEAN, list : Seq(Verdict)] /\ notes' \in Seq(Note)
           /\ mishaps' \in 0..MaxBacklogOdd
           /\ KeysOnce(ledger'.list, notes') /\ IsPrefix(ledger.list, ledger'.list)
           /\ UNCHANGED issues => AcceptedWasFiled'
  <1>1. /\ ledger.list \in Seq(Verdict) /\ ledger.ok \in BOOLEAN /\ notes \in Seq(Note)
        /\ ledger = [ok |-> ledger.ok, list |-> ledger.list] /\ mishaps \in 0..MaxBacklogOdd
        /\ KeysOnce(ledger.list, notes) /\ AcceptedWasFiled
    BY DEF BacklogSound, BacklogForm
  <1>2. /\ ledger' = [ledger EXCEPT !.list = record(ledger.list, d)]
        /\ \/ notes' = put(notes, _decision_memory(d)) /\ UNCHANGED mishaps
           \/ Mishap /\ UNCHANGED notes
    BY DEF Decided, _persist_memory
  <1>3. ledger'.list = record(ledger.list, d) /\ ledger' = [ok |-> ledger.ok, list |-> ledger'.list]
    BY <1>1, <1>2
  <1>4. /\ ledger'.list \in Seq(Verdict) /\ IsPrefix(ledger.list, ledger'.list)
        /\ \A j, k \in DOMAIN ledger'.list : ledger'.list[j].key = ledger'.list[k].key => j = k
        /\ \A k \in DOMAIN ledger'.list :
              \/ ledger'.list[k] = d
              \/ k \in DOMAIN ledger.list /\ ledger'.list[k] = ledger.list[k]
    <2>1. \A j, k \in DOMAIN ledger.list : ledger.list[j].key = ledger.list[k].key => j = k
      BY <1>1 DEF KeysOnce
    <2>2. QED  BY <1>1, <1>3, <2>1, RecordIs
  <1>5. _decision_memory(d) \in Note
    <2>1. d.key \in Keys /\ d.title \in DOMAIN Norm /\ d.axis \in Axes
      BY DEF Verdict
    <2>2. QED  BY <2>1 DEF _decision_memory, Note
  <1>6. /\ notes' \in Seq(Note)
        /\ \A j, k \in DOMAIN notes' : notes'[j].id = notes'[k].id => j = k
    <2>1. \A j, k \in DOMAIN notes : notes[j].id = notes[k].id => j = k
      BY <1>1 DEF KeysOnce
    <2>2. CASE notes' = put(notes, _decision_memory(d))
      <3> DEFINE new == put(notes, _decision_memory(d))
      <3>1. new \in Seq(Note) /\ \A j, k \in DOMAIN new : new[j].id = new[k].id => j = k
        BY <1>1, <1>5, <2>1, PutIs
      <3> HIDE DEF new
      <3>2. notes' = new
        BY <2>2 DEF new
      <3>3. QED  BY <3>1, <3>2
    <2>3. CASE UNCHANGED notes
      BY <1>1, <2>1, <2>3
    <2>4. QED  BY <1>2, <2>2, <2>3
  <1>7. mishaps' \in 0..MaxBacklogOdd
    BY <1>1, <1>2, BacklogAssumption DEF Mishap
  <1>8. ASSUME UNCHANGED issues PROVE AcceptedWasFiled'
    <2>1. ASSUME NEW k \in DOMAIN ledger'.list, ledger'.list[k].outcome = "accepted"
          PROVE  /\ ledger'.list[k].issue \in DOMAIN issues
                 /\ issues[ledger'.list[k].issue].title = ledger'.list[k].title
      <3>1. CASE ledger'.list[k] = d
        BY <2>1, <3>1
      <3>2. CASE k \in DOMAIN ledger.list /\ ledger'.list[k] = ledger.list[k]
        BY <1>1, <2>1, <3>2 DEF AcceptedWasFiled
      <3>3. QED  BY <1>4, <3>1, <3>2
    <2>2. QED  BY <1>8, <2>1 DEF AcceptedWasFiled
  <1>9. QED  BY <1>1, <1>3, <1>4, <1>6, <1>7, <1>8 DEF KeysOnce

-----------------------------------------------------------------------------
(* What a step that leaves the issues alone needs. *)

(* A step that only moves the command on. *)
LEMMA SameIssues ==
    ASSUME BacklogSound, UNCHANGED <<issues, ledger, notes>>, cmd' \in Command,
           mishaps' \in 0..MaxBacklogOdd, CommandSound(issues, cmd'), FreshSound(issues, cmd')
    PROVE  BacklogSound'
  <1>1. BacklogForm'
    BY DEF BacklogSound, BacklogForm
  <1>2. KeysOnce(ledger.list, notes)' /\ CommandSound(issues, cmd)' /\ FreshSound(issues, cmd)'
    BY DEF BacklogSound, KeysOnce
  <1>3. NothingFiledTwice' /\ TicketHasItsEpic' /\ AcceptedWasFiled'
    BY DEF BacklogSound, NothingFiledTwice, TicketHasItsEpic, AcceptedWasFiled, Open
  <1>4. QED  BY <1>1, <1>2, <1>3 DEF BacklogSound

(* The failures are counted within their bound. *)
LEMMA MishapTyped ==
    ASSUME BacklogSound, Mishap \/ UNCHANGED mishaps PROVE mishaps' \in 0..MaxBacklogOdd
  BY BacklogAssumption DEF BacklogSound, BacklogForm, Mishap

Wanted == [title : DOMAIN Norm, axis : Axes, story : BOOLEAN]

(* What the filter leaves is of an axis of the vision. *)
LEMMA FilterIs ==
    ASSUME NEW items \in Proposals
    PROVE  _filter_items(items) \in Seq(Wanted)
  <1> DEFINE P == {k \in DOMAIN items : /\ items[k].axis \in Axes /\ items[k].story
                                       /\ <<items[k].title, items[k].axis>> \notin Cosmetic}
  <1>1. _filter_items(items) = ElementsAt(items, P)
    BY DEF _filter_items, Where
  <1>2. items \in Seq([title : DOMAIN Norm, axis : STRING, story : BOOLEAN])
    BY DEF Proposals
  <1>3. ASSUME NEW p \in DOMAIN items, p \in P PROVE items[p] \in Wanted
    <2>1. items[p] \in [title : DOMAIN Norm, axis : STRING, story : BOOLEAN]
      BY <1>2, ElementOfSeq, LenProperties
    <2>2. items[p].axis \in Axes
      BY <1>3
    <2>3. QED  BY <2>1, <2>2 DEF Wanted
  <1>4. ElementsAt(items, P) \in Seq(Wanted)
    <2> HIDE DEF P
    <2>1. QED  BY <1>2, <1>3, AtTyped
  <1>5. QED  BY <1>1, <1>4

(* The proposals of one kind, once sorted, are of that kind. *)
LEMMA KindsIs ==
    ASSUME NEW kept \in Seq(Wanted), NEW kind
    PROVE  Kinds(kept, kind) \in Seq(Proposed({kind}))
  <1>1. PICK n \in Nat : DOMAIN kept = 1..n /\ Len(kept) = n
    OBVIOUS
  <1>2. ASSUME NEW k \in 1..n
        PROVE  [title |-> kept[k].title, axis |-> kept[k].axis, kind |-> kind] \in Proposed({kind})
    <2>1. kept[k] \in Wanted
      BY <1>1, ElementOfSeq
    <2>2. kept[k].title \in DOMAIN Norm /\ kept[k].axis \in Axes
      BY <2>1 DEF Wanted
    <2>3. QED  BY <2>2 DEF Proposed
  <1>3. Kinds(kept, kind) \in [1..n -> Proposed({kind})]
    BY <1>1, <1>2 DEF Kinds
  <1>4. QED  BY <1>3, SeqDef

(* Of what repeats nothing, a selection repeats nothing. *)
LEMMA DistinctAt ==
    ASSUME NEW S, NEW items \in Seq(S), NEW positions,
           \A p, q \in DOMAIN items : p \in positions /\ q \in positions /\ p < q
                                        => Norm[items[p].title] # Norm[items[q].title]
    PROVE  Distinct(ElementsAt(items, positions))
  <1> DEFINE t == ElementsAt(items, positions)
  <1>1. t \in Seq(S) /\ DOMAIN t = 1..Len(t) /\ Len(t) \in Nat
    BY AtElements
  <1>2. ASSUME NEW j \in DOMAIN t, NEW k \in DOMAIN t, j < k
        PROVE  Norm[t[j].title] # Norm[t[k].title]
    <2>1. PICK p, q \in DOMAIN items : /\ p < q /\ p \in positions /\ q \in positions
                                       /\ t[j] = items[p] /\ t[k] = items[q]
      BY <1>2, AtApart
    <2>2. QED  BY <2>1
  <1> HIDE DEF t
  <1>3. ASSUME NEW j \in DOMAIN t, NEW k \in DOMAIN t, Norm[t[j].title] = Norm[t[k].title]
        PROVE  j = k
    <2>1. ~(j < k) /\ ~(k < j) /\ j \in Nat /\ k \in Nat
      BY <1>1, <1>2, <1>3
    <2>2. QED  BY <2>1
  <1>4. QED  BY <1>3 DEF Distinct, t

(* What is all of one kind is of either kind. *)
LEMMA ProposedUnion ==
    ASSUME NEW kind \in {"epic", "ticket"}, NEW items \in Seq(Proposed({kind}))
    PROVE  items \in Seq(Proposed({"epic", "ticket"}))
  <1>1. Proposed({kind}) \subseteq Proposed({"epic", "ticket"})
    BY DEF Proposed
  <1>2. QED  BY <1>1, SeqMonotonic

(* What is left of a report has titles that nobody has, each once. *)
LEMMA PickFresh ==
    ASSUME NEW items \in Seq(Proposed({"epic", "ticket"})), NEW beheld
    PROVE  LET kept == Pick(items, _drop_duplicate_titles(items, beheld), FALSE)
           IN  /\ kept \in Seq(Proposed({"epic", "ticket"})) /\ Distinct(kept)
               /\ \A k \in DOMAIN kept : Norm[kept[k].title] \notin beheld
  <1> DEFINE flags == _drop_duplicate_titles(items, beheld)
             P == {k \in DOMAIN items : flags[k] = FALSE}
             kept == Pick(items, flags, FALSE)
  <1>1. kept = ElementsAt(items, P)
    BY DEF Pick
  <1>2. DOMAIN items = 1..Len(items) /\ Len(items) \in Nat
    OBVIOUS
  <1>3. ASSUME NEW p \in P
        PROVE  /\ Norm[items[p].title] \notin beheld
               /\ \A q \in 1..(p - 1) : Norm[items[q].title] # Norm[items[p].title]
    BY <1>3 DEF _drop_duplicate_titles
  <1>4. P \subseteq DOMAIN items
    OBVIOUS
  <1> HIDE DEF P, kept
  <1>5. ASSUME NEW p \in DOMAIN items, NEW q \in DOMAIN items, p \in P, q \in P, p < q
        PROVE  Norm[items[p].title] # Norm[items[q].title]
    <2>1. p \in 1..(q - 1)
      BY <1>2, <1>5
    <2>2. QED  BY <1>3, <1>5, <2>1
  <1>6. Distinct(kept)
    BY <1>1, <1>5, DistinctAt
  <1>7. /\ kept \in Seq(Proposed({"epic", "ticket"}))
        /\ \A k \in DOMAIN kept : \E p \in DOMAIN items : p \in P /\ kept[k] = items[p]
    BY <1>1, AtElements
  <1>8. \A k \in DOMAIN kept : Norm[kept[k].title] \notin beheld
    BY <1>3, <1>7
  <1>9. QED  BY <1>6, <1>7, <1>8 DEF kept

(* The epics and the tickets of a report. *)
LEMMA SplitIs ==
    ASSUME NEW items \in Seq(Proposed({"epic", "ticket"}))
    PROVE  LET epics == Where(items, LAMBDA i : i.kind = "epic")
               tickets == Where(items, LAMBDA i : i.kind = "ticket")
           IN  /\ epics \in Seq(Proposed({"epic"})) /\ tickets \in Seq(Proposed({"ticket"}))
               /\ \A k \in DOMAIN epics : \E p \in DOMAIN items : epics[k] = items[p]
               /\ \A k \in DOMAIN tickets : \E p \in DOMAIN items : tickets[k] = items[p]
               /\ Distinct(items) =>
                     /\ Distinct(epics) /\ Distinct(tickets)
                     /\ \A j \in DOMAIN epics, k \in DOMAIN tickets :
                           Norm[epics[j].title] # Norm[tickets[k].title]
  <1> DEFINE P(kind) == {k \in DOMAIN items : items[k].kind = kind}
             part(kind) == ElementsAt(items, P(kind))
  <1>1. /\ Where(items, LAMBDA i : i.kind = "epic") = part("epic")
        /\ Where(items, LAMBDA i : i.kind = "ticket") = part("ticket")
    BY DEF Where
  <1>2. ASSUME NEW kind \in {"epic", "ticket"}
        PROVE  /\ part(kind) \in Seq(Proposed({kind}))
               /\ \A k \in DOMAIN part(kind) :
                     \E p \in DOMAIN items : p \in P(kind) /\ part(kind)[k] = items[p]
               /\ Distinct(items) => Distinct(part(kind))
    <2>1. ASSUME NEW p \in DOMAIN items, p \in P(kind) PROVE items[p] \in Proposed({kind})
      <3>1. items[p] \in Proposed({"epic", "ticket"}) /\ items[p].kind = kind
        BY <2>1, ElementOfSeq, LenProperties
      <3>2. QED  BY <3>1 DEF Proposed
    <2>2. part(kind) \in Seq(Proposed({kind}))
      <3> HIDE DEF P
      <3>1. QED  BY <2>1, AtTyped
    <2>3. ASSUME Distinct(items) PROVE Distinct(part(kind))
      <3>1. \A p, q \in DOMAIN items : p \in P(kind) /\ q \in P(kind) /\ p < q
                                        => Norm[items[p].title] # Norm[items[q].title]
        <4>1. \A p, q \in DOMAIN items : p < q => p # q
          BY LenProperties
        <4>2. QED  BY <2>3, <4>1 DEF Distinct
      <3> HIDE DEF P
      <3>2. QED  BY <3>1, DistinctAt
    <2>4. \A k \in DOMAIN part(kind) :
             \E p \in DOMAIN items : p \in P(kind) /\ part(kind)[k] = items[p]
      <3> HIDE DEF P
      <3>1. QED  BY AtElements
    <2>5. QED  BY <2>2, <2>3, <2>4
  <1>3. ASSUME Distinct(items), NEW j \in DOMAIN part("epic"), NEW k \in DOMAIN part("ticket")
        PROVE  Norm[part("epic")[j].title] # Norm[part("ticket")[k].title]
    <2>1. PICK p \in DOMAIN items : items[p].kind = "epic" /\ part("epic")[j] = items[p]
      <3> HIDE DEF part
      <3>1. QED  BY <1>2
    <2>2. PICK q \in DOMAIN items : items[q].kind = "ticket" /\ part("ticket")[k] = items[q]
      <3> HIDE DEF part
      <3>1. QED  BY <1>2
    <2>3. p # q
      BY <2>1, <2>2
    <2> HIDE DEF part
    <2>4. QED  BY <1>3, <2>1, <2>2, <2>3 DEF Distinct
  <1>4. /\ \A k \in DOMAIN part("epic") : \E p \in DOMAIN items : part("epic")[k] = items[p]
        /\ \A k \in DOMAIN part("ticket") : \E p \in DOMAIN items : part("ticket")[k] = items[p]
    <2> HIDE DEF part, P
    <2>1. QED  BY <1>2
  <1>5. QED
    <2> HIDE DEF part
    <2>1. QED  BY <1>1, <1>2, <1>3, <1>4

(* A report that is applied. *)
LEMMA ApplySound ==
    ASSUME BacklogSound, NEW report \in Reports, ApplyReport(report) PROVE BacklogSound'
  <1>1. PICK listed \in BOOLEAN :
          /\ IF listed THEN UNCHANGED mishaps ELSE Mishap
          /\ LET items == Kinds(_filter_items(report.epics), "epic")
                            \o Kinds(_filter_items(report.tickets), "ticket")
                 beheld == list_open_backlog(listed)
                 flags == _drop_duplicate_titles(items, TitlesOf(beheld))
                 kept == Pick(items, flags, FALSE)
             IN  cmd' = [NoCommand EXCEPT
                           !.phase = "dupes", !.hash = report.hash, !.dupes = Pick(items, flags, TRUE),
                           !.epics = Where(kept, LAMBDA i : i.kind = "epic"),
                           !.tickets = Where(kept, LAMBDA i : i.kind = "ticket"),
                           !.blind = beheld # Open({"epic", "ticket"})]
    BY DEF ApplyReport
  <1> DEFINE items == Kinds(_filter_items(report.epics), "epic")
                        \o Kinds(_filter_items(report.tickets), "ticket")
             beheld == list_open_backlog(listed)
             flags == _drop_duplicate_titles(items, TitlesOf(beheld))
             kept == Pick(items, flags, FALSE)
             dupes == Pick(items, flags, TRUE)
             epics == Where(kept, LAMBDA i : i.kind = "epic")
             tickets == Where(kept, LAMBDA i : i.kind = "ticket")
             blind == beheld # Open({"epic", "ticket"})
  <1>2. cmd' = [NoCommand EXCEPT
                  !.phase = "dupes", !.hash = report.hash, !.dupes = dupes, !.epics = epics,
                  !.tickets = tickets, !.blind = blind]
    BY <1>1
  <1>3. items \in Seq(Proposed({"epic", "ticket"}))
    <2>1. report.epics \in Proposals /\ report.tickets \in Proposals
      BY BacklogAssumption
    <2>2. /\ Kinds(_filter_items(report.epics), "epic") \in Seq(Proposed({"epic", "ticket"}))
          /\ Kinds(_filter_items(report.tickets), "ticket") \in Seq(Proposed({"epic", "ticket"}))
      BY <2>1, FilterIs, KindsIs, ProposedUnion
    <2>3. QED  BY <2>2, ConcatProperties
  <1>4. dupes \in Seq(Proposed({"epic", "ticket"}))
    <2> HIDE DEF items, flags
    <2>1. QED  BY <1>3, AtElements DEF Pick
  <1> HIDE DEF items, beheld
  <1>5. /\ kept \in Seq(Proposed({"epic", "ticket"})) /\ Distinct(kept)
        /\ \A k \in DOMAIN kept : Norm[kept[k].title] \notin TitlesOf(beheld)
    BY <1>3, PickFresh
  <1> HIDE DEF kept, dupes
  <1>6. /\ epics \in Seq(Proposed({"epic"})) /\ tickets \in Seq(Proposed({"ticket"}))
        /\ \A k \in DOMAIN epics : \E p \in DOMAIN kept : epics[k] = kept[p]
        /\ \A k \in DOMAIN tickets : \E p \in DOMAIN kept : tickets[k] = kept[p]
        /\ Distinct(epics) /\ Distinct(tickets)
        /\ \A j \in DOMAIN epics, k \in DOMAIN tickets : Norm[epics[j].title] # Norm[tickets[k].title]
    BY <1>5, SplitIs
  <1> HIDE DEF epics, tickets, blind
  <1>7. /\ cmd'.phase = "dupes" /\ cmd'.hash = report.hash /\ cmd'.dupes = dupes
        /\ cmd'.epics = epics /\ cmd'.tickets = tickets /\ cmd'.blind = blind
        /\ cmd'.filed = [a \in Axes |-> 0]
    BY <1>2 DEF NoCommand
  <1>8. cmd' \in Command
    <2>1. report.hash \in Hashes /\ blind \in BOOLEAN
      BY DEF Hashes, blind
    <2>2. NoCommand \in Command
      BY NoCommandIs
    <2>3. QED  BY <1>2, <1>4, <1>6, <2>1, <2>2 DEF Command
  <1>9. CommandSound(issues, cmd')
    BY <1>7 DEF CommandSound
  <1>10. FreshSound(issues, cmd')
    <2>1. SUFFICES ASSUME ~blind
                   PROVE  /\ \A k \in DOMAIN epics : ~OpenTitle(issues, epics[k].title)
                          /\ \A k \in DOMAIN tickets : ~OpenTitle(issues, tickets[k].title)
      BY <1>6, <1>7 DEF FreshSound
    <2>2. beheld = Open({"epic", "ticket"})
      BY <2>1 DEF blind
    <2>3. ASSUME NEW p \in DOMAIN kept PROVE ~OpenTitle(issues, kept[p].title)
      BY <1>5, <2>2 DEF TitlesOf, Open, OpenTitle
    <2>4. QED  BY <1>6, <2>3
  <1>11. mishaps' \in 0..MaxBacklogOdd
    BY <1>1, MishapTyped
  <1>12. UNCHANGED <<issues, ledger, notes>>
    BY DEF ApplyReport
  <1>13. QED  BY <1>8, <1>9, <1>10, <1>11, <1>12, SameIssues

(* A sequence without its first element. *)
LEMMA TailIs ==
    ASSUME NEW S, NEW s \in Seq(S), s # <<>>
    PROVE  /\ Head(s) \in S /\ Head(s) = s[1] /\ 1 \in DOMAIN s /\ Tail(s) \in Seq(S)
           /\ \A k \in DOMAIN Tail(s) : k \in Nat /\ k + 1 \in DOMAIN s /\ Tail(s)[k] = s[k + 1] /\ k + 1 # 1
  <1>1. Len(s) \in Nat /\ Len(s) # 0 /\ DOMAIN s = 1..Len(s)
    BY EmptySeq
  <1>2. Tail(s) \in Seq(S) /\ Len(Tail(s)) = Len(s) - 1 /\ DOMAIN Tail(s) = 1..(Len(s) - 1)
    BY <1>1, HeadTailProperties
  <1>3. \A k \in 1..(Len(s) - 1) : Tail(s)[k] = s[k + 1] /\ k \in Nat /\ k + 1 \in 1..Len(s) /\ k + 1 # 1
    BY <1>1, <1>2, HeadTailProperties
  <1>4. Head(s) = s[1] /\ 1 \in DOMAIN s
    BY <1>1
  <1>5. Head(s) \in S
    BY <1>1, <1>4, ElementOfSeq
  <1>6. QED  BY <1>1, <1>2, <1>3, <1>4, <1>5

(* A key of the command's run. *)
LEMMA DecisionIs ==
    ASSUME cmd \in Command, NEW item \in Proposed({"epic", "ticket"}),
           NEW outcome \in {"accepted", "rejected"}, NEW number \in Nat
    PROVE  Decision(item, outcome, number) \in Verdict
  <1>1. item.title \in DOMAIN Norm /\ item.axis \in Axes /\ item.kind \in {"epic", "ticket"}
    BY DEF Proposed
  <1>2. cmd.hash \in Hashes
    BY CommandFields
  <1>3. _source_key(item) \in Keys
    BY <1>1, <1>2 DEF _source_key, Keys, Norms
  <1>4. QED  BY <1>1, <1>3 DEF Decision, Verdict

LEMMA DupeSound == ASSUME BacklogSound, RecordDupe PROVE BacklogSound'
  <1>1. cmd \in Command /\ CommandSound(issues, cmd) /\ FreshSound(issues, cmd)
    BY DEF BacklogSound, BacklogForm
  <1>2. CASE ~ledger.ok
    <2>1. cmd' = NoCommand /\ UNCHANGED <<issues, ledger, notes, mishaps>>
      BY <1>2 DEF RecordDupe, CommandEnds
    <2>2. QED  BY <2>1, NoCommandIs, MishapTyped, SameIssues
  <1>3. CASE ledger.ok
    <2> DEFINE d == Decision(Head(cmd.dupes), "rejected", 0)
    <2>1. /\ Decided(d) /\ cmd' = [cmd EXCEPT !.dupes = Tail(cmd.dupes)]
          /\ UNCHANGED issues /\ cmd.phase = "dupes" /\ cmd.dupes # <<>>
      BY <1>3 DEF RecordDupe
    <2>2. Head(cmd.dupes) \in Proposed({"epic", "ticket"})
          /\ Tail(cmd.dupes) \in Seq(Proposed({"epic", "ticket"}))
      BY <1>1, <2>1, CommandFields, TailIs
    <2>3. d \in Verdict /\ d.outcome = "rejected"
      <3>1. d \in Verdict
        BY <1>1, <2>2, DecisionIs
      <3>2. QED  BY <3>1 DEF Decision
    <2> HIDE DEF d
    <2>4. /\ ledger' \in [ok : BOOLEAN, list : Seq(Verdict)] /\ notes' \in Seq(Note)
          /\ mishaps' \in 0..MaxBacklogOdd
          /\ KeysOnce(ledger'.list, notes') /\ AcceptedWasFiled'
      BY <2>1, <2>3, DecidedSound
    <2>5. cmd' \in Command
      BY <1>1, <2>1, <2>2 DEF Command
    <2>6. /\ cmd'.phase = "dupes" /\ cmd'.hash = cmd.hash /\ cmd'.epics = cmd.epics
          /\ cmd'.tickets = cmd.tickets /\ cmd'.filed = cmd.filed /\ cmd'.blind = cmd.blind
      BY <1>1, <2>1 DEF Command
    <2>7. CommandSound(issues, cmd') /\ FreshSound(issues, cmd')
      BY <1>1, <2>1, <2>6 DEF CommandSound, FreshSound
    <2>8. BacklogForm'
      BY <2>1, <2>4, <2>5 DEF BacklogSound, BacklogForm
    <2>9. NothingFiledTwice' /\ TicketHasItsEpic'
      BY <2>1 DEF BacklogSound, NothingFiledTwice, TicketHasItsEpic, Open
    <2>10. QED  BY <2>1, <2>4, <2>7, <2>8, <2>9 DEF BacklogSound
  <1>4. QED  BY <1>2, <1>3

(* The duplicates are recorded and the filing begins. *)
LEMMA PhaseSound ==
    ASSUME BacklogSound, cmd.phase = "dupes", cmd' = [cmd EXCEPT !.phase = "file"],
           UNCHANGED <<issues, ledger, notes, mishaps>>
    PROVE  BacklogSound'
  <1>1. cmd \in Command /\ CommandSound(issues, cmd) /\ FreshSound(issues, cmd)
    BY DEF BacklogSound, BacklogForm
  <1>2. /\ cmd' \in Command /\ cmd'.phase = "file" /\ cmd'.hash = cmd.hash
        /\ cmd'.epics = cmd.epics /\ cmd'.tickets = cmd.tickets /\ cmd'.filed = cmd.filed
        /\ cmd'.blind = cmd.blind
    BY <1>1 DEF Command
  <1>3. CommandSound(issues, cmd') /\ FreshSound(issues, cmd')
    BY <1>1, <1>2 DEF CommandSound, FreshSound
  <1>4. QED  BY <1>2, <1>3, MishapTyped, SameIssues

(* What a brainstorm is shown. *)
LEMMA ShownIs ==
    ASSUME BacklogSound
    PROVE  /\ \A listed : TitlesOf(list_open_backlog(listed)) \subseteq Norms
           /\ TitlesOf({}) = {}
           /\ {normalize_candidate_key(i.title, i.axis) : i \in ToSet(list_rejected_paths(notes))}
                 \subseteq Norms \X Axes
  <1>1. issues \in Seq(Filing) /\ notes \in Seq(Note)
    BY DEF BacklogSound, BacklogForm
  <1>2. ASSUME NEW listed PROVE TitlesOf(list_open_backlog(listed)) \subseteq Norms
    <2>1. list_open_backlog(listed) \subseteq DOMAIN issues
      BY DEF list_open_backlog, Newest, Open
    <2>2. \A n \in DOMAIN issues : issues[n].title \in DOMAIN Norm
      <3>1. \A n \in DOMAIN issues : issues[n] \in Filing
        BY <1>1, ElementOfSeq, LenProperties
      <3>2. QED  BY <3>1 DEF Filing
    <2>3. QED  BY <2>1, <2>2 DEF TitlesOf, Norms
  <1>3. ASSUME NEW i \in ToSet(list_rejected_paths(notes))
        PROVE  normalize_candidate_key(i.title, i.axis) \in Norms \X Axes
    <2> DEFINE active == list_active(notes)
               P == {k \in DOMAIN notes : is_active(notes[k])}
               Q == {k \in DOMAIN active : "rejected-path" \in active[k].tags}
    <2>1. active = ElementsAt(notes, P) /\ active \in Seq(Note)
      BY <1>1, AtElements DEF list_active, Where
    <2>2. list_rejected_paths(notes) = ElementsAt(active, Q)
      BY DEF list_rejected_paths, Tagged, Where
    <2> HIDE DEF active, Q
    <2>3. ElementsAt(active, Q) \in Seq(Note)
      BY <2>1, AtElements
    <2>4. i \in Note
      BY <2>2, <2>3, ElementOfSeq, LenProperties DEF ToSet
    <2>5. i.title \in DOMAIN Norm /\ i.axis \in Axes
      BY <2>4 DEF Note
    <2>6. QED  BY <2>5 DEF normalize_candidate_key, Norms
  <1>4. TitlesOf({}) = {}
    BY DEF TitlesOf
  <1>5. QED  BY <1>2, <1>3, <1>4

LEMMA BrainstormSound == ASSUME BacklogSound, Brainstorm PROVE BacklogSound'
  <1>1. PICK beheld \in {list_open_backlog(TRUE), {}}, known \in BOOLEAN :
          /\ IF known /\ beheld = list_open_backlog(TRUE) THEN UNCHANGED mishaps ELSE Mishap
          /\ cmd' = [NoCommand EXCEPT
                       !.phase = "session", !.titles = TitlesOf(beheld), !.blind = TRUE,
                       !.rejected = IF ~known THEN {} ELSE
                           {normalize_candidate_key(i.title, i.axis) :
                               i \in ToSet(list_rejected_paths(notes))}]
    BY DEF Brainstorm
  <1> DEFINE titles == TitlesOf(beheld)
             rejected == IF ~known THEN {} ELSE
                           {normalize_candidate_key(i.title, i.axis) :
                               i \in ToSet(list_rejected_paths(notes))}
  <1>2. titles \subseteq Norms /\ rejected \subseteq Norms \X Axes
    BY <1>1, ShownIs
  <1>3. cmd' = [NoCommand EXCEPT !.phase = "session", !.titles = titles, !.blind = TRUE,
                                 !.rejected = rejected]
    BY <1>1
  <1> HIDE DEF titles, rejected
  <1>4. cmd' \in Command
    BY <1>2, <1>3, NoCommandIs DEF Command
  <1>5. cmd'.phase = "session" /\ cmd'.filed = [a \in Axes |-> 0]
    BY <1>3 DEF NoCommand
  <1>6. CommandSound(issues, cmd') /\ FreshSound(issues, cmd')
    BY <1>5 DEF CommandSound, FreshSound
  <1>7. mishaps' \in 0..MaxBacklogOdd
    BY <1>1, MishapTyped
  <1>8. UNCHANGED <<issues, ledger, notes>>
    BY DEF Brainstorm
  <1>9. QED  BY <1>4, <1>6, <1>7, <1>8, SameIssues

(* A command that ends leaves the backlog as it is. *)
LEMMA EndsSound ==
    ASSUME BacklogSound, CommandEnds, Mishap \/ UNCHANGED mishaps,
           UNCHANGED <<issues, ledger, notes>>
    PROVE  BacklogSound'
  <1>1. cmd' = NoCommand
    BY DEF CommandEnds
  <1>2. QED  BY <1>1, NoCommandIs, MishapTyped, SameIssues

LEMMA AnsweredSound == ASSUME BacklogSound, Answered PROVE BacklogSound'
  <1>1. UNCHANGED <<issues, ledger, notes>>
    BY DEF Answered
  <1>2. CASE Mishap /\ CommandEnds
    BY <1>1, <1>2, EndsSound
  <1>3. CASE \E report \in Reports :
            LET Fresh(i) == /\ normalize_candidate_key(i.title, i.axis) \notin cmd.rejected
                            /\ Norm[i.title] \notin cmd.titles
                Kept(items) == Where(_filter_items(items), Fresh)
            IN  /\ cmd' = [NoCommand EXCEPT !.phase = "file", !.blind = TRUE,
                             !.epics = Kinds(Kept(report.epics), "epic"),
                             !.tickets = Kinds(Kept(report.tickets), "ticket")]
                /\ UNCHANGED mishaps
    <2> DEFINE P(items) == {k \in DOMAIN items :
                              /\ normalize_candidate_key(items[k].title, items[k].axis) \notin cmd.rejected
                              /\ Norm[items[k].title] \notin cmd.titles}
               Kept(items) == ElementsAt(_filter_items(items), P(_filter_items(items)))
    <2>1. PICK report \in Reports :
            /\ cmd' = [NoCommand EXCEPT !.phase = "file", !.blind = TRUE,
                         !.epics = Kinds(Kept(report.epics), "epic"),
                         !.tickets = Kinds(Kept(report.tickets), "ticket")]
            /\ UNCHANGED mishaps
      BY <1>3 DEF Where
    <2> DEFINE epics == Kinds(Kept(report.epics), "epic")
               tickets == Kinds(Kept(report.tickets), "ticket")
    <2>2. epics \in Seq(Proposed({"epic"})) /\ tickets \in Seq(Proposed({"ticket"}))
      <3> HIDE DEF P
      <3>1. report.epics \in Proposals /\ report.tickets \in Proposals
        BY BacklogAssumption
      <3>2. Kept(report.epics) \in Seq(Wanted) /\ Kept(report.tickets) \in Seq(Wanted)
        BY <3>1, FilterIs, AtElements
      <3> HIDE DEF Kept
      <3>3. QED  BY <3>2, KindsIs
    <2>3. cmd' = [NoCommand EXCEPT !.phase = "file", !.blind = TRUE, !.epics = epics,
                                   !.tickets = tickets]
      BY <2>1
    <2> HIDE DEF epics, tickets
    <2>4. cmd' \in Command
      BY <2>2, <2>3, NoCommandIs DEF Command
    <2>5. cmd'.phase = "file" /\ cmd'.blind /\ cmd'.filed = [a \in Axes |-> 0]
      BY <2>3 DEF NoCommand
    <2>6. CommandSound(issues, cmd') /\ FreshSound(issues, cmd')
      BY <2>5 DEF CommandSound, FreshSound
    <2>7. QED  BY <1>1, <2>1, <2>4, <2>6, MishapTyped, SameIssues
  <1>4. QED  BY <1>2, <1>3 DEF Answered

LEMMA AcceptSound == ASSUME BacklogSound, Accept PROVE BacklogSound'
  <1>1. /\ cmd \in Command /\ CommandSound(issues, cmd) /\ FreshSound(issues, cmd)
        /\ cmd.phase = "accept" /\ UNCHANGED issues
        /\ cmd' = [cmd EXCEPT !.phase = "file", !.accepted = <<>>]
    BY DEF BacklogSound, BacklogForm, Accept
  <1>2. /\ cmd'.phase = "file" /\ cmd'.hash = cmd.hash
        /\ cmd'.epics = cmd.epics /\ cmd'.tickets = cmd.tickets /\ cmd'.filed = cmd.filed
        /\ cmd'.blind = cmd.blind
    BY <1>1 DEF Command
  <1>3. cmd' \in Command
    <2>1. <<>> \in Seq(Verdict)
      BY EmptySeq
    <2>2. QED  BY <1>1, <2>1 DEF Command
  <1>4. CommandSound(issues, cmd') /\ FreshSound(issues, cmd')
    BY <1>1, <1>2 DEF CommandSound, FreshSound
  <1>5. CASE ~ledger.ok
    <2>1. UNCHANGED <<ledger, notes, mishaps>>
      BY <1>5 DEF Accept
    <2>2. QED  BY <1>1, <1>3, <1>4, <2>1, MishapTyped, SameIssues
  <1>6. CASE ledger.ok
    <2> DEFINE d == cmd.accepted[1]
    <2>1. Decided(d)
      BY <1>6 DEF Accept
    <2>2. d \in Verdict /\ d.issue \in DOMAIN issues /\ issues[d.issue].title = d.title
      <3>1. cmd.accepted \in Seq(Verdict) /\ cmd.accepted # <<>>
        BY <1>1, CommandFields DEF CommandSound
      <3>2. d \in Verdict
        BY <3>1, TailIs
      <3>3. QED  BY <1>1, <3>2 DEF CommandSound
    <2> HIDE DEF d
    <2>3. /\ ledger' \in [ok : BOOLEAN, list : Seq(Verdict)] /\ notes' \in Seq(Note)
          /\ mishaps' \in 0..MaxBacklogOdd
          /\ KeysOnce(ledger'.list, notes') /\ AcceptedWasFiled'
      BY <1>1, <2>1, <2>2, DecidedSound
    <2>4. BacklogForm'
      BY <1>1, <1>3, <2>3 DEF BacklogSound, BacklogForm
    <2>5. NothingFiledTwice' /\ TicketHasItsEpic'
      BY <1>1 DEF BacklogSound, NothingFiledTwice, TicketHasItsEpic, Open
    <2>6. QED  BY <1>1, <1>4, <2>3, <2>4, <2>5 DEF BacklogSound
  <1>7. QED  BY <1>5, <1>6

LEMMA DeathSound == ASSUME BacklogSound, Dies_B PROVE BacklogSound'
  <1>1. /\ Mishap /\ cmd' = NoCommand /\ UNCHANGED <<issues, notes>>
        /\ ledger \in [ok : BOOLEAN, list : Seq(Verdict)] /\ KeysOnce(ledger.list, notes)
        /\ AcceptedWasFiled
    BY DEF BacklogSound, BacklogForm, Dies_B, CommandEnds
  <1>2. CASE UNCHANGED ledger
    BY <1>1, <1>2, EndsSound DEF CommandEnds
  <1>3. CASE \/ ledger' = [ledger EXCEPT !.ok = FALSE]
             \/ \E n \in 0..Len(ledger.list) : ledger' = [ledger EXCEPT !.list = SubSeq(@, 1, n)]
    <2>1. ledger.list \in Seq(Verdict) /\ Len(ledger.list) \in Nat /\ DOMAIN ledger.list = 1..Len(ledger.list)
      BY <1>1
    <2>2. /\ ledger' \in [ok : BOOLEAN, list : Seq(Verdict)]
          /\ \A k \in DOMAIN ledger'.list : k \in DOMAIN ledger.list /\ ledger'.list[k] = ledger.list[k]
      <3>1. CASE ledger' = [ledger EXCEPT !.ok = FALSE]
        BY <1>1, <3>1
      <3>2. CASE \E n \in 0..Len(ledger.list) : ledger' = [ledger EXCEPT !.list = SubSeq(@, 1, n)]
        <4>1. PICK n \in 0..Len(ledger.list) : ledger' = [ledger EXCEPT !.list = SubSeq(@, 1, n)]
          BY <3>2
        <4> DEFINE part == SubSeq(ledger.list, 1, n)
        <4>2. /\ part \in Seq(Verdict) /\ DOMAIN part = 1..n
              /\ \A k \in 1..n : part[k] = ledger.list[k] /\ k \in 1..Len(ledger.list)
          BY <2>1
        <4> HIDE DEF part
        <4>3. ledger' = [ok |-> ledger.ok, list |-> part]
          BY <1>1, <4>1 DEF part
        <4>4. QED  BY <1>1, <2>1, <4>2, <4>3
      <3>3. QED  BY <1>3, <3>1, <3>2
    <2>3. KeysOnce(ledger'.list, notes') /\ AcceptedWasFiled'
      BY <1>1, <2>2 DEF KeysOnce, AcceptedWasFiled
    <2>4. BacklogForm'
      BY <1>1, <2>2, NoCommandIs, MishapTyped DEF BacklogSound, BacklogForm
    <2>5. NothingFiledTwice' /\ TicketHasItsEpic'
      BY <1>1 DEF BacklogSound, NothingFiledTwice, TicketHasItsEpic, Open
    <2>6. QED  BY <1>1, <2>3, <2>4, <2>5, NoCommandIs DEF BacklogSound
  <1>4. QED  BY <1>2, <1>3 DEF Dies_B

(* One issue more. *)
LEMMA AppendIssue ==
    ASSUME BacklogSound, NEW x \in Filing, issues' = Append(issues, x), UNCHANGED ledger,
           x.blind \/ x.kind = "pull" \/ ~OpenTitle(issues, x.title),
           x.parent # 0 => /\ x.parent \in DOMAIN issues
                           /\ issues[x.parent].kind = "epic" /\ issues[x.parent].axis = x.axis
                           /\ issues[x.parent].by = x.by
    PROVE  /\ issues' \in Seq(Filing) /\ DOMAIN issues' = DOMAIN issues \cup {Len(issues) + 1}
           /\ Len(issues) + 1 \notin DOMAIN issues
           /\ issues'[Len(issues) + 1] = x /\ \A n \in DOMAIN issues : issues'[n] = issues[n]
           /\ NothingFiledTwice' /\ TicketHasItsEpic' /\ AcceptedWasFiled'
  <1>1. /\ issues \in Seq(Filing) /\ NothingFiledTwice /\ TicketHasItsEpic /\ AcceptedWasFiled
    BY DEF BacklogSound, BacklogForm
  <1>2. PICK len \in Nat : len = Len(issues) /\ DOMAIN issues = 1..len
    BY <1>1
  <1>3. /\ issues' \in Seq(Filing) /\ DOMAIN issues' = 1..(len + 1) /\ issues'[len + 1] = x
        /\ \A n \in 1..len : issues'[n] = issues[n]
    BY <1>1, <1>2, AppendProperties
  <1>4. 1..(len + 1) = 1..len \cup {len + 1} /\ len + 1 \notin 1..len
        /\ \A n \in 1..len : n \in 1..(len + 1) /\ n < len + 1
    BY <1>2
  <1>5. ASSUME NEW m \in DOMAIN issues', NEW n \in DOMAIN issues', m < n,
               {m, n} \subseteq Open({"epic", "ticket"})',
               Norm[issues'[m].title] = Norm[issues'[n].title]
        PROVE  issues'[n].blind
    <2>1. /\ issues'[m].open /\ issues'[m].kind \in {"epic", "ticket"}
          /\ issues'[n].open /\ issues'[n].kind \in {"epic", "ticket"}
      BY <1>5 DEF Open
    <2>2. m \in 1..len
      BY <1>2, <1>3, <1>5
    <2>3. CASE n = len + 1
      <3>1. OpenTitle(issues, x.title)
        BY <1>2, <1>3, <1>5, <2>1, <2>2, <2>3 DEF OpenTitle
      <3>2. x.kind # "pull"
        BY <1>3, <2>1, <2>3
      <3>3. QED  BY <1>3, <2>3, <3>1, <3>2
    <2>4. CASE n \in 1..len
      <3>1. {m, n} \subseteq Open({"epic", "ticket"})
        BY <1>2, <1>3, <2>1, <2>2, <2>4 DEF Open
      <3>2. QED  BY <1>1, <1>2, <1>3, <1>5, <2>2, <2>4, <3>1 DEF NothingFiledTwice
    <2>5. QED  BY <1>3, <1>4, <1>5, <2>3, <2>4
  <1>6. NothingFiledTwice'
    BY <1>5 DEF NothingFiledTwice
  <1>7. ASSUME NEW n \in DOMAIN issues', issues'[n].parent # 0
        PROVE  /\ issues'[issues'[n].parent].kind = "epic"
               /\ issues'[issues'[n].parent].axis = issues'[n].axis
               /\ issues'[issues'[n].parent].by = issues'[n].by
               /\ issues'[n].parent < n
    <2>1. CASE n = len + 1
      BY <1>2, <1>3, <1>4, <1>7, <2>1
    <2>2. CASE n \in 1..len
      <3>1. /\ issues[issues[n].parent].kind = "epic"
            /\ issues[issues[n].parent].axis = issues[n].axis
            /\ issues[issues[n].parent].by = issues[n].by
            /\ issues[n].parent < n /\ issues'[n] = issues[n] /\ issues[n].parent # 0
        BY <1>1, <1>2, <1>3, <1>7, <2>2 DEF TicketHasItsEpic
      <3>2. issues[n].parent \in Nat
        <4>1. issues[n] \in Filing
          BY <1>1, <1>2, <2>2, ElementOfSeq
        <4>2. QED  BY <4>1 DEF Filing
      <3>3. issues[n].parent \in 1..len
        BY <1>2, <2>2, <3>1, <3>2
      <3>4. QED  BY <1>3, <3>1, <3>3
    <2>3. n \in 1..len \/ n = len + 1
      BY <1>3, <1>4, <1>7
    <2>4. QED  BY <2>1, <2>2, <2>3
  <1>8. TicketHasItsEpic'
    BY <1>7 DEF TicketHasItsEpic
  <1>9. AcceptedWasFiled'
    BY <1>1, <1>2, <1>3, <1>4 DEF AcceptedWasFiled
  <1>10. QED  BY <1>2, <1>3, <1>4, <1>6, <1>8, <1>9

(* A new issue leaves what a command knows of the others. *)
LEMMA CommandKept ==
    ASSUME NEW filed, NEW more, NEW c, CommandSound(filed, c),
           \A n \in DOMAIN filed : n \in DOMAIN more /\ more[n].title = filed[n].title
                /\ more[n].kind = filed[n].kind /\ more[n].axis = filed[n].axis
                /\ more[n].by = filed[n].by
    PROVE  CommandSound(more, c)
  BY DEF CommandSound

(* What is filed next, epics before tickets. *)
LEMMA ItemIs ==
    ASSUME NEW c \in Command, c.epics \o c.tickets # <<>>
    PROVE  LET item == Head(c.epics \o c.tickets)
           IN  /\ item \in Proposed({"epic", "ticket"})
               /\ \/ item.kind = "epic" /\ c.epics # <<>> /\ item = c.epics[1]
                  \/ item.kind = "ticket" /\ c.tickets # <<>> /\ item = c.tickets[1]
  <1>1. c.epics \in Seq(Proposed({"epic"})) /\ c.tickets \in Seq(Proposed({"ticket"}))
    BY CommandFields
  <1>2. CASE c.epics = <<>>
    <2>1. c.epics \o c.tickets = c.tickets
      BY <1>1, <1>2, ConcatEmptySeq
    <2>2. Head(c.tickets) \in Proposed({"ticket"}) /\ Head(c.tickets) = c.tickets[1]
      BY <1>1, <2>1, TailIs
    <2>3. QED  BY <2>1, <2>2 DEF Proposed
  <1>3. CASE c.epics # <<>>
    <2>1. Head(c.epics) \in Proposed({"epic"}) /\ Head(c.epics) = c.epics[1] /\ 1 \in DOMAIN c.epics
      BY <1>1, <1>3, TailIs
    <2>2. c.epics \in Seq(Proposed({"epic", "ticket"})) /\ c.tickets \in Seq(Proposed({"epic", "ticket"}))
      BY <1>1, ProposedUnion
    <2>3. Head(c.epics \o c.tickets) = c.epics[1]
      <3>1. PICK m, n \in Nat : m = Len(c.epics) /\ n = Len(c.tickets)
        BY <2>2
      <3>2. /\ Len(c.epics \o c.tickets) = m + n
            /\ \A i \in 1..(m + n) : (c.epics \o c.tickets)[i] = IF i <= m THEN c.epics[i] ELSE c.tickets[i - m]
        BY <2>2, <3>1, ConcatProperties
      <3>3. m >= 1 /\ 1 \in 1..(m + n)
        <4>1. 1 \in 1..m
          BY <2>1, <2>2, <3>1, LenProperties
        <4>2. QED  BY <4>1
      <3>4. (c.epics \o c.tickets)[1] = c.epics[1]
        BY <3>2, <3>3
      <3>5. c.epics \o c.tickets \in Seq(Proposed({"epic", "ticket"}))
        BY <2>2, ConcatProperties
      <3>6. QED  BY <3>4, <3>5, TailIs
    <2>4. QED  BY <1>3, <2>1, <2>3 DEF Proposed
  <1>4. QED  BY <1>2, <1>3

(* What is left when the first is filed is new yet. *)
LEMMA LeftFresh ==
    ASSUME NEW filed, NEW more, NEW c \in Command, NEW d, FreshSound(filed, c), c.phase = "file",
           NEW item, d.blind = c.blind,
           \/ /\ c.epics # <<>> /\ item = c.epics[1]
              /\ d.epics = Tail(c.epics) /\ d.tickets = c.tickets
           \/ /\ c.tickets # <<>> /\ item = c.tickets[1]
              /\ d.epics = c.epics /\ d.tickets = Tail(c.tickets),
           \A title : OpenTitle(more, title) =>
                        OpenTitle(filed, title) \/ Norm[title] = Norm[item.title]
    PROVE  FreshSound(more, d)
  <1> SUFFICES ASSUME ~d.blind
               PROVE  /\ Distinct(d.epics) /\ Distinct(d.tickets)
                      /\ \A j \in DOMAIN d.epics, k \in DOMAIN d.tickets :
                            Norm[d.epics[j].title] # Norm[d.tickets[k].title]
                      /\ \A k \in DOMAIN d.epics : ~OpenTitle(more, d.epics[k].title)
                      /\ \A k \in DOMAIN d.tickets : ~OpenTitle(more, d.tickets[k].title)
    BY DEF FreshSound
  <1>1. c.epics \in Seq(Proposed({"epic"})) /\ c.tickets \in Seq(Proposed({"ticket"}))
    BY CommandFields
  <1>2. /\ Distinct(c.epics) /\ Distinct(c.tickets)
        /\ \A j \in DOMAIN c.epics, k \in DOMAIN c.tickets :
              Norm[c.epics[j].title] # Norm[c.tickets[k].title]
        /\ \A k \in DOMAIN c.epics : ~OpenTitle(filed, c.epics[k].title)
        /\ \A k \in DOMAIN c.tickets : ~OpenTitle(filed, c.tickets[k].title)
    BY DEF FreshSound
  <1>3. CASE /\ c.epics # <<>> /\ item = c.epics[1]
             /\ d.epics = Tail(c.epics) /\ d.tickets = c.tickets
    <2>1. /\ 1 \in DOMAIN c.epics
          /\ \A k \in DOMAIN d.epics : /\ k \in Nat /\ k + 1 \in DOMAIN c.epics
                                       /\ d.epics[k] = c.epics[k + 1] /\ k + 1 # 1
      BY <1>1, <1>3, TailIs
    <2>2. Distinct(d.epics)
      <3>1. ASSUME NEW j \in DOMAIN d.epics, NEW k \in DOMAIN d.epics,
                   Norm[d.epics[j].title] = Norm[d.epics[k].title]
            PROVE  j = k
        <4>1. j + 1 = k + 1
          BY <1>2, <2>1, <3>1 DEF Distinct
        <4>2. j \in Nat /\ k \in Nat
          BY <2>1
        <4>3. QED  BY <4>1, <4>2
      <3>2. QED  BY <3>1 DEF Distinct
    <2>3. \A k \in DOMAIN d.epics : Norm[d.epics[k].title] # Norm[item.title]
      BY <1>2, <1>3, <2>1 DEF Distinct
    <2>4. \A k \in DOMAIN d.tickets : Norm[d.tickets[k].title] # Norm[item.title]
      BY <1>2, <1>3, <2>1
    <2>5. \A j \in DOMAIN d.epics, k \in DOMAIN d.tickets :
             Norm[d.epics[j].title] # Norm[d.tickets[k].title]
      BY <1>2, <1>3, <2>1
    <2>6. \A k \in DOMAIN d.epics : ~OpenTitle(more, d.epics[k].title)
      BY <1>2, <2>1, <2>3
    <2>7. \A k \in DOMAIN d.tickets : ~OpenTitle(more, d.tickets[k].title)
      BY <1>2, <1>3, <2>4
    <2>8. QED  BY <1>2, <1>3, <2>2, <2>5, <2>6, <2>7
  <1>4. CASE /\ c.tickets # <<>> /\ item = c.tickets[1]
             /\ d.epics = c.epics /\ d.tickets = Tail(c.tickets)
    <2>1. /\ 1 \in DOMAIN c.tickets
          /\ \A k \in DOMAIN d.tickets : /\ k \in Nat /\ k + 1 \in DOMAIN c.tickets
                                         /\ d.tickets[k] = c.tickets[k + 1] /\ k + 1 # 1
      BY <1>1, <1>4, TailIs
    <2>2. Distinct(d.tickets)
      <3>1. ASSUME NEW j \in DOMAIN d.tickets, NEW k \in DOMAIN d.tickets,
                   Norm[d.tickets[j].title] = Norm[d.tickets[k].title]
            PROVE  j = k
        <4>1. j + 1 = k + 1
          BY <1>2, <2>1, <3>1 DEF Distinct
        <4>2. j \in Nat /\ k \in Nat
          BY <2>1
        <4>3. QED  BY <4>1, <4>2
      <3>2. QED  BY <3>1 DEF Distinct
    <2>3. \A k \in DOMAIN d.tickets : Norm[d.tickets[k].title] # Norm[item.title]
      BY <1>2, <1>4, <2>1 DEF Distinct
    <2>4. \A k \in DOMAIN d.epics : Norm[d.epics[k].title] # Norm[item.title]
      BY <1>2, <1>4, <2>1
    <2>5. \A j \in DOMAIN d.epics, k \in DOMAIN d.tickets :
             Norm[d.epics[j].title] # Norm[d.tickets[k].title]
      BY <1>2, <1>4, <2>1
    <2>6. \A k \in DOMAIN d.tickets : ~OpenTitle(more, d.tickets[k].title)
      BY <1>2, <2>1, <2>3
    <2>7. \A k \in DOMAIN d.epics : ~OpenTitle(more, d.epics[k].title)
      BY <1>2, <1>4, <2>4
    <2>8. QED  BY <1>2, <1>4, <2>2, <2>5, <2>6, <2>7
  <1>5. QED  BY <1>3, <1>4

(* A command with other epics left. *)
LEMMA SetEpics ==
    ASSUME NEW c \in Command, NEW s \in Seq(Proposed({"epic"})), NEW n, n = [c EXCEPT !.epics = s]
    PROVE  /\ n \in Command /\ n.epics = s
           /\ n.phase = c.phase /\ n.hash = c.hash /\ n.tickets = c.tickets /\ n.dupes = c.dupes
           /\ n.filed = c.filed /\ n.accepted = c.accepted /\ n.titles = c.titles
           /\ n.rejected = c.rejected /\ n.blind = c.blind
  BY DEF Command

(* With other tickets. *)
LEMMA SetTickets ==
    ASSUME NEW c \in Command, NEW s \in Seq(Proposed({"ticket"})), NEW n, n = [c EXCEPT !.tickets = s]
    PROVE  /\ n \in Command /\ n.tickets = s
           /\ n.phase = c.phase /\ n.hash = c.hash /\ n.epics = c.epics /\ n.dupes = c.dupes
           /\ n.filed = c.filed /\ n.accepted = c.accepted /\ n.titles = c.titles
           /\ n.rejected = c.rejected /\ n.blind = c.blind
  BY DEF Command

(* With other epics filed. *)
LEMMA SetFiled ==
    ASSUME NEW c \in Command, NEW f \in [Axes -> Nat], NEW n, n = [c EXCEPT !.filed = f]
    PROVE  /\ n \in Command /\ n.filed = f
           /\ n.phase = c.phase /\ n.hash = c.hash /\ n.epics = c.epics /\ n.tickets = c.tickets
           /\ n.dupes = c.dupes /\ n.accepted = c.accepted /\ n.titles = c.titles
           /\ n.rejected = c.rejected /\ n.blind = c.blind
  BY DEF Command

(* What a command has become when its next item is filed, or fails to be. *)
Left(item, c) ==
    /\ c \in Command /\ c.hash = cmd.hash /\ c.blind = cmd.blind
    /\ \/ /\ cmd.epics # <<>> /\ item = cmd.epics[1]
          /\ c.epics = Tail(cmd.epics) /\ c.tickets = cmd.tickets
       \/ /\ cmd.tickets # <<>> /\ item = cmd.tickets[1]
          /\ c.epics = cmd.epics /\ c.tickets = Tail(cmd.tickets)

(* After an item, filed or failed, what is left is the tail of the list, and
   only an epic that was filed is known under its axis. *)
LEMMA NextIs ==
    ASSUME cmd \in Command, issues \in Seq(Filing), cmd.phase = "file",
           cmd.epics \o cmd.tickets # <<>>,
           NEW item, item = Head(cmd.epics \o cmd.tickets)
    PROVE  /\ Left(item, Failed_(item)) /\ Failed_(item).phase = "file"
           /\ Failed_(item).filed = cmd.filed
           /\ Left(item, Next_(item)) /\ Next_(item).phase \in {"file", "accept"}
           /\ \A a \in Axes : \/ Next_(item).filed[a] = cmd.filed[a]
                              \/ /\ item.kind = "epic" /\ a = item.axis
                                 /\ Next_(item).filed[a] = Len(issues) + 1
           /\ Next_(item).phase = "accept" => /\ Next_(item).accepted # <<>>
                                              /\ Next_(item).accepted[1].issue = Len(issues) + 1
                                              /\ Next_(item).accepted[1].title = item.title
  <1>1. /\ item \in Proposed({"epic", "ticket"})
        /\ \/ item.kind = "epic" /\ cmd.epics # <<>> /\ item = cmd.epics[1]
           \/ item.kind = "ticket" /\ cmd.tickets # <<>> /\ item = cmd.tickets[1]
    BY ItemIs
  <1>2. PICK number \in Nat : number = Len(issues) + 1
    OBVIOUS
  <1> DEFINE epics == IF item.kind = "epic" THEN Tail(cmd.epics) ELSE cmd.epics
             tickets == IF item.kind = "epic" THEN cmd.tickets ELSE Tail(cmd.tickets)
             filed == [cmd.filed EXCEPT ![item.axis] = number]
             d == Decision(item, "accepted", number)
  <1>3. /\ cmd.epics \in Seq(Proposed({"epic"})) /\ cmd.tickets \in Seq(Proposed({"ticket"}))
        /\ cmd.filed \in [Axes -> Nat]
    BY CommandFields
  <1>4. epics \in Seq(Proposed({"epic"})) /\ tickets \in Seq(Proposed({"ticket"}))
    BY <1>1, <1>3, TailIs
  <1>5. item.axis \in Axes /\ item.kind \in {"epic", "ticket"}
    BY <1>1 DEF Proposed
  <1>6. /\ filed \in [Axes -> Nat]
        /\ \A a \in Axes : filed[a] = IF a = item.axis THEN number ELSE cmd.filed[a]
    BY <1>2, <1>3, <1>5
  <1>7. d \in Verdict /\ d.issue = number /\ d.title = item.title
    <2>1. d \in Verdict
      BY <1>1, <1>2, DecisionIs
    <2>2. QED  BY <2>1 DEF Decision
  <1>8. PICK given : given = <<d>> /\ given \in Seq(Verdict) /\ given # <<>> /\ given[1] = d
    <2>1. d \in Verdict
      BY <1>7
    <2> HIDE DEF d
    <2>2. <<d>> \in Seq(Verdict) /\ <<d>> # <<>> /\ <<d>>[1] = d
      BY <2>1
    <2>3. QED  BY <2>2
  <1> DEFINE Same(n) == /\ n \in Command /\ n.phase = cmd.phase /\ n.hash = cmd.hash
                        /\ n.blind = cmd.blind
  <1>9. PICK E : E = [cmd EXCEPT !.epics = epics]
    OBVIOUS
  <1>10. PICK T : T = [cmd EXCEPT !.tickets = tickets]
    OBVIOUS
  <1>11. PICK EF : EF = [E EXCEPT !.filed = filed]
    OBVIOUS
  <1> HIDE DEF epics, tickets, filed, d
  <1>12. Same(E) /\ E.epics = epics /\ E.tickets = cmd.tickets /\ E.filed = cmd.filed
    BY <1>4, <1>9, SetEpics
  <1>13. Same(T) /\ T.epics = cmd.epics /\ T.tickets = tickets /\ T.filed = cmd.filed
    BY <1>4, <1>10, SetTickets
  <1>14. Same(EF) /\ EF.epics = epics /\ EF.tickets = cmd.tickets /\ EF.filed = filed
    BY <1>6, <1>11, <1>12, SetFiled
  <1> DEFINE Given(m, n) == /\ n \in Command /\ n.phase = "accept" /\ n.hash = m.hash
                            /\ n.blind = m.blind /\ n.epics = m.epics /\ n.tickets = m.tickets
                            /\ n.filed = m.filed /\ n.accepted = given
  <1>15. PICK G : G = [EF EXCEPT !.accepted = given, !.phase = "accept"]
    OBVIOUS
  <1>16. PICK H : H = [T EXCEPT !.accepted = given, !.phase = "accept"]
    OBVIOUS
  <1>17. Given(EF, G) /\ Given(T, H)
    <2>1. given \in Seq(Verdict) /\ EF \in Command /\ T \in Command
      BY <1>8, <1>13, <1>14
    <2>2. Given(EF, G)
      BY <1>15, <2>1 DEF Command
    <2>3. Given(T, H)
      BY <1>16, <2>1 DEF Command
    <2>4. QED  BY <2>2, <2>3
  <1>18. CASE item.kind = "epic"
    <2>1. Failed_(item) = E /\ (Next_(item) = EF \/ Next_(item) = G)
      BY <1>2, <1>8, <1>9, <1>11, <1>15, <1>18 DEF Failed_, Next_, epics, filed, d
    <2>2. epics = Tail(cmd.epics) /\ cmd.epics # <<>> /\ item = cmd.epics[1]
      BY <1>1, <1>18 DEF epics
    <2>3. Left(item, E) /\ Left(item, EF) /\ Left(item, G)
      BY <1>12, <1>14, <1>17, <2>2 DEF Left
    <2>4. \A a \in Axes : EF.filed[a] = cmd.filed[a] \/ (a = item.axis /\ EF.filed[a] = number)
      BY <1>6, <1>14
    <2>5. E.phase = "file" /\ E.filed = cmd.filed
      BY <1>12
    <2>6. EF.phase = "file" /\ G.phase = "accept" /\ G.filed = EF.filed /\ G.accepted = given
      BY <1>14, <1>17
    <2>7. CASE Next_(item) = EF
      BY <1>2, <1>18, <2>1, <2>3, <2>4, <2>5, <2>6, <2>7
    <2>8. CASE Next_(item) = G
      BY <1>2, <1>7, <1>8, <1>18, <2>1, <2>3, <2>4, <2>5, <2>6, <2>8
    <2>9. QED  BY <2>1, <2>7, <2>8
  <1>19. CASE item.kind = "ticket"
    <2>1. Failed_(item) = T /\ (Next_(item) = T \/ Next_(item) = H)
      BY <1>2, <1>8, <1>10, <1>16, <1>19 DEF Failed_, Next_, tickets, d
    <2>2. tickets = Tail(cmd.tickets) /\ cmd.tickets # <<>> /\ item = cmd.tickets[1]
      BY <1>1, <1>19 DEF tickets
    <2>3. Left(item, T) /\ Left(item, H)
      BY <1>13, <1>17, <2>2 DEF Left
    <2>4. T.phase = "file" /\ T.filed = cmd.filed /\ H.phase = "accept" /\ H.filed = T.filed /\ H.accepted = given
      BY <1>13, <1>17
    <2>5. CASE Next_(item) = T
      BY <2>1, <2>3, <2>4, <2>5
    <2>6. CASE Next_(item) = H
      BY <1>2, <1>7, <1>8, <2>1, <2>3, <2>4, <2>6
    <2>7. QED  BY <2>1, <2>5, <2>6
  <1>20. QED  BY <1>5, <1>18, <1>19

LEMMA FileSound == ASSUME BacklogSound, File PROVE BacklogSound'
  <1>1. /\ cmd \in Command /\ CommandSound(issues, cmd) /\ FreshSound(issues, cmd)
        /\ issues \in Seq(Filing) /\ cmd.phase = "file" /\ cmd.epics \o cmd.tickets # <<>>
        /\ UNCHANGED <<ledger, notes>>
    BY DEF BacklogSound, BacklogForm, File
  <1>2. PICK item : item = Head(cmd.epics \o cmd.tickets)
    OBVIOUS
  <1>3. \/ /\ issues' = Append(issues, Issue_(item)) /\ cmd' = Next_(item) /\ UNCHANGED mishaps
        \/ /\ Mishap /\ issues' \in {issues, Append(issues, Issue_(item))} /\ cmd' = Failed_(item)
    BY <1>2 DEF File
  <1>4. /\ item \in Proposed({"epic", "ticket"})
        /\ \/ item.kind = "epic" /\ cmd.epics # <<>> /\ item = cmd.epics[1]
           \/ item.kind = "ticket" /\ cmd.tickets # <<>> /\ item = cmd.tickets[1]
    BY <1>1, <1>2, ItemIs
  <1>5. /\ item.title \in DOMAIN Norm /\ item.kind \in {"epic", "ticket"} /\ item.axis \in Axes
    BY <1>4 DEF Proposed
  <1>6. PICK x : x = Issue_(item)
    OBVIOUS
  <1>7. /\ x \in Filing /\ x.title = item.title /\ x.kind = item.kind /\ x.axis = item.axis
        /\ x.by = cmd.hash /\ x.blind = cmd.blind
        /\ x.parent = IF item.kind = "epic" THEN 0 ELSE cmd.filed[item.axis]
    <2>1. cmd.hash \in Hashes /\ cmd.blind \in BOOLEAN /\ cmd.filed \in [Axes -> Nat]
      BY <1>1, CommandFields
    <2>2. Parent(item) \in Nat
      BY <1>5, <2>1 DEF Parent
    <2>3. QED  BY <1>5, <1>6, <2>1, <2>2 DEF Issue_, Parent, Filing
  <1>8. x.parent # 0 => /\ x.parent \in DOMAIN issues
                        /\ issues[x.parent].kind = "epic" /\ issues[x.parent].axis = x.axis
                        /\ issues[x.parent].by = x.by
    BY <1>1, <1>5, <1>7 DEF CommandSound
  <1>9. x.blind \/ x.kind = "pull" \/ ~OpenTitle(issues, x.title)
    <2>1. SUFFICES ASSUME ~cmd.blind PROVE ~OpenTitle(issues, item.title)
      BY <1>7 DEF OpenTitle
    <2>2. /\ \A k \in DOMAIN cmd.epics : ~OpenTitle(issues, cmd.epics[k].title)
          /\ \A k \in DOMAIN cmd.tickets : ~OpenTitle(issues, cmd.tickets[k].title)
      BY <1>1, <2>1 DEF FreshSound
    <2>3. /\ cmd.epics # <<>> => 1 \in DOMAIN cmd.epics
          /\ cmd.tickets # <<>> => 1 \in DOMAIN cmd.tickets
      BY <1>1, CommandFields, TailIs
    <2>4. QED  BY <1>4, <2>2, <2>3
  <1>10. \/ UNCHANGED issues /\ NothingFiledTwice' /\ TicketHasItsEpic' /\ AcceptedWasFiled'
         \/ /\ issues' \in Seq(Filing) /\ DOMAIN issues' = DOMAIN issues \cup {Len(issues) + 1}
            /\ issues'[Len(issues) + 1] = x /\ \A n \in DOMAIN issues : issues'[n] = issues[n]
            /\ NothingFiledTwice' /\ TicketHasItsEpic' /\ AcceptedWasFiled'
    <2>1. CASE UNCHANGED issues
      BY <1>1, <2>1 DEF BacklogSound, NothingFiledTwice, TicketHasItsEpic, AcceptedWasFiled, Open
    <2>2. CASE issues' = Append(issues, x)
      BY <1>1, <1>7, <1>8, <1>9, <2>2, AppendIssue
    <2>3. QED  BY <1>3, <1>6, <2>1, <2>2
  <1>11. issues' \in Seq(Filing)
    BY <1>1, <1>10
  <1>12. \A title : OpenTitle(issues', title) => OpenTitle(issues, title) \/ Norm[title] = Norm[item.title]
    BY <1>7, <1>10 DEF OpenTitle
  <1>13. \A n \in DOMAIN issues : n \in DOMAIN issues' /\ issues'[n] = issues[n]
    BY <1>10
  <1>14. /\ Left(item, Failed_(item)) /\ Failed_(item).phase = "file"
         /\ Failed_(item).filed = cmd.filed
         /\ Left(item, Next_(item)) /\ Next_(item).phase \in {"file", "accept"}
         /\ \A a \in Axes : \/ Next_(item).filed[a] = cmd.filed[a]
                            \/ /\ item.kind = "epic" /\ a = item.axis
                               /\ Next_(item).filed[a] = Len(issues) + 1
         /\ Next_(item).phase = "accept" => /\ Next_(item).accepted # <<>>
                                            /\ Next_(item).accepted[1].issue = Len(issues) + 1
                                            /\ Next_(item).accepted[1].title = item.title
    BY <1>1, <1>2, NextIs
  <1>15. Left(item, cmd')
    BY <1>3, <1>14
  <1>16. FreshSound(issues', cmd')
    BY <1>1, <1>12, <1>15, LeftFresh DEF Left
  <1>17. CommandSound(issues', cmd')
    <2>1. cmd'.hash = cmd.hash
      BY <1>15 DEF Left
    <2>2. CASE cmd' = Failed_(item)
      BY <1>1, <1>13, <1>14, <2>1, <2>2 DEF CommandSound
    <2>3. CASE issues' = Append(issues, Issue_(item)) /\ cmd' = Next_(item)
      <3>1. PICK number : number = Len(issues) + 1
        OBVIOUS
      <3>2. number \in DOMAIN issues' /\ issues'[number] = x
        <4>1. issues' = Append(issues, x)
          BY <1>6, <2>3
        <4>2. QED  BY <1>1, <1>7, <1>8, <1>9, <3>1, <4>1, AppendIssue
      <3>3. \A a \in Axes :
              cmd'.filed[a] # 0 => /\ cmd'.filed[a] \in DOMAIN issues'
                                   /\ issues'[cmd'.filed[a]].kind = "epic"
                                   /\ issues'[cmd'.filed[a]].axis = a
                                   /\ issues'[cmd'.filed[a]].by = cmd'.hash
        BY <1>1, <1>7, <1>13, <1>14, <2>1, <2>3, <3>1, <3>2 DEF CommandSound
      <3>4. cmd'.phase # "idle"
        BY <1>14, <2>3
      <3>5. cmd'.phase = "accept" =>
              /\ cmd'.accepted # <<>> /\ cmd'.accepted[1].issue \in DOMAIN issues'
              /\ issues'[cmd'.accepted[1].issue].title = cmd'.accepted[1].title
        BY <1>7, <1>14, <2>3, <3>1, <3>2
      <3>6. QED  BY <3>3, <3>4, <3>5 DEF CommandSound
    <2>4. QED  BY <1>3, <2>2, <2>3
  <1>18. mishaps' \in 0..MaxBacklogOdd
    BY <1>3, MishapTyped
  <1>19. BacklogForm'
    <2>1. cmd' \in Command
      BY <1>15 DEF Left
    <2>2. QED  BY <1>1, <1>11, <1>18, <2>1 DEF BacklogSound, BacklogForm
  <1>20. KeysOnce(ledger.list, notes)'
    BY <1>1 DEF BacklogSound
  <1>21. QED  BY <1>10, <1>16, <1>17, <1>19, <1>20 DEF BacklogSound

(* A person opens an issue under a title of their own. *)
LEMMA OpensSound ==
    ASSUME BacklogSound, NEW title \in DOMAIN Norm, NEW axis \in Axes,
           NEW kind \in {"ticket", "pull"}, PersonOpens(title, axis, kind)
    PROVE  BacklogSound'
  <1>1. /\ cmd \in Command /\ CommandSound(issues, cmd) /\ FreshSound(issues, cmd)
        /\ UNCHANGED <<ledger, notes, mishaps>>
    BY DEF BacklogSound, BacklogForm, PersonOpens
  <1>2. PICK x : x = [title |-> title, kind |-> kind, axis |-> axis, open |-> TRUE,
                      parent |-> 0, by |-> "person", blind |-> TRUE]
    OBVIOUS
  <1>3. x \in Filing /\ x.blind /\ x.parent = 0
    BY <1>2 DEF Filing
  <1>4. issues' = Append(issues, x)
    BY <1>2 DEF PersonOpens
  <1>5. /\ issues' \in Seq(Filing) /\ DOMAIN issues' = DOMAIN issues \cup {Len(issues) + 1}
        /\ \A n \in DOMAIN issues : issues'[n] = issues[n]
        /\ NothingFiledTwice' /\ TicketHasItsEpic' /\ AcceptedWasFiled'
    BY <1>1, <1>3, <1>4, AppendIssue
  <1>6. CommandSound(issues', cmd)
    BY <1>1, <1>5, CommandKept
  <1>7. cmd' \in Command /\ CommandSound(issues', cmd') /\ FreshSound(issues', cmd')
    <2>1. CASE cmd.phase = "idle"
      <3>1. cmd' = cmd /\ cmd = NoCommand
        BY <1>1, <2>1 DEF PersonOpens, CommandSound
      <3>2. QED  BY <3>1, NoCommandIs
    <2>2. CASE cmd.phase # "idle"
      <3>1. cmd' = [cmd EXCEPT !.blind = TRUE]
        BY <2>2 DEF PersonOpens
      <3>2. /\ cmd' \in Command /\ cmd'.blind /\ cmd'.phase = cmd.phase /\ cmd'.hash = cmd.hash
            /\ cmd'.filed = cmd.filed /\ cmd'.accepted = cmd.accepted
        BY <1>1, <3>1 DEF Command
      <3>3. QED  BY <1>6, <2>2, <3>2 DEF CommandSound, FreshSound
    <2>3. QED  BY <2>1, <2>2
  <1>8. BacklogForm'
    BY <1>1, <1>5, <1>7 DEF BacklogSound, BacklogForm
  <1>9. KeysOnce(ledger.list, notes)'
    BY <1>1 DEF BacklogSound
  <1>10. QED  BY <1>5, <1>7, <1>8, <1>9 DEF BacklogSound

LEMMA ClosesSound == ASSUME BacklogSound, NEW n \in DOMAIN issues, Closes(n) PROVE BacklogSound'
  <1>1. /\ issues \in Seq(Filing) /\ UNCHANGED <<ledger, notes, cmd, mishaps>>
        /\ issues' = [issues EXCEPT ![n].open = FALSE]
    BY DEF BacklogSound, BacklogForm, Closes
  <1>2. PICK len \in Nat : len = Len(issues) /\ DOMAIN issues = 1..len /\ issues \in [1..len -> Filing]
    BY <1>1
  <1>3. PICK x : x = [issues[n] EXCEPT !.open = FALSE]
    OBVIOUS
  <1>4. issues[n] \in Filing
    BY <1>2
  <1>5. /\ x \in Filing /\ ~x.open /\ x.title = issues[n].title /\ x.kind = issues[n].kind
        /\ x.axis = issues[n].axis /\ x.parent = issues[n].parent /\ x.by = issues[n].by
        /\ x.blind = issues[n].blind
    BY <1>3, <1>4 DEF Filing
  <1>6. issues' = [issues EXCEPT ![n] = x]
    BY <1>1, <1>3
  <1>7. /\ issues' \in [1..len -> Filing]
        /\ \A m \in DOMAIN issues : issues'[m] = IF m = n THEN x ELSE issues[m]
    BY <1>2, <1>5, <1>6
  <1>8. issues' \in Seq(Filing) /\ DOMAIN issues' = DOMAIN issues
    BY <1>2, <1>7, SeqDef
  <1>9. \A m \in DOMAIN issues :
           /\ m \in DOMAIN issues' /\ issues'[m].title = issues[m].title
           /\ issues'[m].kind = issues[m].kind /\ issues'[m].axis = issues[m].axis
           /\ issues'[m].parent = issues[m].parent /\ issues'[m].by = issues[m].by
           /\ issues'[m].blind = issues[m].blind /\ (issues'[m].open => issues[m].open)
    BY <1>5, <1>7, <1>8
  <1>10. NothingFiledTwice'
    <2>1. \A m \in Open({"epic", "ticket"})' : m \in Open({"epic", "ticket"})
      BY <1>8, <1>9 DEF Open
    <2>2. QED  BY <1>8, <1>9, <2>1 DEF BacklogSound, NothingFiledTwice
  <1>11. TicketHasItsEpic'
    <2>1. ASSUME NEW m \in DOMAIN issues, issues[m].parent # 0
          PROVE  issues[m].parent \in DOMAIN issues
      <3>1. issues[m].parent \in Nat /\ issues[m].parent < m
        <4>1. issues[m] \in Filing
          BY <1>2
        <4>2. issues[m].parent \in Nat
          BY <4>1 DEF Filing
        <4>3. QED  BY <2>1, <4>2 DEF BacklogSound, TicketHasItsEpic
      <3>2. QED  BY <1>2, <2>1, <3>1
    <2>2. QED  BY <1>8, <1>9, <2>1 DEF BacklogSound, TicketHasItsEpic
  <1>12. AcceptedWasFiled'
    BY <1>1, <1>8, <1>9 DEF BacklogSound, AcceptedWasFiled
  <1>13. CommandSound(issues', cmd')
    <2>1. CommandSound(issues, cmd)
      BY DEF BacklogSound
    <2>2. CommandSound(issues', cmd)
      BY <1>9, <2>1, CommandKept
    <2>3. QED  BY <1>1, <2>2
  <1>14. FreshSound(issues', cmd')
    <2>1. \A title : OpenTitle(issues', title) => OpenTitle(issues, title)
      BY <1>8, <1>9 DEF OpenTitle
    <2>2. QED  BY <1>1, <2>1 DEF BacklogSound, FreshSound
  <1>15. BacklogForm' /\ KeysOnce(ledger.list, notes)'
    BY <1>1, <1>8 DEF BacklogSound, BacklogForm
  <1>16. QED  BY <1>10, <1>11, <1>12, <1>13, <1>14, <1>15 DEF BacklogSound

(* Every step keeps it. *)
LEMMA BacklogKept == ASSUME BacklogSound, [BacklogNext]_backlogVars PROVE BacklogSound'
  <1>1. CASE \E report \in Reports : ApplyReport(report)
    BY <1>1, ApplySound
  <1>2. CASE RecordDupe
    BY <1>2, DupeSound
  <1>3. CASE DupesDone
    <2>1. /\ cmd.phase = "dupes" /\ cmd' = [cmd EXCEPT !.phase = "file"]
          /\ UNCHANGED <<issues, ledger, notes, mishaps>>
      BY <1>3 DEF DupesDone
    <2>2. QED  BY <2>1, PhaseSound
  <1>4. CASE Brainstorm
    BY <1>4, BrainstormSound
  <1>5. CASE Answered
    BY <1>5, AnsweredSound
  <1>6. CASE File
    BY <1>6, FileSound
  <1>7. CASE Accept
    BY <1>7, AcceptSound
  <1>8. CASE Exits
    <2>1. CommandEnds /\ UNCHANGED <<issues, ledger, notes, mishaps>>
      BY <1>8 DEF Exits
    <2>2. QED  BY <2>1, EndsSound
  <1>9. CASE Dies_B
    BY <1>9, DeathSound
  <1>10. CASE \E title \in DOMAIN Norm, axis \in Axes, kind \in {"ticket", "pull"} :
                 PersonOpens(title, axis, kind)
    BY <1>10, OpensSound
  <1>11. CASE \E n \in DOMAIN issues : Closes(n)
    BY <1>11, ClosesSound
  <1>12. CASE UNCHANGED backlogVars
    <2>1. UNCHANGED <<issues, ledger, notes, cmd, mishaps>>
      BY <1>12 DEF backlogVars
    <2>2. cmd' \in Command /\ CommandSound(issues, cmd') /\ FreshSound(issues, cmd')
      BY <2>1 DEF BacklogSound, BacklogForm
    <2>3. QED  BY <2>1, <2>2, MishapTyped, SameIssues
  <1>13. QED
    BY <1>1, <1>2, <1>3, <1>4, <1>5, <1>6, <1>7, <1>8, <1>9, <1>10, <1>11, <1>12 DEF BacklogNext

(* As many are selected as there are positions. *)
LEMMA AtLen ==
    ASSUME NEW S, NEW s \in Seq(S), NEW positions
    PROVE  /\ IsFiniteSet({k \in positions : k \in 1..Len(s)})
           /\ Len(ElementsAt(s, positions)) = Cardinality({k \in positions : k \in 1..Len(s)})
           /\ Len(ElementsAt(s, positions)) \in Nat
  <1> DEFINE P == {k \in positions : k \in 1..Len(s)}
  <1>1. PICK t : t = ElementsAt(s, positions) /\ t \in Seq(S)
    BY AtIs
  <1>2. PICK e : Along(t, e, s, positions, Len(s))
    BY <1>1, AtIs
  <1>3. PICK n \in Nat : n = Len(t)
    BY <1>1
  <1>4. /\ e \in [1..n -> P] /\ \A j, k \in 1..n : j < k => e[j] < e[k]
        /\ \A p \in P : \E k \in 1..n : e[k] = p
    BY <1>2, <1>3 DEF Along
  <1>5. P \subseteq Nat
    OBVIOUS
  <1> HIDE DEF P
  <1>6. \A j, k \in 1..n : e[j] = e[k] => j = k
    <2>1. ASSUME NEW j \in 1..n, NEW k \in 1..n, e[j] = e[k] PROVE j = k
      <3>0. e[j] \in P /\ e[k] \in P
        BY <1>4
      <3>1. e[j] \in Nat /\ e[k] \in Nat /\ j \in Nat /\ k \in Nat
        <4>1. j \in Nat /\ k \in Nat
          BY <1>3
        <4>2. e[j] \in Nat /\ e[k] \in Nat
          BY <1>5, <3>0
        <4>3. QED  BY <4>1, <4>2
      <3>2. ~(j < k) /\ ~(k < j)
        BY <1>4, <2>1, <3>1
      <3>3. QED  BY <3>1, <3>2
    <2>2. QED  BY <2>1
  <1>7. ExistsBijection(1..n, P)
    BY <1>4, <1>6, Fun_IsBij DEF ExistsBijection
  <1>8. IsFiniteSet(P) /\ Cardinality(P) = n
    <2>1. IsFiniteSet(1..n) /\ Cardinality(1..n) = n
      <3>1. 1 \in Int /\ n \in Int
        BY <1>3
      <3>2. IsFiniteSet(1..n) /\ Cardinality(1..n) = IF 1 > n THEN 0 ELSE n - 1 + 1
        BY <3>1, FS_Interval
      <3>3. QED  BY <1>3, <3>2
    <2>2. QED  BY <1>7, <2>1, FS_Bijection
  <1>9. QED  BY <1>1, <1>3, <1>8 DEF P

(* A list by parts is as long as the list, and has its elements. *)
LEMMA PartsAre ==
    ASSUME NEW S, NEW s \in Seq(S), NEW P, NEW Q, NEW R, P \cup Q \cup R = DOMAIN s,
           P \cap Q = {}, P \cap R = {}, Q \cap R = {}
    PROVE  LET all == ElementsAt(s, P) \o ElementsAt(s, Q) \o ElementsAt(s, R)
           IN  ToSet(all) = ToSet(s) /\ Len(all) = Len(s)
  <1>1. PICK p, q, r : /\ p = ElementsAt(s, P) /\ q = ElementsAt(s, Q) /\ r = ElementsAt(s, R)
                       /\ p \in Seq(S) /\ q \in Seq(S) /\ r \in Seq(S)
    BY AtIs
  <1>2. PICK k, l, m \in Nat : k = Len(p) /\ l = Len(q) /\ m = Len(r)
    BY <1>1
  <1>3. PICK pq : /\ pq = p \o q /\ pq \in Seq(S) /\ Len(pq) = k + l
                  /\ \A i \in 1..(k + l) : pq[i] = IF i <= k THEN p[i] ELSE q[i - k]
    <2>1. /\ p \o q \in Seq(S) /\ Len(p \o q) = Len(p) + Len(q)
          /\ \A i \in 1..(Len(p) + Len(q)) : (p \o q)[i] = IF i <= Len(p) THEN p[i] ELSE q[i - Len(p)]
      BY <1>1, ConcatProperties
    <2>2. PICK pq : pq = p \o q
      OBVIOUS
    <2>3. QED  BY <1>2, <2>1, <2>2
  <1>4. PICK all : /\ all = pq \o r /\ all \in Seq(S) /\ Len(all) = k + l + m
                   /\ \A i \in 1..(k + l + m) : all[i] = IF i <= k + l THEN pq[i] ELSE r[i - (k + l)]
    <2>1. /\ pq \o r \in Seq(S) /\ Len(pq \o r) = Len(pq) + Len(r)
          /\ \A i \in 1..(Len(pq) + Len(r)) : (pq \o r)[i] = IF i <= Len(pq) THEN pq[i] ELSE r[i - Len(pq)]
      <3>1. pq \in Seq(S) /\ r \in Seq(S)
        BY <1>1, <1>3
      <3>2. QED  BY <3>1, ConcatProperties
    <2>2. PICK all : all = pq \o r
      OBVIOUS
    <2>3. Len(pq) = k + l /\ Len(r) = m
      BY <1>2, <1>3
    <2>4. QED  BY <2>1, <2>2, <2>3
  <1>5. Len(all) = Len(s)
    <2>1. DOMAIN s = 1..Len(s) /\ Len(s) \in Nat
      OBVIOUS
    <2>2. /\ {i \in P : i \in 1..Len(s)} = P /\ {i \in Q : i \in 1..Len(s)} = Q
          /\ {i \in R : i \in 1..Len(s)} = R
      BY <2>1
    <2>3. /\ IsFiniteSet(P) /\ Cardinality(P) = k /\ IsFiniteSet(Q) /\ Cardinality(Q) = l
          /\ IsFiniteSet(R) /\ Cardinality(R) = m
      <3>1. ASSUME NEW X, {i \in X : i \in 1..Len(s)} = X
            PROVE  IsFiniteSet(X) /\ Cardinality(X) = Len(ElementsAt(s, X))
        <4>1. /\ IsFiniteSet({i \in X : i \in 1..Len(s)})
              /\ Len(ElementsAt(s, X)) = Cardinality({i \in X : i \in 1..Len(s)})
          BY AtLen
        <4>2. QED  BY <3>1, <4>1
      <3>2. /\ IsFiniteSet(P) /\ Cardinality(P) = Len(ElementsAt(s, P))
            /\ IsFiniteSet(Q) /\ Cardinality(Q) = Len(ElementsAt(s, Q))
            /\ IsFiniteSet(R) /\ Cardinality(R) = Len(ElementsAt(s, R))
        BY <2>2, <3>1
      <3>3. QED  BY <1>1, <1>2, <3>2
    <2>4. IsFiniteSet(P \cup Q) /\ Cardinality(P \cup Q) = k + l
      <3>1. Cardinality(P \cap Q) = 0
        BY FS_EmptySet
      <3>2. /\ IsFiniteSet(P \cup Q)
            /\ Cardinality(P \cup Q) = Cardinality(P) + Cardinality(Q) - Cardinality(P \cap Q)
        BY <2>3, FS_Union
      <3>3. QED  BY <1>2, <2>3, <3>1, <3>2
    <2>5. Cardinality(P \cup Q \cup R) = k + l + m
      <3>1. (P \cup Q) \cap R = {}
        OBVIOUS
      <3>2. Cardinality((P \cup Q) \cap R) = 0
        BY <3>1, FS_EmptySet
      <3>3. Cardinality((P \cup Q) \cup R)
              = Cardinality(P \cup Q) + Cardinality(R) - Cardinality((P \cup Q) \cap R)
        BY <2>3, <2>4, FS_Union
      <3>4. QED  BY <1>2, <2>3, <2>4, <3>2, <3>3
    <2>6. Cardinality(1..Len(s)) = Len(s)
      <3>1. PICK n \in Nat : n = Len(s)
        BY <2>1
      <3>2. 1 \in Int /\ n \in Int
        BY <3>1
      <3>3. Cardinality(1..n) = IF 1 > n THEN 0 ELSE n - 1 + 1
        BY <3>2, FS_Interval
      <3>4. QED  BY <3>1, <3>3
    <2>7. QED  BY <1>4, <2>1, <2>5, <2>6
  <1>6. ToSet(all) \subseteq ToSet(s)
    <2>1. ASSUME NEW i \in 1..(k + l + m) PROVE \E j \in DOMAIN s : all[i] = s[j]
      <3>1. /\ \A j \in DOMAIN p : \E n \in DOMAIN s : p[j] = s[n]
            /\ \A j \in DOMAIN q : \E n \in DOMAIN s : q[j] = s[n]
            /\ \A j \in DOMAIN r : \E n \in DOMAIN s : r[j] = s[n]
        BY <1>1, AtElements
      <3>2. DOMAIN p = 1..k /\ DOMAIN q = 1..l /\ DOMAIN r = 1..m
        BY <1>1, <1>2
      <3>3. CASE i <= k
        <4>1. i \in 1..k /\ i \in 1..(k + l) /\ i <= k + l
          BY <1>2, <3>3
        <4>2. all[i] = p[i]
          BY <1>3, <1>4, <3>3, <4>1
        <4>3. QED  BY <3>1, <3>2, <4>1, <4>2
      <3>4. CASE i > k /\ i <= k + l
        <4>1. i - k \in 1..l /\ i \in 1..(k + l) /\ ~(i <= k)
          BY <1>2, <3>4
        <4>2. all[i] = q[i - k]
          BY <1>2, <1>3, <1>4, <3>4, <4>1
        <4>3. QED  BY <3>1, <3>2, <4>1, <4>2
      <3>5. CASE i > k + l
        <4>1. i - (k + l) \in 1..m /\ ~(i <= k + l)
          BY <1>2, <3>5
        <4>2. all[i] = r[i - (k + l)]
          BY <1>4, <4>1
        <4>3. QED  BY <3>1, <3>2, <4>1, <4>2
      <3>6. QED  BY <1>2, <3>3, <3>4, <3>5
    <2>2. DOMAIN all = 1..(k + l + m)
      BY <1>4
    <2>3. QED  BY <2>1, <2>2 DEF ToSet
  <1>7. ToSet(s) \subseteq ToSet(all)
    <2>1. ASSUME NEW j \in DOMAIN s PROVE \E i \in 1..(k + l + m) : all[i] = s[j]
      <3>1. DOMAIN p = 1..k /\ DOMAIN q = 1..l /\ DOMAIN r = 1..m
        BY <1>1, <1>2
      <3>2. CASE j \in P
        <4>1. PICK i \in 1..k : p[i] = s[j]
          BY <1>1, <3>1, <3>2, AtElements
        <4>2. i \in 1..(k + l + m) /\ i \in 1..(k + l) /\ i <= k /\ i <= k + l
          BY <1>2
        <4>3. QED  BY <1>3, <1>4, <4>1, <4>2
      <3>3. CASE j \in Q
        <4>1. PICK i \in 1..l : q[i] = s[j]
          BY <1>1, <3>1, <3>3, AtElements
        <4>2. PICK n \in Nat : n = k + i
          BY <1>2
        <4>3. n \in 1..(k + l + m) /\ n \in 1..(k + l) /\ ~(n <= k) /\ n <= k + l /\ n - k = i
          BY <1>2, <4>2
        <4>4. all[n] = q[i]
          BY <1>3, <1>4, <4>3
        <4>5. QED  BY <4>1, <4>3, <4>4
      <3>4. CASE j \in R
        <4>1. PICK i \in 1..m : r[i] = s[j]
          <5>1. \E i \in DOMAIN r : r[i] = s[j]
            BY <1>1, <3>4, AtElements
          <5>2. QED  BY <3>1, <5>1
        <4>2. PICK n \in Nat : n = k + l + i
          BY <1>2
        <4>3. n \in 1..(k + l + m) /\ ~(n <= k + l) /\ n - (k + l) = i
          BY <1>2, <4>2
        <4>4. all[n] = r[i]
          BY <1>4, <4>3
        <4>5. QED  BY <4>1, <4>3, <4>4
      <3>5. QED  BY <3>2, <3>3, <3>4
    <2>2. DOMAIN all = 1..(k + l + m)
      BY <1>4
    <2>3. QED  BY <2>1, <2>2 DEF ToSet
  <1>8. QED  BY <1>1, <1>3, <1>4, <1>5, <1>6, <1>7

(* Every issue is in one of the three buckets, in whatever order it is asked.  *)
LEMMA PlanIs ==
    ASSUME NEW S, NEW queue \in Seq(S), NEW readable \in BOOLEAN
    PROVE  LET plan == _apply_maestro_plan(queue, readable)
           IN  ToSet(plan) = ToSet(queue) /\ Len(plan) = Len(queue)
  <1>1. CASE ~readable \/ Frontier \cup RejectedTitles = {}
    BY <1>1 DEF _apply_maestro_plan
  <1>2. CASE ~(~readable \/ Frontier \cup RejectedTitles = {})
    <2> DEFINE P(b) == {k \in DOMAIN queue : _bucket(queue[k], RejectedTitles) = b}
    <2>1. _apply_maestro_plan(queue, readable) = ElementsAt(queue, P(0)) \o ElementsAt(queue, P(1)) \o ElementsAt(queue, P(2))
      BY <1>2 DEF _apply_maestro_plan, build_maestro_plan, Where
    <2>2. \A n : _bucket(n, RejectedTitles) \in {0, 1, 2}
      BY DEF _bucket
    <2>3. /\ P(0) \cup P(1) \cup P(2) = DOMAIN queue
          /\ P(0) \cap P(1) = {} /\ P(0) \cap P(2) = {} /\ P(1) \cap P(2) = {}
      <3>1. \A k \in DOMAIN queue : \/ _bucket(queue[k], RejectedTitles) = 0
                                     \/ _bucket(queue[k], RejectedTitles) = 1
                                     \/ _bucket(queue[k], RejectedTitles) = 2
        BY <2>2
      <3>2. P(0) \cup P(1) \cup P(2) = DOMAIN queue
        BY <3>1
      <3>3. P(0) \cap P(1) = {} /\ P(0) \cap P(2) = {} /\ P(1) \cap P(2) = {}
        OBVIOUS
      <3>4. QED  BY <3>2, <3>3
    <2>4. PICK x, y, z : x = P(0) /\ y = P(1) /\ z = P(2)
      OBVIOUS
    <2> HIDE DEF P
    <2>5. LET all == ElementsAt(queue, x) \o ElementsAt(queue, y) \o ElementsAt(queue, z)
          IN  ToSet(all) = ToSet(queue) /\ Len(all) = Len(queue)
      BY <2>3, <2>4, PartsAre
    <2>6. QED  BY <2>1, <2>4, <2>5
  <1>3. QED  BY <1>1, <1>2

(* Only a death in the middle of a write takes a verdict away. *)
LEMMA VerdictStep ==
    ASSUME BacklogSound, [BacklogNext]_backlogVars, mishaps' = mishaps
    PROVE  IsPrefix(ledger.list, ledger'.list)
  <1>1. ledger.list \in Seq(Verdict) /\ mishaps \in Nat
    BY DEF BacklogSound, BacklogForm
  <1>2. IsPrefix(ledger.list, ledger.list)
    BY <1>1 DEF IsPrefix
  <1>3. CASE UNCHANGED ledger
    BY <1>2, <1>3
  <1>4. CASE RecordDupe /\ ledger.ok
    <2>1. Decided(Decision(Head(cmd.dupes), "rejected", 0)) /\ cmd.dupes # <<>>
      BY <1>4 DEF RecordDupe
    <2>2. cmd \in Command
      BY DEF BacklogSound, BacklogForm
    <2>3. Head(cmd.dupes) \in Proposed({"epic", "ticket"})
      BY <2>1, <2>2, CommandFields, TailIs
    <2>4. PICK d : d = Decision(Head(cmd.dupes), "rejected", 0)
      OBVIOUS
    <2>5. d \in Verdict /\ d.outcome = "rejected"
      <3>1. d \in Verdict
        BY <2>2, <2>3, <2>4, DecisionIs
      <3>2. QED  BY <2>4, <3>1 DEF Decision
    <2>6. Decided(d)
      BY <2>1, <2>4
    <2>7. QED  BY <2>5, <2>6, DecidedSound
  <1>5. CASE Accept /\ ledger.ok
    <2>1. Decided(cmd.accepted[1]) /\ cmd.phase = "accept"
      BY <1>5 DEF Accept
    <2>2. cmd \in Command /\ CommandSound(issues, cmd)
      BY DEF BacklogSound, BacklogForm
    <2>3. PICK d : d = cmd.accepted[1]
      OBVIOUS
    <2>4. d \in Verdict /\ d.issue \in DOMAIN issues /\ issues[d.issue].title = d.title
      <3>1. cmd.accepted \in Seq(Verdict) /\ cmd.accepted # <<>>
        BY <2>1, <2>2, CommandFields DEF CommandSound
      <3>2. QED  BY <2>1, <2>2, <2>3, <3>1, TailIs DEF CommandSound
    <2>5. Decided(d)
      BY <2>1, <2>3
    <2>6. QED  BY <2>4, <2>5, DecidedSound
  <1>6. ~Dies_B
    BY <1>1 DEF Dies_B, Mishap
  <1>7. UNCHANGED ledger \/ (RecordDupe /\ ledger.ok) \/ (Accept /\ ledger.ok)
    BY <1>6 DEF BacklogNext, backlogVars, ApplyReport, RecordDupe, DupesDone, Brainstorm, Answered,
                File, Accept, Exits, PersonOpens, Closes
  <1>8. QED  BY <1>3, <1>4, <1>5, <1>7

(* What the product commands keep of backlog, ledger and memory together, for  *)
(* every vision, every report and any number of commands and people.           *)
THEOREM BacklogIsSafe == BacklogSpec => BacklogSafe
  <1>1. BacklogSound => BacklogTypeOK /\ NothingFiledTwice /\ TicketHasItsEpic
                        /\ AcceptedWasFiled /\ PlanKeepsIssues
    <2> SUFFICES ASSUME BacklogSound
                 PROVE  /\ BacklogTypeOK /\ NothingFiledTwice /\ TicketHasItsEpic
                        /\ AcceptedWasFiled /\ PlanKeepsIssues
      OBVIOUS
    <2>1. BacklogTypeOK
      BY CommandFields DEF BacklogSound, BacklogForm, KeysOnce, CommandSound, BacklogTypeOK
    <2>2. PlanKeepsIssues
      <3> DEFINE all == [n \in DOMAIN issues |-> n]
                 P == {k \in DOMAIN all : all[k] \in Open({"ticket"})}
                 queue == ElementsAt(all, P)
      <3>1. all \in Seq(Nat)
        <4>1. PICK len \in Nat : DOMAIN issues = 1..len
          BY DEF BacklogSound, BacklogForm
        <4>2. all \in [1..len -> Nat]
          BY <4>1
        <4>3. QED  BY <4>1, <4>2, SeqDef
      <3>2. queue \in Seq(Nat)
        <4> HIDE DEF all, P
        <4>1. QED  BY <3>1, AtIs
      <3>3. queue = Where(all, LAMBDA n : n \in Open({"ticket"}))
        BY DEF Where
      <3> HIDE DEF queue
      <3>4. \A readable \in BOOLEAN :
               /\ ToSet(_apply_maestro_plan(queue, readable)) = ToSet(queue)
               /\ Len(_apply_maestro_plan(queue, readable)) = Len(queue)
        BY <3>2, PlanIs
      <3>5. QED  BY <3>3, <3>4 DEF PlanKeepsIssues
    <2>3. QED  BY <2>1, <2>2 DEF BacklogSound
  <1>2. BacklogSpec => []BacklogSound
    BY InitBacklog, BacklogKept, PTL DEF BacklogSpec
  <1>3. BacklogSpec => VerdictsStand
    <2>1. BacklogSound /\ [BacklogNext]_backlogVars
            => [mishaps' = mishaps => IsPrefix(ledger.list, ledger'.list)]_backlogVars
      BY VerdictStep
    <2>2. QED  BY <1>2, <2>1, PTL DEF BacklogSpec, VerdictsStand
  <1>4. QED  BY <1>1, <1>2, <1>3, PTL DEF BacklogSafe

-----------------------------------------------------------------------------
(* The memory.  No item has two rows, none supersedes another in a circle, and  *)
(* the skills of one signature are one, whatever is cut.                       *)

(* What is in the store. *)
CardSources == {<<"repair">>} \cup {<<"harvest", p>> : p \in Prs}
Sources == CardSources \cup {<<"node">> \o s : s \in Seq(STRING)}
ItemIds == ({"episodic-shipped", "episodic-failed"} \X Tickets) \cup ({"procedural"} \X Sources)
Signatures == ({""} \cup {c.signal : c \in Cards}) \X (Seq(STRING) \cup {c.target : c \in Cards})
TagSets == SUBSET {"area", "area-node", "expired"}
RefSets == SUBSET ({"pr"} \cup Commits)
Entry == [id : ItemIds, kind : {"procedural", "episodic"}, key : Signatures \cup {NoItem},
          area : Seq(STRING), tags : TagSets,
          refs : RefSets, by : ItemIds \cup {NoItem}]
Outcome == [issue : Tickets, pr : Prs]
Recording == [id : ItemIds \cup {NoItem}, key : Signatures \cup {NoItem}, prior : Seq(ItemIds),
              back : {"idle", "harvest", "node"}]

KnowledgeForm ==
    /\ memory \in Seq(Entry) /\ merged \in Seq(Outcome) /\ place \in Nat
    /\ nodes \in Seq(Seq(STRING)) /\ skill \in Recording
    /\ duty \in {"idle", "episode", "forget", "harvest", "node", "prior"}

Unique(m) == \A j, k \in DOMAIN m : m[j].id = m[k].id => j = k
Linear(m) ==
    \A rows \in SUBSET DOMAIN m : rows # {} => \E k \in rows : \A l \in rows : m[l].id # m[k].by
ActiveAt(m, id) == \E k \in DOMAIN m : m[k].id = id /\ m[k].by = NoItem

(* A skill has a signature; the node of a parent has that of the parent, and   *)
(* is no leaf.                                                                 *)
Signed(item) ==
    /\ item.kind = "procedural" => item.key \in Signatures
    /\ \A p \in Seq(STRING) : item.id = <<"procedural", <<"node">> \o p>> =>
          item.kind = "procedural" /\ item.key = <<"", p>> /\ "area-node" \in item.tags

StoreSound(m) ==
    /\ m \in Seq(Entry) /\ Unique(m) /\ Linear(m)
    /\ \A k \in DOMAIN m : m[k].by # NoItem => \E l \in DOMAIN m : m[l].id = m[k].by
    /\ \A k \in DOMAIN m : Signed(m[k])

(* Of a signature one skill is active, but for one: the key being recorded.    *)
Settled(m, t, key) ==
    \A k, l \in DOMAIN m :
        /\ k # l /\ m[k].kind = "procedural" /\ m[l].kind = "procedural"
        /\ m[k].by = NoItem /\ m[l].by = NoItem /\ m[k].key = m[l].key
        => <<"skill", m[k].key>> \in t \/ m[k].key = key

(* The skill being recorded is active, and what is left to supersede is every  *)
(* other skill of its signature.                                               *)
RecordingSound(m, s) ==
    /\ s.key \in Signatures
    /\ \E k \in DOMAIN m : m[k].id = s.id /\ m[k].by = NoItem
    /\ \A k \in DOMAIN m :
          m[k].by = NoItem /\ m[k].kind = "procedural" /\ m[k].key = s.key /\ m[k].id # s.id
            => \E j \in DOMAIN s.prior : s.prior[j] = m[k].id
    /\ \A j \in DOMAIN s.prior :
          /\ s.prior[j] # s.id
          /\ \E k \in DOMAIN m : m[k].id = s.prior[j] /\ m[k].kind = "procedural" /\ m[k].key = s.key
    /\ s.back = "node" => \E p \in Seq(STRING) : s.id = Node(p).id /\ s.key = <<"", p>>

DutySound ==
    /\ duty # "prior" => skill = NoSkill
    /\ duty = "prior" => RecordingSound(memory, skill)
    /\ duty \in {"episode", "forget"} => place \in DOMAIN merged
    /\ duty = "harvest" \/ skill.back = "harvest" => place # 0
    /\ duty = "forget" => ActiveAt(memory, Shipped(merged[place].issue))
    /\ duty = "idle" => merged = <<>> /\ nodes = <<>>

(* While nodes are promoted, every parent with enough leaves has its node, or  *)
(* is still to have it.                                                        *)
Promoting ==
    duty = "node" \/ skill.back = "node" =>
        \A p \in Parents : Cardinality(Leaves(p)) >= min_leaves =>
            (\E j \in DOMAIN nodes : nodes[j] = p) \/ ActiveAt(memory, Node(p).id)

(* A ticket that shipped is no failure. *)
ShippedSound ==
    \A n \in Tickets :
        ActiveAt(memory, Shipped(n)) /\ ActiveAt(memory, FailedId(n))
            => <<"ticket", n>> \in torn \/ (duty = "forget" /\ merged[place].issue = n)

KnowledgeSound ==
    /\ KnowledgeForm /\ StoreSound(memory) /\ DutySound /\ Settled(memory, torn, skill.key)
    /\ ShippedSound /\ Promoting

-----------------------------------------------------------------------------
(* ItemIds and items. *)

(* The ids of outcomes, skills and nodes differ, and none is the absent one. *)
LEMMA IdsAre ==
    /\ \A id \in ItemIds : id # NoItem
    /\ \A sig \in Signatures : sig # NoItem
    /\ \A n \in Tickets : Shipped(n) \in ItemIds /\ FailedId(n) \in ItemIds
    /\ \A m, n : Shipped(n) # FailedId(m) /\ (Shipped(m) = Shipped(n) => m = n)
                 /\ (FailedId(m) = FailedId(n) => m = n)
    /\ \A n, source : <<"procedural", source>> # Shipped(n) /\ <<"procedural", source>> # FailedId(n)
    /\ \A n, t : <<"skill", n>> # <<"ticket", t>>
  <1>1. \A a, b : <<a, b>> # <<>>
    OBVIOUS
  <1>2. \A id \in ItemIds : \E a, b : id = <<a, b>>
    BY DEF ItemIds
  <1>3. \A sig \in Signatures : \E a, b : sig = <<a, b>>
    <2>1. \A A, B : \A x \in A \X B : \E a, b : x = <<a, b>>
      OBVIOUS
    <2>2. PICK A, B : Signatures = A \X B
      BY DEF Signatures
    <2>3. QED  BY <2>1, <2>2
  <1>4. (\A id \in ItemIds : id # NoItem) /\ \A sig \in Signatures : sig # NoItem
    BY <1>1, <1>2, <1>3 DEF NoItem
  <1>5. \A n \in Tickets : Shipped(n) \in ItemIds /\ FailedId(n) \in ItemIds
    BY DEF ItemIds, Shipped, FailedId
  <1>6. \A a, b, c, d : <<a, b>> = <<c, d>> => a = c /\ b = d
    OBVIOUS
  <1>7. "procedural" # "episodic-shipped" /\ "procedural" # "episodic-failed"
        /\ "episodic-shipped" # "episodic-failed" /\ "skill" # "ticket"
    OBVIOUS
  <1>8. QED  BY <1>4, <1>5, <1>6, <1>7 DEF Shipped, FailedId

(* A parent's node is its own. *)
LEMMA NodesApart ==
    /\ \A p, q \in Seq(STRING) : <<"node">> \o p = <<"node">> \o q => p = q
    /\ \A p \in Seq(STRING) : <<"node">> \o p # <<"repair">>
    /\ \A p \in Seq(STRING) : \A pr : <<"node">> \o p # <<"harvest", pr>>
  <1> DEFINE Words == STRING \cup {"node"}
  <1>0. Seq(STRING) \subseteq Seq(Words)
    BY SeqMonotonic
  <1>1. <<"node">> \in Seq(Words) /\ Len(<<"node">>) = 1 /\ <<"node">>[1] = "node"
    <2>1. ASSUME NEW x \in Words PROVE <<x>> \in Seq(Words) /\ Len(<<x>>) = 1 /\ <<x>>[1] = x
      OBVIOUS
    <2>2. "node" \in Words
      OBVIOUS
    <2>3. QED  BY <2>1, <2>2
  <1> HIDE DEF Words
  <1>2. ASSUME NEW p \in Seq(STRING)
        PROVE  (<<"node">> \o p)[1] = "node" /\ <<"node">> \o p \in Seq(Words)
    <2>1. PICK len \in Nat : len = Len(p)
      OBVIOUS
    <2>2. /\ <<"node">> \o p \in Seq(Words)
          /\ \A i \in 1..(Len(<<"node">>) + Len(p)) :
                (<<"node">> \o p)[i] = IF i <= Len(<<"node">>) THEN <<"node">>[i] ELSE p[i - Len(<<"node">>)]
      BY <1>0, <1>1, ConcatProperties
    <2>3. 1 \in 1..(1 + len)
      BY <2>1
    <2>4. QED  BY <1>1, <2>1, <2>2, <2>3
  <1>3. ASSUME NEW p \in Seq(STRING), NEW q \in Seq(STRING), <<"node">> \o p = <<"node">> \o q
        PROVE  p = q
    BY <1>0, <1>1, <1>3, ConcatSimplifications
  <1>4. <<"repair">>[1] = "repair" /\ \A pr : <<"harvest", pr>>[1] = "harvest"
    OBVIOUS
  <1>5. QED  BY <1>2, <1>3, <1>4

(* What a skill is as a row of the store. *)
LEMMA SkillIs ==
    ASSUME NEW source \in Sources, NEW key \in Signatures, NEW area \in Seq(STRING),
           NEW tags \in TagSets,
           NEW refs \in RefSets,
           NEW item, item = Skill(source, key, area, tags, refs)
    PROVE  /\ item \in Entry /\ item.id = <<"procedural", source>> /\ item.kind = "procedural"
           /\ item.key = key /\ item.area = area /\ item.tags = tags /\ item.by = NoItem
  <1>1. PICK i : i = [id |-> <<"procedural", source>>, kind |-> "procedural", key |-> NoItem,
                      area |-> <<>>, tags |-> {}, refs |-> {}, by |-> NoItem]
    OBVIOUS
  <1>2. i \in Entry
    <2>1. <<"procedural", source>> \in ItemIds /\ <<>> \in Seq(STRING) /\ {} \in TagSets /\ {} \in RefSets
      BY EmptySeq DEF ItemIds, TagSets, RefSets
    <2>2. QED  BY <1>1, <2>1 DEF Entry
  <1>3. item = [i EXCEPT !.key = key, !.area = area, !.tags = tags, !.refs = refs]
    BY <1>1 DEF Skill, Item
  <1>5. i.id = <<"procedural", source>> /\ i.kind = "procedural" /\ i.by = NoItem
    BY <1>1
  <1>6. item \in Entry
    BY <1>2, <1>3 DEF Entry
  <1>7. /\ item.id = i.id /\ item.kind = i.kind /\ item.key = key /\ item.area = area
        /\ item.tags = tags /\ item.by = i.by
    BY <1>2, <1>3 DEF Entry
  <1>8. QED  BY <1>5, <1>6, <1>7

(* What the node of an area is as a row of the store. *)
LEMMA NodeIs ==
    ASSUME NEW p \in Seq(STRING)
    PROVE  /\ Node(p) \in Entry /\ Node(p).id = <<"procedural", <<"node">> \o p>>
           /\ Node(p).kind = "procedural" /\ Node(p).key = <<"", p>>
           /\ "area-node" \in Node(p).tags /\ Node(p).by = NoItem /\ Signed(Node(p))
  <1>1. <<"node">> \o p \in Sources /\ <<"", p>> \in Signatures
    BY DEF Sources, Signatures
  <1>2. /\ Node(p) \in Entry /\ Node(p).id = <<"procedural", <<"node">> \o p>>
        /\ Node(p).kind = "procedural" /\ Node(p).key = <<"", p>>
        /\ Node(p).tags = {"area", "area-node"} /\ Node(p).by = NoItem
    <2>1. {"area", "area-node"} \in TagSets
          /\ {} \in RefSets
      BY DEF TagSets, RefSets
    <2>2. PICK source, key : source = <<"node">> \o p /\ key = <<"", p>>
      OBVIOUS
    <2>3. Node(p) = Skill(source, key, p, {"area", "area-node"}, {})
      BY <2>2 DEF Node, derive_skill_key
    <2>4. source \in Sources /\ key \in Signatures
      BY <1>1, <2>2
    <2>5. PICK tags \in TagSets, refs \in RefSets :
             tags = {"area", "area-node"} /\ refs = {}
      BY <2>1
    <2>6. PICK item : item = Node(p)
      OBVIOUS
    <2>7. item = Skill(source, key, p, tags, refs)
      BY <2>3, <2>5, <2>6
    <2>8. /\ item \in Entry /\ item.id = <<"procedural", source>> /\ item.kind = "procedural"
          /\ item.key = key /\ item.tags = tags /\ item.by = NoItem
      BY <2>4, <2>7, SkillIs
    <2>9. QED  BY <2>2, <2>5, <2>6, <2>8
  <1>3. Signed(Node(p))
    <2>1. ASSUME NEW q \in Seq(STRING), Node(p).id = <<"procedural", <<"node">> \o q>> PROVE p = q
      <3>1. <<"node">> \o p = <<"node">> \o q
        <4>1. <<"procedural", <<"node">> \o p>> = <<"procedural", <<"node">> \o q>>
          BY <1>2, <2>1
        <4>2. \A a, b, c, d : <<a, b>> = <<c, d>> => b = d
          OBVIOUS
        <4>3. QED  BY <4>1, <4>2
      <3>2. QED  BY <3>1, NodesApart
    <2>2. QED  BY <1>1, <1>2, <2>1 DEF Signed
  <1>4. QED  BY <1>2, <1>3

(* A card that is no node. *)
LEMMA CardIs ==
    ASSUME NEW source \in CardSources, NEW card \in Cards,
           NEW tags \in TagSets,
           NEW refs \in RefSets, NEW item,
           item = Skill(source, derive_skill_key(card.signal, card.target), card.area, tags, refs)
    PROVE  /\ item \in Entry /\ item.id = <<"procedural", source>> /\ item.kind = "procedural"
           /\ item.by = NoItem /\ item.key \in Signatures /\ Signed(item)
  <1>1. PICK key, area : key = derive_skill_key(card.signal, card.target) /\ area = card.area
    OBVIOUS
  <1>2. source \in Sources /\ area \in Seq(STRING) /\ key \in Signatures
    BY <1>1, KnowledgeAssumption DEF Sources, Signatures, derive_skill_key
  <1>3. item = Skill(source, key, area, tags, refs)
    BY <1>1
  <1>4. /\ item \in Entry /\ item.id = <<"procedural", source>> /\ item.kind = "procedural"
        /\ item.key = key /\ item.by = NoItem
    BY <1>2, <1>3, SkillIs
  <1>5. ASSUME NEW p \in Seq(STRING) PROVE item.id # <<"procedural", <<"node">> \o p>>
    <2>1. source # <<"node">> \o p
      BY NodesApart DEF CardSources
    <2>2. QED  BY <1>4, <2>1
  <1>6. Signed(item)
    BY <1>2, <1>4, <1>5 DEF Signed
  <1>7. QED  BY <1>2, <1>4, <1>6

(* The fields of a row. *)
LEMMA EntryFields ==
    ASSUME NEW x \in Entry
    PROVE  /\ x.id \in ItemIds /\ x.kind \in {"procedural", "episodic"} /\ x.key \in Signatures \cup {NoItem}
           /\ x.area \in Seq(STRING) /\ x.tags \in TagSets /\ x.refs \in RefSets
           /\ x.by \in ItemIds \cup {NoItem}
  BY DEF Entry

(* The rows of a store are entries. *)
LEMMA RowIs ==
    ASSUME NEW m \in Seq(Entry)
    PROVE  /\ Len(m) \in Nat /\ DOMAIN m = 1..Len(m) /\ \A k \in DOMAIN m : m[k] \in Entry
  BY ElementOfSeq, LenProperties

(* What a write of an item leaves. *)
Written(m, item, n) ==
    /\ \A k \in DOMAIN n : n[k] = item \/ (k \in DOMAIN m /\ n[k] = m[k] /\ m[k].id # item.id)
    /\ \A k \in DOMAIN m : k \in DOMAIN n /\ n[k].id = m[k].id
    /\ \E k \in DOMAIN n : n[k] = item
    /\ \A id : ActiveAt(m, id) => ActiveAt(n, id)
    /\ \A id : ActiveAt(n, id) => ActiveAt(m, id) \/ id = item.id
    /\ ActiveAt(n, item.id)

(* A write of an item that nothing supersedes. *)
LEMMA PutSound ==
    ASSUME NEW m, StoreSound(m), NEW item \in Entry, item.by = NoItem, Signed(item),
           NEW n, n = put(m, item)
    PROVE  StoreSound(n) /\ Written(m, item, n)
  <1>1. m \in Seq(Entry) /\ \A j, k \in DOMAIN m : m[j].id = m[k].id => j = k
    BY DEF StoreSound, Unique
  <1>2. /\ n \in Seq(Entry) /\ \A j, k \in DOMAIN n : n[j].id = n[k].id => j = k
        /\ \A k \in DOMAIN n : \/ n[k] = item
                               \/ k \in DOMAIN m /\ n[k] = m[k] /\ m[k].id # item.id
        /\ \A k \in DOMAIN m : k \in DOMAIN n /\ n[k].id = m[k].id
        /\ \E k \in DOMAIN n : n[k] = item
    <2>1. /\ put(m, item) \in Seq(Entry)
          /\ \A j, k \in DOMAIN put(m, item) : put(m, item)[j].id = put(m, item)[k].id => j = k
          /\ \A k \in DOMAIN put(m, item) :
                \/ put(m, item)[k] = item
                \/ k \in DOMAIN m /\ put(m, item)[k] = m[k] /\ m[k].id # item.id
          /\ \A k \in DOMAIN m : k \in DOMAIN put(m, item) /\ put(m, item)[k].id = m[k].id
          /\ \E k \in DOMAIN put(m, item) : put(m, item)[k] = item
      BY <1>1, PutIs
    <2>2. QED  BY <2>1
  <1>3. \A k \in DOMAIN n : n[k].id # NoItem
    BY <1>2, RowIs, EntryFields, IdsAre
  <1>4. Linear(n)
    <2>1. ASSUME NEW rows \in SUBSET DOMAIN n, rows # {}
          PROVE  \E k \in rows : \A l \in rows : n[l].id # n[k].by
      <3>1. CASE \E k \in rows : n[k] = item
        BY <1>3, <3>1
      <3>2. CASE \A k \in rows : n[k] # item
        <4>1. rows \in SUBSET DOMAIN m /\ \A k \in rows : n[k] = m[k]
          BY <1>2, <3>2
        <4>2. \E k \in rows : \A l \in rows : m[l].id # m[k].by
          BY <2>1, <4>1 DEF StoreSound, Linear
        <4>3. QED  BY <4>1, <4>2
      <3>3. QED  BY <3>1, <3>2
    <2>2. QED  BY <2>1 DEF Linear
  <1>5. ASSUME NEW k \in DOMAIN n, n[k].by # NoItem PROVE \E l \in DOMAIN n : n[l].id = n[k].by
    <2>1. k \in DOMAIN m /\ n[k] = m[k]
      BY <1>2, <1>5
    <2>2. PICK l \in DOMAIN m : m[l].id = m[k].by
      BY <1>5, <2>1 DEF StoreSound
    <2>3. QED  BY <1>2, <2>1, <2>2
  <1>6. \A k \in DOMAIN n : Signed(n[k])
    BY <1>2 DEF StoreSound
  <1>7. StoreSound(n)
    BY <1>2, <1>4, <1>5, <1>6 DEF StoreSound, Unique
  <1>8. ASSUME NEW id, ActiveAt(m, id) PROVE ActiveAt(n, id)
    <2>1. PICK k \in DOMAIN m : m[k].id = id /\ m[k].by = NoItem
      BY <1>8 DEF ActiveAt
    <2>2. k \in DOMAIN n /\ n[k].id = id /\ n[k].by = NoItem
      BY <1>2, <2>1
    <2>3. QED  BY <2>2 DEF ActiveAt
  <1>9. ASSUME NEW id, ActiveAt(n, id) PROVE ActiveAt(m, id) \/ id = item.id
    BY <1>2, <1>9 DEF ActiveAt
  <1>10. ActiveAt(n, item.id)
    BY <1>2 DEF ActiveAt
  <1>11. QED  BY <1>2, <1>7, <1>8, <1>9, <1>10 DEF Written

(* An item superseded by one that is active. *)
LEMMA SupersedeSound ==
    ASSUME NEW m, StoreSound(m), NEW id, NEW by \in ItemIds, id # by, ActiveAt(m, by),
           NEW n, n = supersede(m, id, by)
    PROVE  /\ StoreSound(n) /\ DOMAIN n = DOMAIN m
           /\ \A k \in DOMAIN m :
                 /\ m[k].id # id => n[k] = m[k]
                 /\ n[k].id = m[k].id /\ n[k].kind = m[k].kind /\ n[k].key = m[k].key
                 /\ n[k].area = m[k].area /\ n[k].tags = m[k].tags
                 /\ m[k].id = id => n[k].by = by
           /\ \A x : ActiveAt(n, x) => ActiveAt(m, x) /\ x # id
           /\ \A x : ActiveAt(m, x) /\ x # id => ActiveAt(n, x)
  <1>1. m \in Seq(Entry) /\ Unique(m) /\ by # NoItem
    BY IdsAre DEF StoreSound
  <1>2. PICK len \in Nat : DOMAIN m = 1..len /\ \A k \in 1..len : m[k] \in Entry
    BY <1>1, RowIs
  <1>3. /\ DOMAIN n = 1..len
        /\ \A k \in 1..len : n[k] = IF m[k].id = id THEN [m[k] EXCEPT !.by = by] ELSE m[k]
    BY <1>2 DEF supersede
  <1>4. ASSUME NEW k \in 1..len
        PROVE  /\ n[k] \in Entry /\ (m[k].id # id => n[k] = m[k])
               /\ n[k].id = m[k].id /\ n[k].kind = m[k].kind /\ n[k].key = m[k].key
               /\ n[k].area = m[k].area /\ n[k].tags = m[k].tags
               /\ (m[k].id = id => n[k].by = by)
    <2>1. PICK x \in Entry : x = m[k]
      BY <1>2
    <2>2. CASE m[k].id = id
      <3>1. n[k] = [x EXCEPT !.by = by]
        BY <1>3, <2>1, <2>2
      <3>2. /\ n[k] \in Entry /\ n[k].id = x.id /\ n[k].kind = x.kind /\ n[k].key = x.key
            /\ n[k].area = x.area /\ n[k].tags = x.tags /\ n[k].by = by
        BY <3>1 DEF Entry
      <3>3. QED  BY <2>1, <2>2, <3>2
    <2>3. CASE m[k].id # id
      BY <1>2, <1>3, <2>3
    <2>4. QED  BY <2>2, <2>3
  <1>5. n \in Seq(Entry)
    <2>1. n \in [1..len -> Entry]
      BY <1>3, <1>4 DEF supersede
    <2>2. QED  BY <2>1, SeqDef
  <1>6. PICK j \in 1..len : m[j].id = by /\ m[j].by = NoItem
    BY <1>2 DEF ActiveAt
  <1>7. n[j].id = by /\ n[j].by = NoItem
    BY <1>4, <1>6
  <1>8. Unique(n)
    BY <1>1, <1>2, <1>3, <1>4 DEF Unique
  <1>9. Linear(n)
    <2>1. ASSUME NEW rows \in SUBSET DOMAIN n, rows # {}
          PROVE  \E k \in rows : \A l \in rows : n[l].id # n[k].by
      <3>1. CASE j \in rows
        <4>1. \A l \in rows : n[l].id # NoItem
          BY <1>3, <1>4, EntryFields, IdsAre
        <4>2. QED  BY <1>7, <3>1, <4>1
      <3>2. CASE j \notin rows /\ \E k \in rows : m[k].id = id
        <4>1. PICK k \in rows : m[k].id = id
          BY <3>2
        <4>2. n[k].by = by
          BY <1>3, <1>4, <4>1
        <4>3. \A l \in rows : n[l].id # by
          BY <1>3, <1>7, <1>8, <3>2 DEF Unique
        <4>4. QED  BY <4>2, <4>3
      <3>3. CASE \A k \in rows : m[k].id # id
        <4>1. rows \in SUBSET DOMAIN m /\ \A k \in rows : n[k] = m[k]
          BY <1>2, <1>3, <1>4, <3>3
        <4>2. \E k \in rows : \A l \in rows : m[l].id # m[k].by
          BY <2>1, <4>1 DEF StoreSound, Linear
        <4>3. QED  BY <4>1, <4>2
      <3>4. QED  BY <3>1, <3>2, <3>3
    <2>2. QED  BY <2>1 DEF Linear
  <1>10. ASSUME NEW k \in DOMAIN n, n[k].by # NoItem PROVE \E l \in DOMAIN n : n[l].id = n[k].by
    <2>1. CASE m[k].id = id
      BY <1>3, <1>4, <1>7, <2>1
    <2>2. CASE m[k].id # id
      <3>1. n[k] = m[k] /\ k \in DOMAIN m
        BY <1>2, <1>3, <1>4, <2>2
      <3>2. PICK l \in DOMAIN m : m[l].id = m[k].by
        BY <1>10, <3>1 DEF StoreSound
      <3>3. l \in DOMAIN n /\ n[l].id = n[k].by
        BY <1>2, <1>3, <1>4, <3>1, <3>2
      <3>4. QED  BY <3>3
    <2>3. QED  BY <2>1, <2>2
  <1>11. ASSUME NEW k \in DOMAIN n PROVE Signed(n[k])
    <2>1. k \in DOMAIN m /\ k \in 1..len
      BY <1>2, <1>3
    <2>2. Signed(m[k])
      BY <2>1 DEF StoreSound
    <2>3. QED  BY <1>4, <2>1, <2>2 DEF Signed
  <1>12. StoreSound(n)
    BY <1>5, <1>8, <1>9, <1>10, <1>11 DEF StoreSound
  <1>13. ASSUME NEW x, ActiveAt(n, x) PROVE ActiveAt(m, x) /\ x # id
    <2>1. PICK k \in 1..len : n[k].id = x /\ n[k].by = NoItem
      BY <1>3, <1>13 DEF ActiveAt
    <2>2. m[k].id # id
      BY <1>1, <1>4, <2>1
    <2>3. n[k] = m[k]
      BY <1>4, <2>2
    <2>4. QED  BY <1>2, <2>1, <2>2, <2>3 DEF ActiveAt
  <1>14. ASSUME NEW x, ActiveAt(m, x), x # id PROVE ActiveAt(n, x)
    <2>1. PICK k \in 1..len : m[k].id = x /\ m[k].by = NoItem
      BY <1>2, <1>14 DEF ActiveAt
    <2>2. n[k] = m[k]
      BY <1>4, <1>14, <2>1
    <2>3. QED  BY <1>3, <2>1, <2>2 DEF ActiveAt
  <1>15. QED  BY <1>2, <1>3, <1>4, <1>12, <1>13, <1>14

(* A change of tags that marks no node less. *)
LEMMA TagsSound ==
    ASSUME NEW m, StoreSound(m), NEW n \in Seq(Entry), DOMAIN n = DOMAIN m,
           \A k \in DOMAIN m :
              /\ n[k].id = m[k].id /\ n[k].kind = m[k].kind /\ n[k].key = m[k].key
              /\ n[k].by = m[k].by /\ m[k].tags \subseteq n[k].tags
    PROVE  StoreSound(n) /\ \A x : ActiveAt(n, x) <=> ActiveAt(m, x)
  <1>1. Unique(n)
    BY DEF StoreSound, Unique
  <1>2. Linear(n)
    <2>1. ASSUME NEW rows \in SUBSET DOMAIN n, rows # {}
          PROVE  \E k \in rows : \A l \in rows : n[l].id # n[k].by
      <3>1. \E k \in rows : \A l \in rows : m[l].id # m[k].by
        BY <2>1 DEF StoreSound, Linear
      <3>2. QED  BY <3>1
    <2>2. QED  BY <2>1 DEF Linear
  <1>3. \A k \in DOMAIN n : Signed(n[k])
    BY DEF StoreSound, Signed
  <1>4. \A k \in DOMAIN n : n[k].by # NoItem => \E l \in DOMAIN n : n[l].id = n[k].by
    BY DEF StoreSound
  <1>5. QED  BY <1>1, <1>2, <1>3, <1>4 DEF StoreSound, ActiveAt

(* As many ids as rows. *)
LEMMA IdsCounted ==
    ASSUME StoreSound(memory) PROVE Cardinality(MemoryIds) = Len(memory)
  <1>1. /\ Len(memory) \in Nat /\ DOMAIN memory = 1..Len(memory) /\ Unique(memory)
    BY RowIs DEF StoreSound
  <1>2. PICK len \in Nat : len = Len(memory)
    BY <1>1
  <1>3. PICK f : f = [k \in 1..len |-> memory[k].id]
    OBVIOUS
  <1>4. /\ f \in [1..len -> MemoryIds]
        /\ \A j, k \in 1..len : f[j] = f[k] => j = k
        /\ \A id \in MemoryIds : \E k \in 1..len : f[k] = id
    BY <1>1, <1>2, <1>3 DEF MemoryIds, Unique
  <1>5. ExistsBijection(1..len, MemoryIds)
    BY <1>4, Fun_IsBij DEF ExistsBijection
  <1>6. IsFiniteSet(1..len) /\ Cardinality(1..len) = len
    <2>1. 1 \in Int /\ len \in Int
      BY <1>2
    <2>2. IsFiniteSet(1..len) /\ Cardinality(1..len) = IF 1 > len THEN 0 ELSE len - 1 + 1
      BY <2>1, FS_Interval
    <2>3. QED  BY <1>2, <2>2
  <1>7. Cardinality(MemoryIds) = len
    BY <1>5, <1>6, FS_Bijection
  <1>8. QED  BY <1>2, <1>7

(* Between two recordings no skill is held. *)
LEMMA NoSkillIs == NoSkill \in Recording /\ NoSkill.key = NoItem /\ NoSkill.back = "idle"
  <1>1. <<>> \in Seq(ItemIds)
    BY EmptySeq
  <1>2. QED  BY <1>1 DEF NoSkill, Recording

(* The store starts sound: nothing is in it. *)
LEMMA InitKnowledge == KnowledgeInit => KnowledgeSound
  <1> SUFFICES ASSUME KnowledgeInit PROVE KnowledgeSound
    OBVIOUS
  <1>1. /\ memory \in Seq(Entry) /\ merged \in Seq(Outcome) /\ nodes \in Seq(Seq(STRING))
        /\ DOMAIN memory = {}
    BY EmptySeq DEF KnowledgeInit
  <1>2. KnowledgeForm
    BY <1>1, NoSkillIs DEF KnowledgeInit, KnowledgeForm
  <1>3. StoreSound(memory) /\ Settled(memory, torn, skill.key)
    BY <1>1 DEF StoreSound, Unique, Linear, Settled
  <1>4. DutySound /\ ShippedSound /\ Promoting
    BY <1>1, NoSkillIs DEF KnowledgeInit, DutySound, ShippedSound, Promoting, ActiveAt
  <1>5. QED  BY <1>2, <1>3, <1>4 DEF KnowledgeSound

(* What the invariant says, part by part. *)
LEMMA SoundParts ==
    ASSUME KnowledgeSound
    PROVE  /\ memory \in Seq(Entry) /\ merged \in Seq(Outcome) /\ place \in Nat
           /\ nodes \in Seq(Seq(STRING)) /\ skill \in Recording
           /\ duty \in {"idle", "episode", "forget", "harvest", "node", "prior"}
           /\ StoreSound(memory) /\ DutySound /\ Settled(memory, torn, skill.key)
           /\ ShippedSound /\ Promoting
           /\ duty # "prior" => skill = NoSkill /\ skill.key = NoItem /\ skill.back = "idle"
  BY NoSkillIs DEF KnowledgeSound, KnowledgeForm, DutySound

(* The fields of a skill that is being recorded. *)
LEMMA RecordingFields ==
    ASSUME NEW s \in Recording
    PROVE  /\ s.id \in ItemIds \cup {NoItem} /\ s.key \in Signatures \cup {NoItem} /\ s.prior \in Seq(ItemIds)
           /\ s.back \in {"idle", "harvest", "node"}
  BY DEF Recording

(* What is torn stays so. *)
LEMMA SettledMore ==
    ASSUME NEW m, NEW t, NEW u, NEW key, Settled(m, t, key), t \subseteq u
    PROVE  Settled(m, u, key)
  BY DEF Settled

(* A skill whose priors are all superseded is the one of its signature; one    *)
(* that is cut is torn.                                                        *)
LEMMA SettledDone ==
    ASSUME NEW m, StoreSound(m), NEW t, NEW u, NEW s, Settled(m, t, s.key), RecordingSound(m, s),
           s.prior = <<>> \/ <<"skill", s.key>> \in u,
           \A x \in t : x \in u \/ x = <<"skill", s.key>>
    PROVE  Settled(m, u, NoItem)
  <1>1. ASSUME NEW k \in DOMAIN m, NEW l \in DOMAIN m, k # l,
               m[k].kind = "procedural", m[l].kind = "procedural",
               m[k].by = NoItem, m[l].by = NoItem, m[k].key = m[l].key
        PROVE  <<"skill", m[k].key>> \in u
    <2>1. CASE m[k].key # s.key
      <3>1. <<"skill", m[k].key>> \in t
        BY <1>1, <2>1 DEF Settled
      <3>2. <<"skill", m[k].key>> # <<"skill", s.key>>
        BY <2>1
      <3>3. QED  BY <3>1, <3>2
    <2>2. CASE m[k].key = s.key /\ s.prior = <<>>
      <3>0. DOMAIN s.prior = {}
        BY <2>2
      <3>1. m[k].id = s.id /\ m[l].id = s.id
        BY <1>1, <2>2, <3>0 DEF RecordingSound
      <3>2. QED  BY <1>1, <3>1 DEF StoreSound, Unique
    <2>3. CASE m[k].key = s.key /\ <<"skill", s.key>> \in u
      BY <2>3
    <2>4. QED  BY <2>1, <2>2, <2>3
  <1>2. QED  BY <1>1 DEF Settled

(* A ticket stays forgotten when no episode of it becomes active. *)
LEMMA ShippedKept ==
    ASSUME ShippedSound, \A n : ActiveAt(memory', Shipped(n)) => ActiveAt(memory, Shipped(n)),
           \A n : ActiveAt(memory', FailedId(n)) => ActiveAt(memory, FailedId(n)),
           \A n : <<"ticket", n>> \in torn => <<"ticket", n>> \in torn', duty # "forget"
    PROVE  ShippedSound'
  BY DEF ShippedSound

(* What a cut leaves of a delivery is accounted for. *)
LEMMA ShippedCut ==
    ASSUME ShippedSound, UNCHANGED memory, \A n : <<"ticket", n>> \in torn => <<"ticket", n>> \in torn',
           duty = "forget" => <<"ticket", merged[place].issue>> \in torn'
    PROVE  ShippedSound'
  BY DEF ShippedSound

(* What ends in rest. *)
LEMMA RestSound ==
    ASSUME KnowledgeSound, Rest, UNCHANGED memory, Settled(memory, torn', NoItem), ShippedSound'
    PROVE  KnowledgeSound'
  <1>1. /\ duty' = "idle" /\ merged' = <<>> /\ place' = 0 /\ nodes' = <<>> /\ skill' = NoSkill
    BY DEF Rest
  <1>2. merged' \in Seq(Outcome) /\ nodes' \in Seq(Seq(STRING)) /\ place' \in Nat
    BY <1>1, EmptySeq
  <1>3. KnowledgeForm'
    BY <1>1, <1>2, SoundParts, NoSkillIs DEF KnowledgeForm
  <1>4. StoreSound(memory')
    BY SoundParts
  <1>5. Settled(memory', torn', skill'.key)
    BY <1>1, NoSkillIs
  <1>6. DutySound' /\ Promoting'
    BY <1>1, NoSkillIs DEF DutySound, Promoting
  <1>7. QED  BY <1>3, <1>4, <1>5, <1>6 DEF KnowledgeSound

(* What ends a duty that is no forgetting, cut or done. *)
LEMMA EndSound ==
    ASSUME KnowledgeSound, Rest, UNCHANGED memory, duty # "forget",
           duty = "prior" /\ skill.prior # <<>> => <<"skill", skill.key>> \in torn',
           \A x \in torn : x \in torn' \/ (duty = "prior" /\ x = <<"skill", skill.key>>)
    PROVE  KnowledgeSound'
  <1>1. Settled(memory, torn', NoItem)
    <2>1. CASE duty # "prior"
      <3>1. torn \subseteq torn' /\ skill.key = NoItem /\ Settled(memory, torn, skill.key)
        BY <2>1, SoundParts
      <3>2. QED  BY <3>1, SettledMore
    <2>2. CASE duty = "prior"
      <3>1. StoreSound(memory) /\ Settled(memory, torn, skill.key) /\ RecordingSound(memory, skill)
        BY <2>2, SoundParts DEF DutySound
      <3>2. skill.prior = <<>> \/ <<"skill", skill.key>> \in torn'
        BY <2>2
      <3>3. QED  BY <3>1, <3>2, SettledDone
    <2>3. QED  BY <2>1, <2>2
  <1>2. \A n : <<"ticket", n>> \in torn => <<"ticket", n>> \in torn'
    BY IdsAre
  <1>3. ShippedSound'
    BY <1>2, SoundParts, ShippedKept
  <1>4. QED  BY <1>1, <1>3, RestSound

LEMMA HarvestFailsSound == ASSUME KnowledgeSound, HarvestFails PROVE KnowledgeSound'
  <1>1. /\ Rest /\ UNCHANGED memory /\ duty # "forget"
        /\ torn' = IF duty = "prior" /\ skill.prior # <<>>
                   THEN torn \cup {<<"skill", skill.key>>} ELSE torn
    BY DEF HarvestFails, Cut
  <1>2. QED  BY <1>1, EndSound

LEMMA KnowledgeDies == ASSUME KnowledgeSound, Dies_K PROVE KnowledgeSound'
  <1>1. Rest /\ UNCHANGED memory
    BY DEF Dies_K
  <1>2. CASE duty = "forget"
    <2>1. torn' = torn \cup {<<"ticket", merged[place].issue>>}
      BY <1>2 DEF Dies_K
    <2>2. ShippedSound'
      BY <1>1, <2>1, SoundParts, ShippedCut
    <2>3. skill.key = NoItem /\ Settled(memory, torn, skill.key) /\ torn \subseteq torn'
      BY <1>2, <2>1, SoundParts
    <2>4. Settled(memory, torn', NoItem)
      BY <2>3, SettledMore
    <2>5. QED  BY <1>1, <2>2, <2>4, RestSound
  <1>3. CASE duty = "prior" /\ skill.prior # <<>>
    <2>1. torn' = torn \cup {<<"skill", skill.key>>}
      BY <1>3 DEF Dies_K
    <2>2. QED  BY <1>1, <1>3, <2>1, EndSound
  <1>4. CASE duty # "forget" /\ ~(duty = "prior" /\ skill.prior # <<>>)
    <2>1. torn' = torn
      BY <1>4 DEF Dies_K
    <2>2. QED  BY <1>1, <1>4, <2>1, EndSound
  <1>5. QED  BY <1>2, <1>3, <1>4

LEMMA RecordedSound == ASSUME KnowledgeSound, Recorded_ PROVE KnowledgeSound'
  <1>1. /\ duty = "prior" /\ skill.prior = <<>> /\ torn' = torn \ {<<"skill", skill.key>>}
        /\ UNCHANGED memory
    BY DEF Recorded_
  <1>2. CASE skill.back = "idle"
    <2>1. Rest
      BY <1>2 DEF Recorded_
    <2>2. QED  BY <1>1, <2>1, EndSound
  <1>3. CASE skill.back # "idle"
    <2>1. /\ duty' = skill.back /\ skill' = NoSkill /\ UNCHANGED <<merged, nodes>>
          /\ place' = IF skill.back = "harvest" THEN place + 1 ELSE place
      BY <1>3 DEF Recorded_
    <2>2. duty' \in {"harvest", "node"} /\ place' \in Nat /\ (duty' = "harvest" => place' # 0)
      BY <1>3, <2>1, SoundParts, RecordingFields
    <2>3. StoreSound(memory) /\ Settled(memory, torn, skill.key) /\ RecordingSound(memory, skill)
      BY <1>1, SoundParts DEF DutySound
    <2>4. Settled(memory, torn', NoItem)
      BY <1>1, <2>3, SettledDone
    <2>5. ShippedSound'
      <3>1. \A n : <<"ticket", n>> \in torn => <<"ticket", n>> \in torn'
        BY <1>1, IdsAre
      <3>2. QED  BY <1>1, <3>1, SoundParts, ShippedKept
    <2>6. KnowledgeForm'
      BY <1>1, <2>1, <2>2, SoundParts, NoSkillIs DEF KnowledgeForm
    <2>7. DutySound'
      BY <2>1, <2>2, NoSkillIs DEF DutySound
    <2>8. Promoting'
      <3>1. CASE duty' = "node"
        <4>1. \A p \in Parents : Cardinality(Leaves(p)) >= min_leaves =>
                 (\E j \in DOMAIN nodes : nodes[j] = p) \/ ActiveAt(memory, Node(p).id)
          BY <2>1, <3>1, SoundParts DEF Promoting
        <4>2. QED  BY <1>1, <2>1, <4>1 DEF Promoting, Parents, Leaves
      <3>2. CASE duty' # "node"
        BY <2>1, <3>2, NoSkillIs DEF Promoting
      <3>3. QED  BY <3>1, <3>2
    <2>9. StoreSound(memory') /\ Settled(memory', torn', skill'.key)
      BY <1>1, <2>1, <2>3, <2>4, NoSkillIs
    <2>10. QED  BY <2>5, <2>6, <2>7, <2>8, <2>9 DEF KnowledgeSound
  <1>4. QED  BY <1>2, <1>3

(* The ids of the active skills of the item's signature, but for its own. *)
Priors(m, item, prior) ==
    /\ prior \in Seq(ItemIds)
    /\ \A k \in DOMAIN m :
          m[k].by = NoItem /\ m[k].kind = "procedural" /\ m[k].key = item.key /\ m[k].id # item.id
            => \E j \in DOMAIN prior : prior[j] = m[k].id
    /\ \A j \in DOMAIN prior :
          \E k \in DOMAIN m : /\ m[k].id = prior[j] /\ m[k].kind = "procedural"
                              /\ m[k].key = item.key /\ m[k].id # item.id

(* What a recording finds to supersede. *)
LEMMA PriorIs ==
    ASSUME NEW m, m = memory, m \in Seq(Entry), NEW item, NEW prior,
           prior = [k \in DOMAIN Prior(item) |-> Prior(item)[k].id]
    PROVE  Priors(m, item, prior)
  <1>1. PICK active : active = list_active(m)
    OBVIOUS
  <1>2. active = ElementsAt(m, {k \in DOMAIN m : m[k].by = NoItem})
    BY <1>1 DEF list_active, Where, is_active
  <1>3. PICK P : P = {k \in DOMAIN m : m[k].by = NoItem}
    OBVIOUS
  <1>4. /\ active \in Seq(Entry)
        /\ \A j \in DOMAIN active : \E k \in DOMAIN m : k \in P /\ active[j] = m[k]
        /\ \A k \in DOMAIN m : k \in P => \E j \in DOMAIN active : active[j] = m[k]
    <2>1. active = ElementsAt(m, P)
      BY <1>2, <1>3
    <2>2. /\ ElementsAt(m, P) \in Seq(Entry)
          /\ \A k \in DOMAIN ElementsAt(m, P) : \E p \in DOMAIN m : p \in P /\ ElementsAt(m, P)[k] = m[p]
          /\ \A p \in DOMAIN m : p \in P => \E k \in DOMAIN ElementsAt(m, P) : ElementsAt(m, P)[k] = m[p]
      BY AtElements
    <2>3. QED  BY <2>1, <2>2
  <1>5. PICK Q : Q = {j \in DOMAIN active : /\ active[j].kind = "procedural"
                                            /\ active[j].key = item.key /\ active[j].id # item.id}
    OBVIOUS
  <1>6. PICK olds : olds = Prior(item)
    OBVIOUS
  <1>7. olds = ElementsAt(active, Q)
    BY <1>1, <1>5, <1>6 DEF Prior, Where
  <1>8. /\ olds \in Seq(Entry)
        /\ \A i \in DOMAIN olds : \E j \in DOMAIN active : j \in Q /\ olds[i] = active[j]
        /\ \A j \in DOMAIN active : j \in Q => \E i \in DOMAIN olds : olds[i] = active[j]
    BY <1>4, <1>7, AtElements
  <1>9. PICK len \in Nat : DOMAIN olds = 1..len /\ \A k \in 1..len : olds[k] \in Entry
    BY <1>8, RowIs
  <1>10. prior = [k \in 1..len |-> olds[k].id]
    BY <1>6, <1>9
  <1>11. prior \in Seq(ItemIds)
    <2>1. prior \in [1..len -> ItemIds]
      BY <1>9, <1>10, EntryFields
    <2>2. QED  BY <2>1, SeqDef
  <1>12. ASSUME NEW k \in DOMAIN m, m[k].by = NoItem, m[k].kind = "procedural", m[k].key = item.key,
                m[k].id # item.id
         PROVE  \E j \in DOMAIN prior : prior[j] = m[k].id
    <2>1. PICK j \in DOMAIN active : active[j] = m[k]
      BY <1>3, <1>4, <1>12
    <2>2. PICK i \in DOMAIN olds : olds[i] = active[j]
      BY <1>5, <1>8, <1>12, <2>1
    <2>3. i \in 1..len /\ prior[i] = olds[i].id
      BY <1>9, <1>10
    <2>4. QED  BY <1>10, <2>1, <2>2, <2>3
  <1>13. ASSUME NEW i \in DOMAIN prior
         PROVE  \E k \in DOMAIN m : /\ m[k].id = prior[i] /\ m[k].kind = "procedural"
                                    /\ m[k].key = item.key /\ m[k].id # item.id
    <2>1. i \in DOMAIN olds /\ prior[i] = olds[i].id
      BY <1>9, <1>10
    <2>2. PICK j \in DOMAIN active : j \in Q /\ olds[i] = active[j]
      BY <1>8, <2>1
    <2>3. PICK k \in DOMAIN m : active[j] = m[k]
      BY <1>4
    <2>4. QED  BY <1>5, <2>1, <2>2, <2>3
  <1>14. QED  BY <1>11, <1>12, <1>13 DEF Priors

Leafy(item) ==
    /\ item.by = NoItem /\ item.kind = "procedural" /\ "area" \in item.tags
    /\ item.tags \cap {"area-node", "expired"} = {}

(* All but the last of a sequence. *)
LEMMA FrontTyped ==
    ASSUME NEW S, NEW s \in Seq(S)
    PROVE  Front(s) \in Seq(S)
  <1>1. PICK len \in Nat : len = Len(s) /\ DOMAIN s = 1..len /\ \A k \in 1..len : s[k] \in S
    BY LenProperties, ElementOfSeq
  <1>2. Front(s) = SubSeq(s, 1, len - 1)
    BY <1>1 DEF Front
  <1>3. \A i \in 1..(len - 1) : s[i] \in S
    BY <1>1
  <1>4. QED  BY <1>1, <1>2, <1>3, SubSeqProperties

(* Parents get no more leaves. *)
LEMMA LeavesShrink ==
    ASSUME NEW m, m = memory, m \in Seq(Entry), NEW n, n = memory',
           \A k \in DOMAIN n : Leafy(n[k]) => k \in DOMAIN m /\ Leafy(m[k]) /\ m[k].area = n[k].area,
           NEW p \in Parents', Cardinality(Leaves(p)') >= min_leaves
    PROVE  p \in Parents /\ Cardinality(Leaves(p)) >= min_leaves
  <1>1. PICK now, then : now = Leaves(p) /\ then = Leaves(p)'
    OBVIOUS
  <1>2. now = {k \in DOMAIN m : Leafy(m[k]) /\ Front(m[k].area) = p}
    BY <1>1 DEF Leaves, Leafy, is_active
  <1>3. then = {k \in DOMAIN n : Leafy(n[k]) /\ Front(n[k].area) = p}
    BY <1>1 DEF Leaves, Leafy, is_active
  <1>4. then \subseteq now
    BY <1>2, <1>3
  <1>5. IsFiniteSet(now)
    <2>1. PICK len \in Nat : DOMAIN m = 1..len
      BY RowIs
    <2>2. 1 \in Int /\ len \in Int
      BY <2>1
    <2>3. IsFiniteSet(1..len)
      BY <2>2, FS_Interval
    <2>4. now \subseteq 1..len
      BY <1>2, <2>1
    <2>5. QED  BY <2>3, <2>4, FS_Subset
  <1>6. Cardinality(then) <= Cardinality(now) /\ Cardinality(now) \in Nat /\ Cardinality(then) \in Nat
    BY <1>4, <1>5, FS_Subset, FS_CardinalityType
  <1>7. Cardinality(now) >= min_leaves
    <2>1. PICK a, b : a = Cardinality(now) /\ b = Cardinality(then)
      OBVIOUS
    <2>2. a \in Nat /\ b \in Nat /\ b <= a /\ b >= min_leaves /\ min_leaves \in Nat
      BY <1>1, <1>6, <2>1, KnowledgeAssumption
    <2>3. a >= min_leaves
      BY <2>2
    <2>4. QED  BY <2>1, <2>3
  <1>8. p # <<>> /\ then # {}
    BY <1>1 DEF Parents
  <1>9. PICK k : k \in now
    BY <1>4, <1>8
  <1>10. p \in Parents
    BY <1>1, <1>2, <1>8, <1>9 DEF Parents
  <1>11. QED  BY <1>1, <1>7, <1>10

(* A promotion still under way. *)
LEMMA PromotingStill ==
    ASSUME NEW m, m = memory, m \in Seq(Entry), NEW n, n = memory',
           \A k \in DOMAIN n : Leafy(n[k]) => k \in DOMAIN m /\ Leafy(m[k]) /\ m[k].area = n[k].area,
           \A p \in Parents : Cardinality(Leaves(p)) >= min_leaves =>
              (\E j \in DOMAIN nodes' : nodes'[j] = p) \/ ActiveAt(n, Node(p).id)
    PROVE  Promoting'
  BY LeavesShrink DEF Promoting

(* record_procedural_skill, up to its priors. *)
LEMMA RecordSound ==
    ASSUME KnowledgeSound, NEW item \in Entry, NEW back \in {"idle", "harvest", "node"},
           record_procedural_skill(item, back), duty # "prior",
           item.by = NoItem, item.kind = "procedural", Signed(item),
           NEW source, item.id = <<"procedural", source>>,
           back = "harvest" => place # 0,
           back = "node" => \E p \in Seq(STRING) : item.id = Node(p).id /\ item.key = <<"", p>>,
           UNCHANGED <<merged, place, torn>>, nodes' \in Seq(Seq(STRING)), Promoting', duty # "forget"
    PROVE  KnowledgeSound'
  <1>1. PICK m, n, key : m = memory /\ n = memory' /\ key = item.key
    OBVIOUS
  <1>2. PICK prior : prior = [k \in DOMAIN Prior(item) |-> Prior(item)[k].id]
    OBVIOUS
  <1>3. /\ n = put(m, item) /\ duty' = "prior"
        /\ skill' = [id |-> item.id, key |-> key, back |-> back, prior |-> prior]
    BY <1>1, <1>2 DEF record_procedural_skill
  <1>4. PICK s : s = skill'
    OBVIOUS
  <1>5. s.id = item.id /\ s.key = key /\ s.back = back /\ s.prior = prior
    BY <1>3, <1>4
  <1>6. StoreSound(m) /\ m \in Seq(Entry) /\ Settled(m, torn, NoItem)
    BY <1>1, SoundParts
  <1>7. /\ StoreSound(n)
        /\ \A k \in DOMAIN n : \/ n[k] = item
                               \/ k \in DOMAIN m /\ n[k] = m[k] /\ m[k].id # item.id
        /\ \A k \in DOMAIN m : k \in DOMAIN n /\ n[k].id = m[k].id
        /\ \A id : ActiveAt(n, id) => ActiveAt(m, id) \/ id = item.id
        /\ ActiveAt(n, item.id)
    <2>1. StoreSound(m) /\ item \in Entry /\ item.by = NoItem /\ Signed(item) /\ n = put(m, item)
      BY <1>3, <1>6
    <2>2. StoreSound(n) /\ Written(m, item, n)
      BY <2>1, PutSound
    <2>3. QED  BY <2>2 DEF Written
  <1>8. /\ prior \in Seq(ItemIds)
        /\ \A k \in DOMAIN m :
              m[k].by = NoItem /\ m[k].kind = "procedural" /\ m[k].key = key /\ m[k].id # item.id
                => \E j \in DOMAIN prior : prior[j] = m[k].id
        /\ \A j \in DOMAIN prior :
              \E k \in DOMAIN m : /\ m[k].id = prior[j] /\ m[k].kind = "procedural"
                                  /\ m[k].key = key /\ m[k].id # item.id
    <2>1. m = memory /\ m \in Seq(Entry)
      BY <1>1, <1>6
    <2>2. Priors(m, item, prior)
      BY <1>2, <2>1, PriorIs
    <2>3. QED  BY <1>1, <2>2 DEF Priors
  <1>9. key \in Signatures /\ item.id \in ItemIds
    BY <1>1, EntryFields DEF Signed
  <1>10. s \in Recording
    BY <1>3, <1>4, <1>8, <1>9 DEF Recording
  <1>11. RecordingSound(n, s)
    <2>1. \E k \in DOMAIN n : n[k].id = s.id /\ n[k].by = NoItem
      BY <1>5, <1>7 DEF ActiveAt
    <2>2. ASSUME NEW k \in DOMAIN n, n[k].by = NoItem, n[k].kind = "procedural", n[k].key = s.key,
                 n[k].id # s.id
          PROVE  \E j \in DOMAIN s.prior : s.prior[j] = n[k].id
      <3>1. k \in DOMAIN m /\ n[k] = m[k]
        BY <1>5, <1>7, <2>2
      <3>2. PICK j \in DOMAIN prior : prior[j] = m[k].id
        <4>1. /\ k \in DOMAIN m /\ m[k].by = NoItem /\ m[k].kind = "procedural" /\ m[k].key = key
              /\ m[k].id # item.id
          BY <1>5, <2>2, <3>1
        <4>2. QED  BY <1>8, <4>1
      <3>3. QED  BY <1>5, <3>1, <3>2
    <2>3. ASSUME NEW j \in DOMAIN s.prior
          PROVE  /\ s.prior[j] # s.id
                 /\ \E k \in DOMAIN n : /\ n[k].id = s.prior[j] /\ n[k].kind = "procedural"
                                        /\ n[k].key = s.key
      <3>1. PICK k \in DOMAIN m : /\ m[k].id = prior[j] /\ m[k].kind = "procedural"
                                  /\ m[k].key = key /\ m[k].id # item.id
        BY <1>5, <1>8, <2>3
      <3>2. k \in DOMAIN n /\ n[k] = m[k]
        BY <1>7, <3>1
      <3>3. QED  BY <1>5, <3>1, <3>2
    <2>4. s.back = "node" => \E p \in Seq(STRING) : s.id = Node(p).id /\ s.key = <<"", p>>
      BY <1>1, <1>5
    <2>5. s.key \in Signatures
      BY <1>5, <1>9
    <2>6. QED  BY <2>1, <2>2, <2>3, <2>4, <2>5 DEF RecordingSound
  <1>12. Settled(n, torn, s.key)
    <2>1. ASSUME NEW k \in DOMAIN n, NEW l \in DOMAIN n, k # l,
                 n[k].kind = "procedural", n[l].kind = "procedural",
                 n[k].by = NoItem, n[l].by = NoItem, n[k].key = n[l].key, n[k].key # key
          PROVE  <<"skill", n[k].key>> \in torn
      <3>1. k \in DOMAIN m /\ n[k] = m[k] /\ l \in DOMAIN m /\ n[l] = m[l]
        BY <1>1, <1>7, <2>1
      <3>2. m[k].key \in Signatures
        BY <1>6, <2>1, <3>1 DEF StoreSound, Signed
      <3>3. m[k].key # NoItem
        BY <3>2, IdsAre
      <3>4. QED  BY <1>6, <2>1, <3>1, <3>3 DEF Settled
    <2>2. QED  BY <1>5, <2>1 DEF Settled
  <1>13. ShippedSound'
    <2>1. \A t : item.id # Shipped(t) /\ item.id # FailedId(t)
      BY IdsAre
    <2>2. \A t : /\ ActiveAt(memory', Shipped(t)) => ActiveAt(memory, Shipped(t))
                 /\ ActiveAt(memory', FailedId(t)) => ActiveAt(memory, FailedId(t))
      BY <1>1, <1>7, <2>1
    <2>3. ShippedSound
      BY SoundParts
    <2>4. QED  BY <2>2, <2>3, ShippedKept
  <1>14. KnowledgeForm'
    <2>1. n \in Seq(Entry)
      BY <1>7 DEF StoreSound
    <2>2. QED  BY <1>1, <1>3, <1>4, <1>10, <2>1, SoundParts DEF KnowledgeForm
  <1>15. DutySound'
    BY <1>1, <1>3, <1>4, <1>5, <1>11 DEF DutySound
  <1>16. QED
    BY <1>1, <1>4, <1>7, <1>12, <1>13, <1>14, <1>15 DEF KnowledgeSound

(* The elements of a sequence without its first, and where they were. *)
LEMMA TailHas ==
    ASSUME NEW S, NEW s \in Seq(S), s # <<>>
    PROVE  /\ Tail(s) \in Seq(S) /\ Head(s) = s[1] /\ 1 \in DOMAIN s
           /\ \A j \in DOMAIN s : j # 1 => j - 1 \in DOMAIN Tail(s) /\ Tail(s)[j - 1] = s[j]
           /\ \A j \in DOMAIN Tail(s) : j + 1 \in DOMAIN s /\ Tail(s)[j] = s[j + 1]
  <1>1. PICK len \in Nat : len = Len(s) /\ DOMAIN s = 1..len /\ len # 0
    BY LenProperties, EmptySeq
  <1>2. PICK t : t = Tail(s)
    OBVIOUS
  <1>3. t \in Seq(S) /\ Len(t) = len - 1 /\ \A i \in 1..Len(t) : t[i] = s[i + 1]
    BY <1>1, <1>2, HeadTailProperties
  <1>4. DOMAIN t = 1..(len - 1)
    BY <1>3, LenProperties
  <1>5. Head(s) = s[1]
    BY HeadTailProperties
  <1>6. QED  BY <1>1, <1>2, <1>3, <1>4, <1>5

(* One earlier skill is superseded, and the rest wait their turn. *)
LEMMA SupersedeStep == ASSUME KnowledgeSound, Supersede_ PROVE KnowledgeSound'
  <1>1. PICK m, n, s, z, id, by : /\ m = memory /\ n = memory' /\ s = skill /\ z = skill'
                                  /\ id = Head(skill.prior) /\ by = skill.id
    OBVIOUS
  <1>2. /\ duty = "prior" /\ s.prior # <<>> /\ n = supersede(m, id, by)
        /\ z = [s EXCEPT !.prior = Tail(@)] /\ UNCHANGED <<duty, merged, place, nodes, torn>>
    BY <1>1 DEF Supersede_
  <1>3. /\ StoreSound(m) /\ m \in Seq(Entry) /\ Settled(m, torn, s.key) /\ RecordingSound(m, s)
        /\ s \in Recording
    BY <1>1, <1>2, SoundParts DEF DutySound
  <1>4. s.prior \in Seq(ItemIds)
    BY <1>3, RecordingFields
  <1>5. /\ z \in Recording /\ z.id = s.id /\ z.key = s.key /\ z.back = s.back /\ z.prior = Tail(s.prior)
    <2>1. Tail(s.prior) \in Seq(ItemIds)
      BY <1>2, <1>4, TailHas
    <2>2. QED  BY <1>2, <1>3, <2>1 DEF Recording
  <1>6. PICK prior : prior = s.prior
    OBVIOUS
  <1>7. /\ id = prior[1] /\ 1 \in DOMAIN prior
        /\ \A j \in DOMAIN prior : j # 1 => j - 1 \in DOMAIN Tail(prior) /\ Tail(prior)[j - 1] = prior[j]
        /\ \A j \in DOMAIN Tail(prior) : j + 1 \in DOMAIN prior /\ Tail(prior)[j] = prior[j + 1]
    BY <1>1, <1>2, <1>4, <1>6, TailHas
  <1>8. ActiveAt(m, by) /\ id # by
    <2>1. ActiveAt(m, by)
      BY <1>1, <1>3 DEF RecordingSound, ActiveAt
    <2>2. \A j \in DOMAIN s.prior : s.prior[j] # s.id
      BY <1>3 DEF RecordingSound
    <2>3. QED  BY <1>1, <1>6, <1>7, <2>1, <2>2
  <1>9. by \in ItemIds
    BY <1>3, <1>8, RowIs, EntryFields DEF ActiveAt
  <1>10. /\ StoreSound(n) /\ DOMAIN n = DOMAIN m
         /\ \A k \in DOMAIN m :
               /\ m[k].id # id => n[k] = m[k]
               /\ n[k].id = m[k].id /\ n[k].kind = m[k].kind /\ n[k].key = m[k].key
               /\ n[k].area = m[k].area /\ n[k].tags = m[k].tags
               /\ m[k].id = id => n[k].by = by
         /\ \A x : ActiveAt(n, x) => ActiveAt(m, x) /\ x # id
         /\ \A x : ActiveAt(m, x) /\ x # id => ActiveAt(n, x)
    BY <1>2, <1>3, <1>8, <1>9, SupersedeSound
  <1>11. \A k \in DOMAIN n : n[k].by = NoItem => k \in DOMAIN m /\ n[k] = m[k] /\ m[k].id # id
    <2>1. by # NoItem
      BY <1>9, IdsAre
    <2>2. QED  BY <1>10, <2>1
  <1>12. RecordingSound(n, z)
    <2>1. \E k \in DOMAIN n : n[k].id = z.id /\ n[k].by = NoItem
      BY <1>1, <1>5, <1>8, <1>10 DEF ActiveAt
    <2>2. ASSUME NEW k \in DOMAIN n, n[k].by = NoItem, n[k].kind = "procedural", n[k].key = z.key,
                 n[k].id # z.id
          PROVE  \E j \in DOMAIN z.prior : z.prior[j] = n[k].id
      <3>1. k \in DOMAIN m /\ n[k] = m[k] /\ m[k].id # id
        BY <1>11, <2>2
      <3>2. PICK j \in DOMAIN prior : prior[j] = m[k].id
        <4>1. /\ m[k].by = NoItem /\ m[k].kind = "procedural" /\ m[k].key = s.key
              /\ m[k].id # s.id /\ k \in DOMAIN m
          BY <1>5, <2>2, <3>1
        <4>2. \E j \in DOMAIN s.prior : s.prior[j] = m[k].id
          BY <1>3, <4>1 DEF RecordingSound
        <4>3. QED  BY <1>6, <4>2
      <3>3. j # 1
        BY <1>7, <3>1, <3>2
      <3>4. j - 1 \in DOMAIN z.prior /\ z.prior[j - 1] = m[k].id
        BY <1>5, <1>6, <1>7, <3>2, <3>3
      <3>5. QED  BY <3>1, <3>4
    <2>3. ASSUME NEW j \in DOMAIN z.prior
          PROVE  /\ z.prior[j] # z.id
                 /\ \E k \in DOMAIN n : /\ n[k].id = z.prior[j] /\ n[k].kind = "procedural"
                                        /\ n[k].key = z.key
      <3>1. PICK i \in DOMAIN prior : z.prior[j] = prior[i]
        BY <1>5, <1>6, <1>7, <2>3
      <3>2. prior[i] # s.id /\ \E k \in DOMAIN m : /\ m[k].id = prior[i] /\ m[k].kind = "procedural"
                                                   /\ m[k].key = s.key
        BY <1>3, <1>6, <3>1 DEF RecordingSound
      <3>3. QED  BY <1>5, <1>10, <3>1, <3>2
    <2>4. z.key \in Signatures
          /\ (z.back = "node" => \E p \in Seq(STRING) : z.id = Node(p).id /\ z.key = <<"", p>>)
      BY <1>3, <1>5 DEF RecordingSound
    <2>5. QED  BY <2>1, <2>2, <2>3, <2>4 DEF RecordingSound
  <1>13. Settled(n, torn, z.key)
    BY <1>3, <1>5, <1>11 DEF Settled
  <1>14. ShippedSound'
    BY <1>1, <1>2, <1>10, SoundParts, ShippedKept
  <1>15. Promoting'
    <2>1. CASE s.back = "node"
      <3>1. PICK q \in Seq(STRING) : s.id = Node(q).id /\ s.key = <<"", q>>
        BY <1>3, <2>1 DEF RecordingSound
      <3>2. PICK k \in DOMAIN m : m[k].id = id /\ m[k].kind = "procedural" /\ m[k].key = s.key
        BY <1>3, <1>6, <1>7 DEF RecordingSound
      <3>3. ASSUME NEW p \in Seq(STRING), Node(p).id = id PROVE FALSE
        <4>1. Signed(m[k]) /\ m[k].id = <<"procedural", <<"node">> \o p>>
          BY <1>3, <3>2, <3>3, NodeIs DEF StoreSound
        <4>2. m[k].key = <<"", p>>
          BY <4>1 DEF Signed
        <4>3. p = q
          <5>1. <<"", p>> = <<"", q>>
            BY <3>1, <3>2, <4>2
          <5>2. \A a, b, c, d : <<a, b>> = <<c, d>> => b = d
            OBVIOUS
          <5>3. QED  BY <5>1, <5>2
        <4>4. QED  BY <1>1, <1>8, <3>1, <3>3, <4>3
      <3>4. ASSUME NEW p \in Parents, Cardinality(Leaves(p)) >= min_leaves
            PROVE  (\E j \in DOMAIN nodes' : nodes'[j] = p) \/ ActiveAt(n, Node(p).id)
        <4>1. (\E j \in DOMAIN nodes : nodes[j] = p) \/ ActiveAt(m, Node(p).id)
          BY <1>1, <2>1, <3>4, SoundParts DEF Promoting
        <4>2. p \in Seq(STRING)
          <5>1. PICK r \in DOMAIN m : p = Front(m[r].area)
            BY <1>1, <3>4 DEF Parents
          <5>2. m[r].area \in Seq(STRING)
            BY <1>3, RowIs, EntryFields
          <5>3. QED  BY <5>1, <5>2, FrontTyped
        <4>3. QED  BY <1>2, <1>10, <3>3, <4>1, <4>2
      <3>5. \A j \in DOMAIN n : Leafy(n[j]) => j \in DOMAIN m /\ Leafy(m[j]) /\ m[j].area = n[j].area
        BY <1>11 DEF Leafy
      <3>6. QED  BY <1>1, <1>3, <3>4, <3>5, PromotingStill
    <2>2. CASE s.back # "node"
      BY <1>1, <1>2, <1>5, <2>2 DEF Promoting
    <2>3. QED  BY <2>1, <2>2
  <1>16. KnowledgeForm'
    <2>1. n \in Seq(Entry)
      BY <1>10 DEF StoreSound
    <2>2. QED  BY <1>1, <1>2, <1>5, <2>1, SoundParts DEF KnowledgeForm
  <1>17. DutySound'
    <2>1. duty' = "prior" /\ RecordingSound(memory', skill')
      BY <1>1, <1>2, <1>12
    <2>2. skill'.back = "harvest" => place' # 0
      BY <1>1, <1>2, <1>5, SoundParts DEF DutySound
    <2>3. QED  BY <2>1, <2>2 DEF DutySound
  <1>18. QED
    BY <1>1, <1>2, <1>10, <1>13, <1>14, <1>15, <1>16, <1>17 DEF KnowledgeSound

(* A finite set in an order. *)
LEMMA ListingIs ==
    ASSUME NEW S, IsFiniteSet(S), NEW T, S \subseteq T
    PROVE  /\ SetToSeq(S) \in Seq(T)
           /\ \A x \in S : \E j \in DOMAIN SetToSeq(S) : SetToSeq(S)[j] = x
  <1>1. PICK n \in Nat : n = Cardinality(S)
    BY FS_CardinalityType
  <1>2. PICK g : g \in Bijection(1..n, S)
    BY <1>1, FS_CardinalityType DEF ExistsBijection
  <1>3. g \in [1..n -> S] /\ IsInjective(g)
    BY <1>2 DEF Bijection, Injection, IsInjective
  <1>4. PICK f : f = SetToSeq(S)
    OBVIOUS
  <1>5. f \in [1..n -> S] /\ IsInjective(f)
    <2>1. f = CHOOSE h \in [1..n -> S] : IsInjective(h)
      BY <1>1, <1>4 DEF SetToSeq
    <2>2. QED  BY <1>3, <2>1
  <1>6. f \in Injection(1..n, S)
    BY <1>5 DEF Injection, IsInjective
  <1>7. IsFiniteSet(1..n) /\ Cardinality(1..n) = n
    <2>1. 1 \in Int /\ n \in Int
      BY <1>1
    <2>2. IsFiniteSet(1..n) /\ Cardinality(1..n) = IF 1 > n THEN 0 ELSE n - 1 + 1
      BY <2>1, FS_Interval
    <2>3. QED  BY <1>1, <2>2
  <1>8. f \in Surjection(1..n, S)
    BY <1>1, <1>6, <1>7, FS_Injection
  <1>9. \A x \in S : \E j \in 1..n : f[j] = x
    BY <1>8 DEF Surjection
  <1>10. f \in Seq(T)
    <2>1. f \in [1..n -> T]
      BY <1>5
    <2>2. QED  BY <2>1, SeqDef
  <1>11. DOMAIN f = 1..n
    BY <1>5
  <1>12. QED  BY <1>4, <1>9, <1>10, <1>11

(* There are finitely many parents, each the front of an area. *)
LEMMA ParentsAre ==
    ASSUME memory \in Seq(Entry)
    PROVE  Parents \subseteq Seq(STRING) /\ IsFiniteSet(Parents)
  <1>1. PICK len \in Nat : DOMAIN memory = 1..len /\ \A k \in 1..len : memory[k] \in Entry
    BY RowIs
  <1>2. PICK fronts : fronts = {Front(memory[k].area) : k \in 1..len}
    OBVIOUS
  <1>3. Parents \subseteq fronts
    BY <1>1, <1>2 DEF Parents
  <1>4. fronts \subseteq Seq(STRING)
    BY <1>1, <1>2, EntryFields, FrontTyped
  <1>5. IsFiniteSet(1..len)
    <2>1. 1 \in Int /\ len \in Int
      BY <1>1
    <2>2. QED  BY <2>1, FS_Interval
  <1>6. [k \in 1..len |-> Front(memory[k].area)] \in Surjection(1..len, fronts)
    <2>1. PICK f : f = [k \in 1..len |-> Front(memory[k].area)]
      OBVIOUS
    <2>2. f \in [1..len -> fronts] /\ \A x \in fronts : \E k \in 1..len : f[k] = x
      BY <1>2, <2>1
    <2>3. QED  BY <2>1, <2>2 DEF Surjection
  <1>7. IsFiniteSet(fronts)
    BY <1>5, <1>6, FS_Surjection
  <1>8. QED  BY <1>3, <1>4, <1>7, FS_Subset

LEMMA PromoteSound == ASSUME KnowledgeSound, promote_internal_nodes PROVE KnowledgeSound'
  <1>1. PICK wide : wide = {p \in Parents : Cardinality(Leaves(p)) >= min_leaves}
    OBVIOUS
  <1>2. /\ duty = "idle" /\ nodes' = SetToSeq(wide) /\ duty' = "node"
        /\ UNCHANGED <<memory, merged, place, skill, torn>>
    BY <1>1 DEF promote_internal_nodes
  <1>3. Parents \subseteq Seq(STRING) /\ IsFiniteSet(Parents)
    BY SoundParts, ParentsAre
  <1>4. wide \subseteq Seq(STRING) /\ IsFiniteSet(wide)
    BY <1>1, <1>3, FS_Subset
  <1>5. /\ nodes' \in Seq(Seq(STRING))
        /\ \A x \in wide : \E j \in DOMAIN nodes' : nodes'[j] = x
    BY <1>2, <1>4, ListingIs
  <1>6. Promoting'
    <2>1. ASSUME NEW p \in Parents', Cardinality(Leaves(p)') >= min_leaves
          PROVE  \E j \in DOMAIN nodes' : nodes'[j] = p
      <3>1. Parents' = Parents /\ Leaves(p)' = Leaves(p)
        BY <1>2 DEF Parents, Leaves
      <3>2. QED  BY <1>1, <1>5, <2>1, <3>1
    <2>2. QED  BY <2>1 DEF Promoting
  <1>7. KnowledgeForm'
    BY <1>2, <1>5, SoundParts DEF KnowledgeForm
  <1>8. skill' = NoSkill /\ skill = NoSkill
    BY <1>2, SoundParts
  <1>9. DutySound'
    BY <1>2, <1>8, NoSkillIs DEF DutySound
  <1>10. ShippedSound'
    BY <1>2, SoundParts, ShippedKept
  <1>11. StoreSound(memory') /\ Settled(memory', torn', skill'.key)
    BY <1>2, SoundParts
  <1>12. QED  BY <1>6, <1>7, <1>9, <1>10, <1>11 DEF KnowledgeSound

LEMMA PromoteNodeSound == ASSUME KnowledgeSound, PromoteNode PROVE KnowledgeSound'
  <1>1. PICK p, item, m, n : p = Head(nodes) /\ item = Node(p) /\ m = memory /\ n = memory'
    OBVIOUS
  <1>2. /\ duty = "node" /\ nodes # <<>> /\ record_procedural_skill(item, "node") /\ nodes' = Tail(nodes)
        /\ UNCHANGED <<merged, place, torn>>
    BY <1>1 DEF PromoteNode
  <1>3. /\ nodes' \in Seq(Seq(STRING)) /\ p = nodes[1] /\ p \in Seq(STRING)
        /\ \A j \in DOMAIN nodes : j # 1 => j - 1 \in DOMAIN nodes' /\ nodes'[j - 1] = nodes[j]
    <2>1. nodes \in Seq(Seq(STRING))
      BY SoundParts
    <2>2. 1 \in DOMAIN nodes /\ p = nodes[1]
      BY <1>1, <1>2, <2>1, TailHas
    <2>3. p \in Seq(STRING)
      BY <2>1, <2>2, ElementOfSeq, LenProperties
    <2>4. QED  BY <1>2, <2>1, <2>2, <2>3, TailHas
  <1>4. /\ item \in Entry /\ item.id = <<"procedural", <<"node">> \o p>> /\ item.id = Node(p).id
        /\ item.kind = "procedural" /\ item.key = <<"", p>>
        /\ "area-node" \in item.tags /\ item.by = NoItem /\ Signed(item)
    BY <1>1, <1>3, NodeIs
  <1>5. Written(m, item, n) /\ m \in Seq(Entry)
    <2>1. StoreSound(m) /\ n = put(m, item) /\ m \in Seq(Entry)
      BY <1>1, <1>2, SoundParts DEF record_procedural_skill
    <2>2. QED  BY <1>4, <2>1, PutSound
  <1>6. Promoting'
    <2>1. \A k \in DOMAIN n : Leafy(n[k]) => k \in DOMAIN m /\ Leafy(m[k]) /\ m[k].area = n[k].area
      BY <1>4, <1>5 DEF Leafy, Written
    <2>2. ASSUME NEW q \in Parents, Cardinality(Leaves(q)) >= min_leaves
          PROVE  (\E j \in DOMAIN nodes' : nodes'[j] = q) \/ ActiveAt(n, Node(q).id)
      <3>1. (\E j \in DOMAIN nodes : nodes[j] = q) \/ ActiveAt(m, Node(q).id)
        BY <1>1, <1>2, <2>2, SoundParts DEF Promoting
      <3>2. CASE \E j \in DOMAIN nodes : nodes[j] = q
        <4>1. PICK j \in DOMAIN nodes : nodes[j] = q
          BY <3>2
        <4>2. CASE j = 1
          BY <1>3, <1>4, <1>5, <4>1, <4>2 DEF Written
        <4>3. CASE j # 1
          BY <1>3, <4>1, <4>3
        <4>4. QED  BY <4>2, <4>3
      <3>3. CASE ActiveAt(m, Node(q).id)
        BY <1>5, <3>3 DEF Written
      <3>4. QED  BY <3>1, <3>2, <3>3
    <2>3. QED  BY <1>1, <1>5, <2>1, <2>2, PromotingStill
  <1>7. \E q \in Seq(STRING) : item.id = Node(q).id /\ item.key = <<"", q>>
    BY <1>3, <1>4
  <1>8. "node" \in {"idle", "harvest", "node"} /\ "node" # "harvest" /\ duty # "prior" /\ duty # "forget"
    BY <1>2
  <1>9. PICK source : item.id = <<"procedural", source>>
    BY <1>4
  <1>10. QED  BY <1>2, <1>3, <1>4, <1>6, <1>7, <1>8, <1>9, RecordSound

(* A card that is recorded for another reason than to be a node. *)
LEMMA RecordCard ==
    ASSUME KnowledgeSound, NEW item \in Entry, NEW back \in {"idle", "harvest"},
           record_procedural_skill(item, back), duty \in {"idle", "harvest"},
           item.by = NoItem, item.kind = "procedural", Signed(item),
           NEW source, item.id = <<"procedural", source>>,
           back = "harvest" => place # 0, UNCHANGED <<merged, place, torn, nodes>>
    PROVE  KnowledgeSound'
  <1>1. duty' = "prior" /\ skill'.back = back
    BY DEF record_procedural_skill
  <1>2. Promoting'
    BY <1>1 DEF Promoting
  <1>3. nodes' \in Seq(Seq(STRING))
    BY SoundParts
  <1>4. back \in {"idle", "harvest", "node"} /\ back # "node" /\ duty # "prior" /\ duty # "forget"
    OBVIOUS
  <1>5. QED  BY <1>2, <1>3, <1>4, RecordSound

LEMMA RepairSound == ASSUME KnowledgeSound, RecordRepair PROVE KnowledgeSound'
  <1>0. PICK card \in Cards, commit \in Commits :
           record_procedural_skill(
             Skill(<<"repair">>, derive_skill_key(card.signal, card.target), card.area,
                   IF card.area = <<>> THEN {} ELSE {"area"}, {commit}), "idle")
    BY DEF RecordRepair
  <1>1. PICK tags, refs, item :
           /\ tags = IF card.area = <<>> THEN {} ELSE {"area"}
           /\ refs = {commit}
           /\ item = Skill(<<"repair">>, derive_skill_key(card.signal, card.target), card.area, tags, refs)
           /\ record_procedural_skill(item, "idle")
    BY <1>0
  <1>2. tags \in TagSets /\ refs \in RefSets
    BY <1>1 DEF TagSets, RefSets
  <1>3. PICK source : source = <<"repair">>
    OBVIOUS
  <1>4. /\ item \in Entry /\ item.id = <<"procedural", source>> /\ item.kind = "procedural"
        /\ item.by = NoItem /\ item.key \in Signatures /\ Signed(item)
    <2>1. source \in CardSources
      BY <1>3 DEF CardSources
    <2>2. item = Skill(source, derive_skill_key(card.signal, card.target), card.area, tags, refs)
      BY <1>1, <1>3
    <2>3. QED  BY <1>2, <2>1, <2>2, CardIs
  <1>5. duty = "idle" /\ UNCHANGED <<merged, place, torn, nodes>>
    BY DEF RecordRepair
  <1>6. "idle" \in {"idle", "harvest"} /\ "idle" # "harvest"
    OBVIOUS
  <1>7. QED  BY <1>1, <1>4, <1>5, <1>6, RecordCard

LEMMA HarvestSound == ASSUME KnowledgeSound, harvest_skills_from_merge PROVE KnowledgeSound'
  <1>1. duty = "harvest" /\ place <= Len(merged) /\ UNCHANGED torn /\ place # 0
    BY SoundParts DEF harvest_skills_from_merge, DutySound
  <1>2. ASSUME NEW card \in Cards, Harvest(card), UNCHANGED <<merged, place, nodes>>
        PROVE  KnowledgeSound'
    <2>1. PICK source, tags, refs, item :
             /\ source = <<"harvest", merged[place].pr>> /\ tags = {"area"} /\ refs = {"pr"}
             /\ item = Skill(source, derive_skill_key(card.signal, card.target), card.area, tags, refs)
      OBVIOUS
    <2>2. record_procedural_skill(item, "harvest")
      BY <1>2, <2>1 DEF Harvest
    <2>3. tags \in TagSets /\ refs \in RefSets
      BY <2>1 DEF TagSets, RefSets
    <2>4. merged[place].pr \in Prs
      <3>1. merged \in Seq(Outcome) /\ place \in Nat
        BY SoundParts
      <3>2. place \in 1..Len(merged)
        BY <1>1, <3>1, LenProperties
      <3>3. merged[place] \in Outcome
        BY <3>1, <3>2, ElementOfSeq
      <3>4. QED  BY <3>3 DEF Outcome
    <2>5. source \in CardSources
      BY <2>1, <2>4 DEF CardSources
    <2>6. /\ item \in Entry /\ item.id = <<"procedural", source>> /\ item.kind = "procedural"
          /\ item.by = NoItem /\ item.key \in Signatures /\ Signed(item)
      <3>1. item = Skill(source, derive_skill_key(card.signal, card.target), card.area, tags, refs)
        BY <2>1
      <3>2. QED  BY <2>3, <2>5, <3>1, CardIs
    <2>7. "harvest" \in {"idle", "harvest"} /\ UNCHANGED <<merged, place, torn, nodes>>
      BY <1>1, <1>2
    <2>8. QED  BY <1>1, <2>2, <2>6, <2>7, RecordCard
  <1>3. ASSUME place' = place + 1, UNCHANGED <<memory, duty, merged, nodes, skill>>
        PROVE  KnowledgeSound'
    <2>1. place' \in Nat /\ place' # 0 /\ skill = NoSkill
      BY <1>1, <1>3, SoundParts
    <2>2. KnowledgeForm'
      BY <1>3, <2>1, SoundParts DEF KnowledgeForm
    <2>3. DutySound'
      BY <1>1, <1>3, <2>1, NoSkillIs DEF DutySound
    <2>4. ShippedSound'
      BY <1>1, <1>3, SoundParts, ShippedKept
    <2>5. Promoting'
      BY <1>1, <1>3, <2>1, NoSkillIs DEF Promoting
    <2>6. StoreSound(memory') /\ Settled(memory', torn', skill'.key)
      BY <1>1, <1>3, SoundParts
    <2>7. QED  BY <2>2, <2>3, <2>4, <2>5, <2>6 DEF KnowledgeSound
  <1>4. QED
    BY <1>2, <1>3 DEF harvest_skills_from_merge

(* The item of an episode. *)
LEMMA EpisodeIs ==
    ASSUME NEW n \in Tickets, NEW id \in {Shipped(n), FailedId(n)}, NEW item, item = Item(id, "episodic")
    PROVE  /\ item \in Entry /\ item.id = id /\ item.kind = "episodic" /\ item.by = NoItem
           /\ Signed(item)
  <1>1. id \in ItemIds
    BY IdsAre
  <1>2. <<>> \in Seq(STRING) /\ {} \in TagSets /\ {} \in RefSets
    BY EmptySeq DEF TagSets, RefSets
  <1>3. item = [id |-> id, kind |-> "episodic", key |-> NoItem, area |-> <<>>, tags |-> {},
                refs |-> {}, by |-> NoItem]
    BY DEF Item
  <1>4. item \in Entry
    <2>1. PICK area, tags, refs : area = <<>> /\ tags = {} /\ refs = {}
      OBVIOUS
    <2>2. area \in Seq(STRING) /\ tags \in TagSets /\ refs \in RefSets
      BY <1>2, <2>1
    <2>3. item = [id |-> id, kind |-> "episodic", key |-> NoItem, area |-> area, tags |-> tags,
                  refs |-> refs, by |-> NoItem]
      BY <1>3, <2>1
    <2>4. QED  BY <1>1, <2>2, <2>3 DEF Entry
  <1>5. item.id = id /\ item.kind = "episodic" /\ item.by = NoItem
    BY <1>3
  <1>6. \A source : item.id # <<"procedural", source>>
    BY <1>5, IdsAre
  <1>7. Signed(item)
    BY <1>5, <1>6 DEF Signed
  <1>8. QED  BY <1>4, <1>5, <1>7

(* The record a tick is at. *)
LEMMA RecordAt ==
    ASSUME KnowledgeSound, duty \in {"episode", "forget"}
    PROVE  merged[place].issue \in Tickets /\ place \in 1..Len(merged) /\ place \in DOMAIN merged
  <1>1. merged \in Seq(Outcome) /\ place \in DOMAIN merged
    BY SoundParts DEF DutySound
  <1>2. place \in 1..Len(merged)
    BY <1>1, LenProperties
  <1>3. merged[place] \in Outcome
    BY <1>1, <1>2, ElementOfSeq
  <1>4. QED  BY <1>1, <1>2, <1>3 DEF Outcome

(* Where a tick goes from one record. *)
LEMMA NextRecordIs ==
    ASSUME KnowledgeSound, duty \in {"episode", "forget"}, NextRecord, UNCHANGED merged
    PROVE  /\ place' \in Nat /\ duty' \in {"episode", "harvest"} /\ place' # 0
           /\ duty' = "episode" => place' \in DOMAIN merged'
  <1>1. PICK len \in Nat : len = Len(merged) /\ DOMAIN merged = 1..len
    BY SoundParts, LenProperties
  <1>2. place \in Nat
    BY SoundParts
  <1>3. CASE place < len
    <2>1. duty' = "episode" /\ place' = place + 1
      BY <1>1, <1>3 DEF NextRecord
    <2>2. QED  BY <1>1, <1>2, <1>3, <2>1
  <1>4. CASE ~(place < len)
    BY <1>1, <1>4 DEF NextRecord, Harvesting
  <1>5. QED  BY <1>3, <1>4

(* A step of the tick, while no skill is recorded. *)
LEMMA TickSound ==
    ASSUME KnowledgeSound, duty # "prior", UNCHANGED <<nodes, skill>>, duty' \in {"episode", "forget", "harvest"},
           StoreSound(memory'), Settled(memory', torn', NoItem), ShippedSound',
           merged' \in Seq(Outcome), place' \in Nat, place' # 0,
           duty' \in {"episode", "forget"} => place' \in DOMAIN merged',
           duty' = "forget" => ActiveAt(memory', Shipped(merged'[place'].issue))
    PROVE  KnowledgeSound'
  <1>1. skill = NoSkill /\ skill' = NoSkill
    BY SoundParts
  <1>2. memory' \in Seq(Entry)
    BY DEF StoreSound
  <1>3. KnowledgeForm'
    BY <1>1, <1>2, SoundParts DEF KnowledgeForm
  <1>4. DutySound'
    BY <1>1, NoSkillIs DEF DutySound
  <1>5. Promoting'
    BY <1>1, NoSkillIs DEF Promoting
  <1>6. Settled(memory', torn', skill'.key)
    BY <1>1, NoSkillIs
  <1>7. QED  BY <1>3, <1>4, <1>5, <1>6 DEF KnowledgeSound

(* An episode is no skill. *)
LEMMA SettledEpisode ==
    ASSUME NEW m, NEW n, NEW item, Written(m, item, n), item.kind = "episodic",
           NEW t, NEW key, Settled(m, t, key)
    PROVE  Settled(n, t, key)
  <1>1. \A k \in DOMAIN n : n[k].kind = "procedural" => k \in DOMAIN m /\ n[k] = m[k]
    BY DEF Written
  <1>2. QED  BY <1>1 DEF Settled

LEMMA MergedSound == ASSUME KnowledgeSound, _record_merged_memory PROVE KnowledgeSound'
  <1>1. PICK landed \in SeqOf([issue : Tickets, pr : Prs], 2), refused \in SUBSET Tickets :
           /\ merged' = Where(landed, LAMBDA o : o.issue \notin refused)
           /\ merged' # <<>>
    BY DEF _record_merged_memory
  <1>2. /\ duty = "idle" /\ duty' = "episode" /\ place' = 1 /\ UNCHANGED <<memory, nodes, skill, torn>>
    BY DEF _record_merged_memory
  <1>3. landed \in Seq(Outcome)
    <2>1. PICK n \in 0..2 : landed \in [1..n -> Outcome]
      BY <1>1 DEF SeqOf, Outcome
    <2>2. n \in Nat
      BY <2>1
    <2>3. QED  BY <2>1, <2>2, SeqDef
  <1>4. PICK P : P = {k \in DOMAIN landed : landed[k].issue \notin refused}
    OBVIOUS
  <1>5. merged' = ElementsAt(landed, P)
    BY <1>1, <1>4 DEF Where
  <1>6. merged' \in Seq(Outcome)
    BY <1>3, <1>5, AtElements
  <1>7. 1 \in DOMAIN merged' /\ 1 \in Nat /\ 1 # 0
    <2>1. PICK len \in Nat : len = Len(merged') /\ DOMAIN merged' = 1..len /\ len # 0
      BY <1>1, <1>6, LenProperties, EmptySeq
    <2>2. QED  BY <2>1
  <1>8. ShippedSound'
    BY <1>2, SoundParts, ShippedKept
  <1>9. StoreSound(memory') /\ Settled(memory', torn', NoItem)
    BY <1>2, SoundParts
  <1>10. QED  BY <1>2, <1>6, <1>7, <1>8, <1>9, TickSound

LEMMA EpisodeSound == ASSUME KnowledgeSound, Episode PROVE KnowledgeSound'
  <1>1. duty = "episode" /\ UNCHANGED <<merged, nodes, skill, torn>> /\ duty # "prior"
    BY DEF Episode
  <1>2. PICK t \in Tickets : t = merged[place].issue
    BY <1>1, RecordAt
  <1>3. merged' \in Seq(Outcome) /\ place \in Nat /\ place \in DOMAIN merged /\ place # 0
    <2>1. place \in 1..Len(merged)
      BY <1>1, RecordAt
    <2>2. QED  BY <1>1, <2>1, SoundParts, RecordAt
  <1>4. Settled(memory, torn, NoItem) /\ StoreSound(memory)
    BY <1>1, SoundParts
  <1>5. CASE FirstOf("issue")
    <2>1. memory' = put(memory, Item(Shipped(t), "episodic")) /\ duty' = "forget" /\ UNCHANGED place
      BY <1>2, <1>5 DEF Episode
    <2>2. PICK item, id : id = Shipped(t) /\ item = Item(id, "episodic")
      OBVIOUS
    <2>3. /\ item \in Entry /\ item.id = Shipped(t) /\ item.kind = "episodic" /\ item.by = NoItem
          /\ Signed(item)
      BY <2>2, EpisodeIs
    <2>4. StoreSound(memory') /\ Written(memory, item, memory')
      <3>1. memory' = put(memory, item)
        BY <2>1, <2>2
      <3>2. QED  BY <1>4, <2>3, <3>1, PutSound
    <2>5. Settled(memory', torn', NoItem)
      BY <1>1, <1>4, <2>3, <2>4, SettledEpisode
    <2>6. ActiveAt(memory', Shipped(merged'[place'].issue))
      BY <1>1, <1>2, <2>1, <2>3, <2>4 DEF Written
    <2>7. ShippedSound'
      <3>1. ASSUME NEW u \in Tickets, u # t, ActiveAt(memory', Shipped(u)), ActiveAt(memory', FailedId(u))
            PROVE  <<"ticket", u>> \in torn
        <4>1. Shipped(u) # Shipped(t) /\ FailedId(u) # Shipped(t)
          BY <3>1, IdsAre
        <4>2. ActiveAt(memory, Shipped(u)) /\ ActiveAt(memory, FailedId(u))
          BY <2>3, <2>4, <3>1, <4>1 DEF Written
        <4>3. QED  BY <1>1, <4>2, SoundParts DEF ShippedSound
      <3>2. duty' = "forget" /\ merged'[place'].issue = t /\ torn' = torn
        BY <1>1, <1>2, <2>1
      <3>3. QED  BY <3>1, <3>2 DEF ShippedSound
    <2>8. duty' \in {"episode", "forget", "harvest"} /\ place' \in Nat /\ place' # 0
          /\ place' \in DOMAIN merged' /\ UNCHANGED <<nodes, skill>>
      BY <1>1, <1>3, <2>1
    <2>9. QED  BY <1>1, <1>3, <2>4, <2>5, <2>6, <2>7, <2>8, TickSound
  <1>6. CASE ~FirstOf("issue")
    <2>1. NextRecord /\ UNCHANGED memory
      BY <1>6 DEF Episode
    <2>2. /\ place' \in Nat /\ duty' \in {"episode", "harvest"} /\ place' # 0
          /\ duty' = "episode" => place' \in DOMAIN merged'
      BY <1>1, <2>1, NextRecordIs
    <2>3. ShippedSound'
      BY <1>1, <2>1, SoundParts, ShippedKept
    <2>4. StoreSound(memory') /\ Settled(memory', torn', NoItem)
      BY <1>1, <1>4, <2>1
    <2>5. duty' \in {"episode", "forget", "harvest"} /\ duty' # "forget" /\ UNCHANGED <<nodes, skill>>
      BY <1>1, <2>2
    <2>6. QED  BY <1>1, <1>3, <2>2, <2>3, <2>4, <2>5, TickSound
  <1>7. QED  BY <1>5, <1>6

LEMMA ForgetSound == ASSUME KnowledgeSound, Forget PROVE KnowledgeSound'
  <1>1. duty = "forget" /\ UNCHANGED <<merged, nodes, skill>> /\ NextRecord /\ duty # "prior"
    BY DEF Forget
  <1>2. PICK t \in Tickets : t = merged[place].issue
    BY <1>1, RecordAt
  <1>3. memory' = Forgotten(t) /\ torn' = torn \ {<<"ticket", t>>}
    BY <1>2 DEF Forget
  <1>4. Settled(memory, torn, NoItem) /\ StoreSound(memory) /\ ActiveAt(memory, Shipped(t)) /\ ShippedSound
    BY <1>1, <1>2, SoundParts DEF DutySound
  <1>5. Shipped(t) \in ItemIds /\ FailedId(t) # Shipped(t)
    BY IdsAre
  <1>6. /\ StoreSound(memory') /\ ~ActiveAt(memory', FailedId(t))
        /\ \A x : ActiveAt(memory', x) => ActiveAt(memory, x)
        /\ \A k \in DOMAIN memory' : k \in DOMAIN memory /\ memory'[k].kind = memory[k].kind
               /\ memory'[k].key = memory[k].key
               /\ (memory'[k].by = NoItem => memory[k].by = NoItem)
    <2>1. CASE ActiveAt(memory, FailedId(t))
      <3>1. PICK m, n, id, by : m = memory /\ n = memory' /\ id = FailedId(t) /\ by = Shipped(t)
        OBVIOUS
      <3>2. n = supersede(m, id, by)
        BY <1>3, <2>1, <3>1 DEF Forgotten, ActiveAt, is_active
      <3>3. /\ StoreSound(n) /\ DOMAIN n = DOMAIN m
            /\ \A k \in DOMAIN m :
                  /\ m[k].id # id => n[k] = m[k]
                  /\ n[k].id = m[k].id /\ n[k].kind = m[k].kind /\ n[k].key = m[k].key
                  /\ n[k].area = m[k].area /\ n[k].tags = m[k].tags
                  /\ m[k].id = id => n[k].by = by
            /\ \A x : ActiveAt(n, x) => ActiveAt(m, x) /\ x # id
            /\ \A x : ActiveAt(m, x) /\ x # id => ActiveAt(n, x)
        BY <1>4, <1>5, <3>1, <3>2, SupersedeSound
      <3>4. by # NoItem
        BY <1>5, <3>1, IdsAre
      <3>5. QED  BY <3>1, <3>3, <3>4
    <2>2. CASE ~ActiveAt(memory, FailedId(t))
      <3>1. memory' = memory
        BY <1>3, <2>2 DEF Forgotten, ActiveAt, is_active
      <3>2. QED  BY <1>4, <2>2, <3>1
    <2>3. QED  BY <2>1, <2>2
  <1>7. Settled(memory', torn', NoItem)
    <2>1. \A key : <<"skill", key>> \in torn => <<"skill", key>> \in torn'
      BY <1>3, IdsAre
    <2>2. QED  BY <1>4, <1>6, <2>1 DEF Settled
  <1>8. ShippedSound'
    <2>1. ASSUME NEW u \in Tickets, ActiveAt(memory', Shipped(u)), ActiveAt(memory', FailedId(u))
          PROVE  <<"ticket", u>> \in torn'
      <3>1. u # t
        BY <1>6, <2>1
      <3>2. <<"ticket", u>> \in torn
        BY <1>2, <1>4, <1>6, <2>1, <3>1 DEF ShippedSound
      <3>3. <<"ticket", u>> # <<"ticket", t>>
        BY <3>1
      <3>4. QED  BY <1>3, <3>2, <3>3
    <2>2. QED  BY <2>1 DEF ShippedSound
  <1>9. /\ place' \in Nat /\ duty' \in {"episode", "harvest"} /\ place' # 0
        /\ duty' = "episode" => place' \in DOMAIN merged'
    BY <1>1, NextRecordIs
  <1>10. duty' \in {"episode", "forget", "harvest"} /\ duty' # "forget" /\ UNCHANGED <<nodes, skill>>
         /\ merged' \in Seq(Outcome)
    BY <1>1, <1>9, SoundParts
  <1>11. QED  BY <1>1, <1>6, <1>7, <1>8, <1>9, <1>10, TickSound

LEMMA EpisodeFailsSound == ASSUME KnowledgeSound, EpisodeFails PROVE KnowledgeSound'
  <1>1. /\ duty \in {"episode", "forget"} /\ duty' = "harvest" /\ place' = 1 /\ duty # "prior"
        /\ UNCHANGED <<memory, merged, nodes, skill>>
        /\ torn' = IF duty = "forget" THEN torn \cup {<<"ticket", merged[place].issue>>} ELSE torn
    BY DEF EpisodeFails, Harvesting
  <1>2. ShippedSound'
    BY <1>1, SoundParts, ShippedCut
  <1>3. Settled(memory, torn', NoItem)
    <2>1. Settled(memory, torn, NoItem) /\ torn \subseteq torn'
      BY <1>1, SoundParts
    <2>2. QED  BY <2>1, SettledMore
  <1>4. StoreSound(memory') /\ Settled(memory', torn', NoItem)
    BY <1>1, <1>3, SoundParts
  <1>5. duty' \in {"episode", "forget", "harvest"} /\ UNCHANGED <<nodes, skill>>
        /\ merged' \in Seq(Outcome) /\ place' \in Nat /\ place' # 0 /\ duty' \notin {"episode", "forget"}
    BY <1>1, SoundParts
  <1>6. QED  BY <1>1, <1>2, <1>4, <1>5, TickSound

(* What the operations between ticks leave. *)
LEMMA IdleSound ==
    ASSUME KnowledgeSound, duty = "idle", UNCHANGED <<duty, merged, place, nodes, skill>>,
           StoreSound(memory'), Settled(memory', torn', NoItem), ShippedSound'
    PROVE  KnowledgeSound'
  <1>1. skill = NoSkill /\ skill' = NoSkill
    BY SoundParts
  <1>2. memory' \in Seq(Entry)
    BY DEF StoreSound
  <1>3. KnowledgeForm'
    BY <1>1, <1>2, SoundParts DEF KnowledgeForm
  <1>4. DutySound'
    BY <1>1, SoundParts, NoSkillIs DEF DutySound
  <1>5. Promoting'
    BY <1>1, NoSkillIs DEF Promoting
  <1>6. Settled(memory', torn', skill'.key)
    BY <1>1, NoSkillIs
  <1>7. QED  BY <1>3, <1>4, <1>5, <1>6 DEF KnowledgeSound

LEMMA FailedSound == ASSUME KnowledgeSound, record_failed_outcomes PROVE KnowledgeSound'
  <1>1. duty = "idle" /\ UNCHANGED <<duty, merged, place, nodes, skill>>
    BY DEF record_failed_outcomes
  <1>2. PICK t \in Tickets : /\ memory' = put(memory, Item(FailedId(t), "episodic"))
                             /\ torn' = torn \cup {<<"ticket", t>>}
    BY DEF record_failed_outcomes
  <1>3. PICK item, id : id = FailedId(t) /\ item = Item(id, "episodic")
    OBVIOUS
  <1>4. /\ item \in Entry /\ item.id = FailedId(t) /\ item.kind = "episodic" /\ item.by = NoItem
        /\ Signed(item)
    BY <1>3, EpisodeIs
  <1>5. Settled(memory, torn, NoItem) /\ StoreSound(memory) /\ ShippedSound
    BY <1>1, SoundParts
  <1>6. StoreSound(memory') /\ Written(memory, item, memory')
    <2>1. memory' = put(memory, item)
      BY <1>2, <1>3
    <2>2. QED  BY <1>4, <1>5, <2>1, PutSound
  <1>7. Settled(memory', torn', NoItem)
    <2>1. Settled(memory', torn, NoItem) /\ torn \subseteq torn'
      BY <1>2, <1>4, <1>5, <1>6, SettledEpisode
    <2>2. QED  BY <2>1, SettledMore
  <1>8. ShippedSound'
    <2>1. ASSUME NEW u \in Tickets, ActiveAt(memory', Shipped(u)), ActiveAt(memory', FailedId(u))
          PROVE  <<"ticket", u>> \in torn'
      <3>1. CASE u = t
        BY <1>2, <3>1
      <3>2. CASE u # t
        <4>1. Shipped(u) # FailedId(t) /\ FailedId(u) # FailedId(t)
          BY <3>2, IdsAre
        <4>2. ActiveAt(memory, Shipped(u)) /\ ActiveAt(memory, FailedId(u))
          BY <1>4, <1>6, <2>1, <4>1 DEF Written
        <4>3. QED  BY <1>1, <1>2, <1>5, <4>2 DEF ShippedSound
      <3>3. QED  BY <3>1, <3>2
    <2>2. QED  BY <2>1 DEF ShippedSound
  <1>9. QED  BY <1>1, <1>6, <1>7, <1>8, IdleSound

LEMMA ExpireSound == ASSUME KnowledgeSound, expire_stale_skills PROVE KnowledgeSound'
  <1>1. duty = "idle" /\ UNCHANGED <<duty, merged, place, nodes, skill, torn>>
    BY DEF expire_stale_skills
  <1>2. PICK alive, last : memory' = [k \in DOMAIN memory |->
                       IF k <= last /\ Stale(memory[k], alive)
                       THEN [memory[k] EXCEPT !.tags = @ \cup {"expired"}] ELSE memory[k]]
    BY DEF expire_stale_skills
  <1>3. PICK m, n : m = memory /\ n = memory'
    OBVIOUS
  <1>4. StoreSound(m) /\ m \in Seq(Entry) /\ Settled(m, torn, NoItem)
    BY <1>1, <1>3, SoundParts
  <1>5. PICK len \in Nat : DOMAIN m = 1..len /\ \A k \in 1..len : m[k] \in Entry
    BY <1>4, RowIs
  <1>6. /\ n = [k \in 1..len |-> IF k <= last /\ Stale(m[k], alive)
                                 THEN [m[k] EXCEPT !.tags = @ \cup {"expired"}] ELSE m[k]]
    BY <1>2, <1>3, <1>5
  <1>7. ASSUME NEW k \in 1..len
        PROVE  /\ n[k] \in Entry /\ n[k].id = m[k].id /\ n[k].kind = m[k].kind /\ n[k].key = m[k].key
               /\ n[k].by = m[k].by /\ m[k].tags \subseteq n[k].tags
    <2>1. PICK x \in Entry : x = m[k]
      BY <1>5
    <2>2. CASE k <= last /\ Stale(m[k], alive)
      <3>1. PICK tags : tags = x.tags \cup {"expired"}
        OBVIOUS
      <3>2. tags \in TagSets /\ x.tags \subseteq tags
        <4>1. x.tags \in TagSets
          BY EntryFields
        <4>2. QED  BY <3>1, <4>1 DEF TagSets
      <3>3. n[k] = [x EXCEPT !.tags = tags]
        BY <1>6, <2>1, <2>2, <3>1
      <3>4. /\ n[k] \in Entry /\ n[k].id = x.id /\ n[k].kind = x.kind /\ n[k].key = x.key
            /\ n[k].by = x.by /\ n[k].tags = tags
        BY <3>2, <3>3 DEF Entry
      <3>5. QED  BY <2>1, <3>2, <3>4
    <2>3. CASE ~(k <= last /\ Stale(m[k], alive))
      BY <1>6, <2>1, <2>3
    <2>4. QED  BY <2>2, <2>3
  <1>8. DOMAIN n = 1..len /\ n \in Seq(Entry)
    <2>1. n \in [1..len -> Entry]
      BY <1>6, <1>7
    <2>2. QED  BY <2>1, SeqDef
  <1>9. StoreSound(n) /\ \A x : ActiveAt(n, x) <=> ActiveAt(m, x)
    <2>1. DOMAIN n = DOMAIN m /\
          \A k \in DOMAIN m :
              /\ n[k].id = m[k].id /\ n[k].kind = m[k].kind /\ n[k].key = m[k].key
              /\ n[k].by = m[k].by /\ m[k].tags \subseteq n[k].tags
      BY <1>5, <1>7, <1>8
    <2>2. QED  BY <1>4, <1>8, <2>1, TagsSound
  <1>10. Settled(n, torn, NoItem)
    BY <1>4, <1>5, <1>7, <1>8 DEF Settled
  <1>11. ShippedSound'
    BY <1>1, <1>3, <1>9, SoundParts, ShippedKept
  <1>12. QED  BY <1>1, <1>3, <1>9, <1>10, <1>11, IdleSound

LEMMA HarvestedSound == ASSUME KnowledgeSound, Harvested \/ Promoted PROVE KnowledgeSound'
  <1>1. Rest /\ UNCHANGED <<memory, torn>> /\ duty \in {"harvest", "node"}
    BY DEF Harvested, Promoted
  <1>2. duty # "forget" /\ duty # "prior" /\ \A x \in torn : x \in torn'
    BY <1>1
  <1>3. QED  BY <1>1, <1>2, EndSound

LEMMA KnowledgeStutters == ASSUME KnowledgeSound, UNCHANGED knowledgeVars PROVE KnowledgeSound'
  <1>1. UNCHANGED <<memory, duty, merged, place, nodes, skill, torn>>
    BY DEF knowledgeVars
  <1>2. KnowledgeForm' /\ StoreSound(memory') /\ Settled(memory', torn', skill'.key)
    BY <1>1 DEF KnowledgeSound, KnowledgeForm
  <1>3. DutySound' /\ ShippedSound'
    BY <1>1 DEF KnowledgeSound, DutySound, ShippedSound
  <1>4. Promoting'
    BY <1>1 DEF KnowledgeSound, Promoting, Parents, Leaves
  <1>5. QED  BY <1>2, <1>3, <1>4 DEF KnowledgeSound

LEMMA KnowledgeKept == KnowledgeSound /\ [KnowledgeNext]_knowledgeVars => KnowledgeSound'
  BY SupersedeStep, RecordedSound, MergedSound, EpisodeSound, ForgetSound, EpisodeFailsSound,
     HarvestSound, HarvestedSound, HarvestFailsSound, KnowledgeDies, FailedSound, RepairSound,
     ExpireSound, PromoteSound, PromoteNodeSound, KnowledgeStutters
  DEF KnowledgeNext

(* What the invariant says to a reader. *)
LEMMA KnowledgeShows ==
    KnowledgeSound => KnowledgeTypeOK /\ LineageEnds /\ OneActiveSkill /\ ShippedNotFailed
  <1> SUFFICES ASSUME KnowledgeSound
               PROVE  KnowledgeTypeOK /\ LineageEnds /\ OneActiveSkill /\ ShippedNotFailed
    OBVIOUS
  <1>1. StoreSound(memory) /\ memory \in Seq(Entry)
    BY SoundParts
  <1>2. KnowledgeTypeOK
    <2>1. Cardinality(MemoryIds) = Len(memory)
      BY <1>1, IdsCounted
    <2>2. \A k \in DOMAIN memory : memory[k].by # NoItem => memory[k].by \in MemoryIds
      BY <1>1 DEF StoreSound, MemoryIds
    <2>3. duty = "idle" => merged = <<>> /\ nodes = <<>> /\ skill = NoSkill
      BY SoundParts DEF DutySound
    <2>4. QED  BY <2>1, <2>2, <2>3, SoundParts DEF KnowledgeTypeOK
  <1>3. LineageEnds
    BY <1>1 DEF StoreSound, Linear, LineageEnds
  <1>4. OneActiveSkill
    <2>1. Settled(memory, torn, skill.key)
      BY SoundParts
    <2>2. ASSUME NEW k \in DOMAIN memory, NEW l \in DOMAIN memory,
                 k # l, {memory[k].kind, memory[l].kind} = {"procedural"},
                 is_active(memory[k]), is_active(memory[l]), memory[k].key = memory[l].key
          PROVE  <<"skill", memory[k].key>> \in torn \/ memory[k].key = skill.key
      <3>1. memory[k].kind = "procedural" /\ memory[l].kind = "procedural"
        BY <2>2
      <3>2. memory[k].by = NoItem /\ memory[l].by = NoItem
        BY <2>2 DEF is_active
      <3>3. QED  BY <2>1, <2>2, <3>1, <3>2 DEF Settled
    <2>3. QED  BY <2>2 DEF OneActiveSkill
  <1>5. ShippedNotFailed
    <2>1. ASSUME NEW t \in Tickets, NEW active,
                 active = {memory[k].id : k \in {l \in DOMAIN memory : is_active(memory[l])}},
                 {Shipped(t), FailedId(t)} \subseteq active
          PROVE  <<"ticket", t>> \in torn \/ (duty = "forget" /\ merged[place].issue = t)
      <3>1. \A id \in active : ActiveAt(memory, id)
        BY <2>1 DEF ActiveAt, is_active
      <3>2. ActiveAt(memory, Shipped(t)) /\ ActiveAt(memory, FailedId(t))
        BY <2>1, <3>1
      <3>3. QED  BY <3>2, SoundParts DEF ShippedSound
    <2>2. QED  BY <2>1 DEF ShippedNotFailed
  <1>6. QED  BY <1>2, <1>3, <1>4, <1>5

(* A promotion that ends, and was not cut, has promoted what it found. *)
LEMMA PromotionEnds ==
    ASSUME KnowledgeSound, [KnowledgeNext]_knowledgeVars
    PROVE  [duty = "node" /\ nodes = <<>> /\ duty' = "idle" /\ UNCHANGED odd =>
              \A p \in Parents :
                 Cardinality(Leaves(p)) >= min_leaves =>
                     \E k \in DOMAIN memory : memory[k].id = Node(p).id /\ is_active(memory[k])]_knowledgeVars
  <1> SUFFICES ASSUME duty = "node", nodes = <<>>, NEW p \in Parents, Cardinality(Leaves(p)) >= min_leaves
               PROVE  \E k \in DOMAIN memory : memory[k].id = Node(p).id /\ is_active(memory[k])
    OBVIOUS
  <1>1. (\E j \in DOMAIN nodes : nodes[j] = p) \/ ActiveAt(memory, Node(p).id)
    BY SoundParts DEF Promoting
  <1>2. DOMAIN nodes = {}
    OBVIOUS
  <1>3. QED  BY <1>1, <1>2 DEF ActiveAt, is_active

(* What the memory can be relied on to teach. *)
THEOREM KnowledgeIsSafe == KnowledgeSpec => KnowledgeSafe
  <1>1. KnowledgeSpec => []KnowledgeSound
    BY InitKnowledge, KnowledgeKept, PTL DEF KnowledgeSpec
  <1>2. KnowledgeSpec => [](KnowledgeTypeOK /\ LineageEnds /\ OneActiveSkill /\ ShippedNotFailed)
    BY <1>1, KnowledgeShows, PTL
  <1>3. KnowledgeSpec => PromotionCovers
    <2>1. KnowledgeSound /\ [KnowledgeNext]_knowledgeVars =>
            [duty = "node" /\ nodes = <<>> /\ duty' = "idle" /\ UNCHANGED odd =>
              \A p \in Parents :
                 Cardinality(Leaves(p)) >= min_leaves =>
                     \E k \in DOMAIN memory : memory[k].id = Node(p).id /\ is_active(memory[k])]_knowledgeVars
      BY PromotionEnds
    <2>2. QED  BY <1>1, <2>1, PTL DEF KnowledgeSpec, PromotionCovers
  <1>4. QED  BY <1>2, <1>3, PTL DEF KnowledgeSafe

-----------------------------------------------------------------------------
(* The runs.  A worker writes its start before its end, and those who read the  *)
(* file find it.                                                               *)

Dirs == DOMAIN Has
LineSet == [kind : {"worker_start", "worker_toolchain_unavailable", "worker_done", "worker_failed"},
            issue : RunIssues, age : Nat]
MaySay == {"worker_start", "worker_toolchain_unavailable", "worker_done", "worker_failed"}
Places == {"idle", "prep", "preflight", "brief", "options", "stream", "codex", "close", "returned"}
Within == {"preflight", "brief", "options", "stream", "codex", "close"}
Sids == {"none", "init", "result"}

(* The lines a run may still write. *)
Room ==
    /\ lines \in Seq(LineSet) /\ Len(lines) <= MaxFileLines
    /\ at = "prep" => Len(lines) + 2 <= MaxFileLines
    /\ at \in Within => Len(lines) + 1 <= MaxFileLines

(* A run past its start wrote it, or failed to. *)
StartShown == at \in Within /\ sdkFaults = 0 => \E k \in DOMAIN lines : OwnStart(k)

PathSound ==
    at \in {"brief", "options", "codex"} =>
        \E base \in Paths, declared \in Declared :
            path = [path |-> build_worker_env(base, declared), declared |-> declared]

SdkSound ==
    /\ at \in Places /\ (open => at = "stream") /\ final.text \in FinalTexts /\ sid \in Sids
    /\ sdkFaults \in 0..MaxSdkFaults /\ (at \in Within \cup {"prep"} => issue \in RunIssues)
    /\ Room /\ StartShown /\ PathSound /\ FailureIsTold

LEMMA SdkBounds == Extended \in Nat /\ MaxFileLines \in Nat /\ MaxSdkFaults \in Nat
  BY SdkAssumption

LEMMA InitSdk == SdkInit => SdkSound
  <1> SUFFICES ASSUME SdkInit PROVE SdkSound
    OBVIOUS
  <1>1. lines \in Seq(LineSet) /\ Len(lines) = 0
    BY EmptySeq DEF SdkInit
  <1>2. /\ final.text = "none" /\ ended.failure = "none"
    BY DEF SdkInit, NoText, NoOutcomeYet
  <1>3. Room
    BY <1>1, SdkBounds DEF Room, SdkInit, Within
  <1>4. StartShown /\ PathSound /\ FailureIsTold
    BY <1>2 DEF SdkInit, Within, StartShown, PathSound, FailureIsTold
  <1>5. sdkFaults \in 0..MaxSdkFaults
    BY SdkBounds DEF SdkInit
  <1>6. QED  BY <1>2, <1>3, <1>4, <1>5 DEF SdkSound, SdkInit, Places, FinalTexts, Sids, Within

(* What one line more leaves, when it is the last of its run. *)
LEMMA EmitIs ==
    ASSUME SdkSound, NEW kind \in MaySay, _emit_worker_event(kind), issue \in RunIssues,
           NEW len \in Nat, Len(lines) = len
    PROVE  /\ lines' \in Seq(LineSet) /\ Len(lines') <= len + 1
           /\ sdkFaults' \in 0..MaxSdkFaults
           /\ kind = "worker_start" /\ UNCHANGED issue /\ sdkFaults' = 0
                => \E k \in DOMAIN lines' : OwnStart(k)'
  <1>1. lines \in Seq(LineSet) /\ sdkFaults \in 0..MaxSdkFaults
    BY DEF SdkSound, Room
  <1>2. CASE lines' = Append(lines, Line_(kind)) /\ UNCHANGED sdkFaults
    <2>1. PICK line : line = Line_(kind)
      OBVIOUS
    <2>2. line = [kind |-> kind, issue |-> issue, age |-> 0]
      BY <2>1 DEF Line_
    <2>3. line \in LineSet /\ line.kind = kind /\ line.issue = issue
      BY <2>2 DEF LineSet, MaySay
    <2>4. /\ lines' \in Seq(LineSet) /\ Len(lines') = len + 1 /\ lines'[len + 1] = line
          /\ DOMAIN lines' = 1..(len + 1)
      BY <1>1, <1>2, <2>1, <2>3, AppendProperties, LenProperties
    <2>5. ASSUME kind = "worker_start", UNCHANGED issue PROVE \E k \in DOMAIN lines' : OwnStart(k)'
      <3>1. len + 1 \in DOMAIN lines'
        BY <2>4
      <3>2. \A l \in (len + 1 + 1)..Len(lines') : lines'[l].issue # issue'
        BY <2>4
      <3>3. OwnStart(len + 1)'
        BY <2>3, <2>4, <2>5, <3>2 DEF OwnStart
      <3>4. QED  BY <3>1, <3>3
    <2>6. QED  BY <1>1, <1>2, <2>4, <2>5
  <1>3. CASE SdkFault /\ UNCHANGED lines
    <2>1. sdkFaults < MaxSdkFaults /\ sdkFaults' = sdkFaults + 1
      BY <1>3 DEF SdkFault
    <2>2. sdkFaults' \in 0..MaxSdkFaults /\ sdkFaults' # 0
      BY <1>1, <2>1, SdkBounds
    <2>3. QED  BY <1>1, <1>3, <2>2
  <1>4. QED  BY <1>2, <1>3 DEF _emit_worker_event

(* A fault is one of those the bound allows. *)
LEMMA FaultIs ==
    ASSUME SdkSound, SdkFault
    PROVE  sdkFaults' \in 0..MaxSdkFaults /\ sdkFaults' # 0
  <1>1. sdkFaults \in 0..MaxSdkFaults /\ sdkFaults < MaxSdkFaults /\ sdkFaults' = sdkFaults + 1
    BY DEF SdkSound, SdkFault
  <1>2. QED  BY <1>1, SdkBounds

(* What the invariant says, part by part. *)
LEMMA SdkParts ==
    ASSUME SdkSound
    PROVE  /\ at \in Places /\ (open => at = "stream") /\ final.text \in FinalTexts /\ sid \in Sids
           /\ sdkFaults \in 0..MaxSdkFaults /\ (at \in Within \cup {"prep"} => issue \in RunIssues)
           /\ lines \in Seq(LineSet) /\ Len(lines) \in Nat /\ Len(lines) <= MaxFileLines
           /\ at = "prep" => Len(lines) + 2 <= MaxFileLines
           /\ at \in Within => Len(lines) + 1 <= MaxFileLines
           /\ StartShown /\ PathSound /\ FailureIsTold
  BY LenProperties DEF SdkSound, Room

(* A run that is over. *)
LEMMA OverSound ==
    ASSUME SdkSound, Over, lines' \in Seq(LineSet), Len(lines') <= MaxFileLines,
           sdkFaults' \in 0..MaxSdkFaults, FailureIsTold'
    PROVE  SdkSound'
  <1>1. /\ at' = "returned" /\ open' = FALSE /\ sid' = "none" /\ final' = NoText
    BY DEF Over
  <1>2. at' \in Places /\ at' \notin Within \cup {"prep"} /\ at' \notin {"brief", "options", "codex"}
        /\ sid' \in Sids /\ ~open'
    BY <1>1 DEF Places, Within, Sids
  <1>3. final'.text \in FinalTexts
    BY <1>1 DEF NoText, FinalTexts
  <1>4. Room' /\ StartShown' /\ PathSound'
    BY <1>2 DEF Room, StartShown, PathSound
  <1>5. QED  BY <1>2, <1>3, <1>4 DEF SdkSound

(* A step within a run that writes nothing. *)
LEMMA WithinSound ==
    ASSUME SdkSound, at \in Within, at' \in Within, UNCHANGED <<issue, lines, ended>>,
           sdkFaults' \in 0..MaxSdkFaults, sdkFaults' = 0 => sdkFaults = 0,
           open' => at' = "stream", final'.text \in FinalTexts, sid' \in Sids, PathSound'
    PROVE  SdkSound'
  <1>1. at' \in Places
    BY DEF Within, Places
  <1>2. Room'
    <2>1. at' # "prep"
      BY DEF Within
    <2>2. QED  BY <2>1, SdkParts DEF Room
  <1>3. StartShown'
    BY SdkParts DEF StartShown, OwnStart
  <1>4. FailureIsTold' /\ issue' \in RunIssues
    BY SdkParts DEF FailureIsTold
  <1>5. QED  BY <1>1, <1>2, <1>3, <1>4 DEF SdkSound

LEMMA PrepareSound == ASSUME SdkSound, Prepare PROVE SdkSound'
  <1>1. at = "prep" /\ issue \in RunIssues /\ Len(lines) + 2 <= MaxFileLines
    BY SdkParts DEF Prepare
  <1>2. PICK len \in Nat : len = Len(lines)
    BY SdkParts
  <1>3. CASE /\ _emit_worker_event("worker_start")
             /\ at' = "preflight" /\ UNCHANGED <<issue, path, options, sessionRead, ended>>
    <2>1. UNCHANGED <<open, final, sid>>
      BY <1>3 DEF sessionRead
    <2>2. "worker_start" \in MaySay
      BY DEF MaySay
    <2>3. /\ lines' \in Seq(LineSet) /\ Len(lines') <= len + 1 /\ sdkFaults' \in 0..MaxSdkFaults
          /\ sdkFaults' = 0 => \E k \in DOMAIN lines' : OwnStart(k)'
      BY <1>1, <1>2, <1>3, <2>2, EmitIs
    <2>4. Room'
      <3>1. PICK n \in Nat : n = Len(lines')
        BY <2>3, LenProperties
      <3>2. n <= len + 1 /\ len + 2 <= MaxFileLines
        BY <1>1, <1>2, <2>3, <3>1
      <3>3. n <= MaxFileLines /\ n + 1 <= MaxFileLines
        BY <3>2, SdkBounds
      <3>4. QED  BY <1>3, <2>3, <3>1, <3>3 DEF Room
    <2>5. StartShown'
      BY <2>3 DEF StartShown
    <2>6. PathSound' /\ FailureIsTold'
      BY <1>3, SdkParts DEF PathSound, FailureIsTold
    <2>7. at' \in Places /\ ~open' /\ issue' \in RunIssues
      BY <1>1, <1>3, <2>1, SdkParts DEF Places
    <2>8. final'.text \in FinalTexts /\ sid' \in Sids
      BY <2>1, SdkParts
    <2>9. QED  BY <2>3, <2>4, <2>5, <2>6, <2>7, <2>8 DEF SdkSound
  <1>4. CASE SdkFault /\ Over /\ Failed("failed") /\ UNCHANGED lines
    <2>1. sdkFaults' \in 0..MaxSdkFaults
      BY <1>4, FaultIs
    <2>2. FailureIsTold'
      BY <1>4 DEF Failed, NoOutcomeYet, FailureIsTold
    <2>3. QED  BY <1>4, <2>1, <2>2, SdkParts, OverSound
  <1>5. QED  BY <1>3, <1>4 DEF Prepare

(* A run that says its end, and is over. *)
LEMMA LastLine ==
    ASSUME SdkSound, at \in Within, NEW kind \in MaySay, _emit_worker_event(kind), Over, FailureIsTold'
    PROVE  SdkSound'
  <1>1. PICK len \in Nat : len = Len(lines)
    BY SdkParts
  <1>2. issue \in RunIssues /\ len + 1 <= MaxFileLines
    BY <1>1, SdkParts
  <1>3. lines' \in Seq(LineSet) /\ Len(lines') <= len + 1 /\ sdkFaults' \in 0..MaxSdkFaults
    BY <1>1, <1>2, EmitIs
  <1>4. PICK n \in Nat : n = Len(lines')
    BY <1>3, LenProperties
  <1>5. n <= MaxFileLines
    BY <1>2, <1>3, <1>4, SdkBounds
  <1>6. QED  BY <1>3, <1>4, <1>5, OverSound

LEMMA PreflightSound == ASSUME SdkSound, _preflight PROVE SdkSound'
  <1>1. at = "preflight" /\ at \in Within
    BY DEF _preflight, Within
  <1>2. PICK base \in Paths, declared \in Declared :
           \/ _emit_worker_event("worker_toolchain_unavailable") /\ Over /\ Failed("failed")
           \/ /\ at' = "brief"
              /\ path' = [path |-> build_worker_env(base, declared), declared |-> declared]
              /\ UNCHANGED <<issue, options, sessionRead, ended, lines, sdkFaults>>
    BY DEF _preflight
  <1>3. CASE _emit_worker_event("worker_toolchain_unavailable") /\ Over /\ Failed("failed")
    <2>1. FailureIsTold'
      BY <1>3 DEF Failed, NoOutcomeYet, FailureIsTold
    <2>2. "worker_toolchain_unavailable" \in MaySay
      BY DEF MaySay
    <2>3. QED  BY <1>1, <1>3, <2>1, <2>2, LastLine
  <1>4. CASE /\ at' = "brief" /\ path' = [path |-> build_worker_env(base, declared), declared |-> declared]
             /\ UNCHANGED <<issue, options, sessionRead, ended, lines, sdkFaults>>
    <2>1. UNCHANGED <<open, final, sid>> /\ at' \in Within
      BY <1>4 DEF sessionRead, Within
    <2>2. PathSound'
      BY <1>2, <1>4 DEF PathSound
    <2>3. ~open'
      BY <1>1, <2>1, SdkParts
    <2>4. QED  BY <1>1, <1>4, <2>1, <2>2, <2>3, SdkParts, WithinSound
  <1>5. QED  BY <1>2, <1>3, <1>4

(* What ends a run in a failure that nobody is told of. *)
LEMMA LostSound ==
    ASSUME SdkSound, SdkFault, Over, UNCHANGED <<ended, lines>>
    PROVE  SdkSound'
  <1>1. sdkFaults' \in 0..MaxSdkFaults
    BY FaultIs
  <1>2. FailureIsTold'
    BY SdkParts DEF FailureIsTold
  <1>3. QED  BY <1>1, <1>2, SdkParts, OverSound

LEMMA BriefSound == ASSUME SdkSound, Brief PROVE SdkSound'
  <1>1. CASE /\ at' \in {"options", "codex"}
             /\ UNCHANGED <<issue, path, options, sessionRead, ended, lines, sdkFaults>>
    <2>1. UNCHANGED <<open, final, sid>> /\ at' \in Within /\ at \in Within /\ at = "brief"
      BY <1>1 DEF Brief, sessionRead, Within
    <2>2. PathSound'
      BY <1>1, <2>1, SdkParts DEF PathSound
    <2>3. ~open'
      BY <2>1, SdkParts
    <2>4. QED  BY <1>1, <2>1, <2>2, <2>3, SdkParts, WithinSound
  <1>2. QED  BY <1>1, LostSound DEF Brief

LEMMA CodexSound == ASSUME SdkSound, _run_codex PROVE SdkSound'
  <1>1. at \in Within
    BY DEF _run_codex, Within
  <1>2. ASSUME NEW status, Done([NoOutcomeYet EXCEPT !.status = status, !.pr = status = "open"])
        PROVE  SdkSound'
    <2>1. FailureIsTold'
      BY <1>2 DEF Done, NoOutcomeYet, FailureIsTold
    <2>2. "worker_done" \in MaySay /\ _emit_worker_event("worker_done") /\ Over
      BY <1>2 DEF Done, MaySay
    <2>3. QED  BY <1>1, <2>1, <2>2, LastLine
  <1>3. QED  BY <1>2, LostSound DEF _run_codex

LEMMA OptionsSound == ASSUME SdkSound, _options PROVE SdkSound'
  <1>1. at = "options" /\ at \in Within
    BY DEF _options, Within
  <1>2. CASE /\ at' = "stream" /\ open' = TRUE /\ path' = NoPath
             /\ UNCHANGED <<issue, heard, sid, final, failure, ended, lines, sdkFaults>>
    <2>1. at' \in Within /\ PathSound'
      BY <1>2 DEF Within, PathSound
    <2>2. QED  BY <1>1, <1>2, <2>1, SdkParts, WithinSound
  <1>3. CASE SdkFault /\ Over /\ lines' = Append(lines, Line_("worker_failed")) /\ UNCHANGED ended
    <2>1. sdkFaults' \in 0..MaxSdkFaults
      BY <1>3, FaultIs
    <2>2. FailureIsTold'
      BY <1>3, SdkParts DEF FailureIsTold
    <2>3. PICK len \in Nat : len = Len(lines) /\ len + 1 <= MaxFileLines
      BY <1>1, SdkParts
    <2>4. PICK line : line = Line_("worker_failed")
      OBVIOUS
    <2>5. line \in LineSet
      <3>1. issue \in RunIssues
        BY <1>1, SdkParts
      <3>2. line = [kind |-> "worker_failed", issue |-> issue, age |-> 0]
        BY <2>4 DEF Line_
      <3>3. QED  BY <3>1, <3>2 DEF LineSet
    <2>6. lines' \in Seq(LineSet) /\ Len(lines') = len + 1
      BY <1>3, <2>3, <2>4, <2>5, SdkParts, AppendProperties
    <2>7. QED  BY <1>3, <2>1, <2>2, <2>3, <2>6, OverSound
  <1>4. QED  BY <1>2, <1>3 DEF _options

LEMMA StreamSound == ASSUME SdkSound, InitMessage \/ ResultMessage_ \/ StreamEnds PROVE SdkSound'
  <1>1. at = "stream" /\ at \in Within /\ UNCHANGED <<issue, lines, ended>>
    BY DEF InitMessage, ResultMessage_, StreamEnds, Reading, Within
  <1>2. CASE InitMessage
    <2>1. at' = "stream" /\ sid' \in {"none", "init"} /\ UNCHANGED <<open, final, sdkFaults>>
      BY <1>1, <1>2 DEF InitMessage
    <2>2. at' \in Within /\ sid' \in Sids /\ PathSound'
      BY <2>1 DEF Within, Sids, PathSound
    <2>3. QED  BY <1>1, <2>1, <2>2, SdkParts, WithinSound
  <1>3. CASE ResultMessage_
    <2>1. PICK text \in FinalTexts, is_error \in BOOLEAN : final' = [text |-> text, is_error |-> is_error]
      BY <1>3 DEF ResultMessage_
    <2>2. final'.text \in FinalTexts
      BY <2>1
    <2>3. at' = "stream" /\ sid' \in {sid, "result"} /\ UNCHANGED <<open, sdkFaults>>
      BY <1>1, <1>3 DEF ResultMessage_
    <2>4. at' \in Within /\ sid' \in Sids /\ PathSound'
      BY <2>3, SdkParts DEF Within, Sids, PathSound
    <2>5. QED  BY <1>1, <2>2, <2>3, <2>4, SdkParts, WithinSound
  <1>4. CASE StreamEnds
    <2>1. /\ at' = "close" /\ open' = FALSE /\ UNCHANGED <<final, sid>>
          /\ SdkFault \/ UNCHANGED sdkFaults
      BY <1>4 DEF StreamEnds, _aclose_stream
    <2>2. sdkFaults' \in 0..MaxSdkFaults /\ (sdkFaults' = 0 => sdkFaults = 0)
      BY <2>1, SdkParts, FaultIs
    <2>3. at' \in Within /\ PathSound'
      BY <2>1 DEF Within, PathSound
    <2>4. QED  BY <1>1, <2>1, <2>2, <2>3, SdkParts, WithinSound
  <1>5. QED  BY <1>2, <1>3, <1>4

(* The session is over: what went wrong is in the line that ends the run. *)
LEMMA OverIsTold == ASSUME SdkSound, SessionOver PROVE SdkSound'
  <1>1. at = "close" /\ at \in Within
    BY DEF SessionOver, Within
  <1>2. PICK said, o : /\ o = [status |-> Status_(said, final.is_error, failure), pr |-> said.pr,
                               sid |-> SessionId, failure |-> failure]
                       /\ Done(o)
    BY DEF SessionOver
  <1>3. ended' = o /\ o.failure = failure /\ o.pr = said.pr
        /\ o.status = Status_(said, final.is_error, failure)
    BY <1>2 DEF Done
  <1>4. FailureIsTold'
    BY <1>3 DEF FailureIsTold, Status_
  <1>5. "worker_done" \in MaySay /\ _emit_worker_event("worker_done") /\ Over
    BY <1>2 DEF Done, MaySay
  <1>6. QED  BY <1>1, <1>4, <1>5, LastLine

(* A step between runs, or at their edges, that writes nothing. *)
LEMMA EdgeSound ==
    ASSUME SdkSound, UNCHANGED <<lines, sdkFaults, open, final, sid>>, at # "stream",
           at' \in {"idle", "prep"}, FailureIsTold',
           at' = "prep" => issue' \in RunIssues /\ Len(lines) + 2 <= MaxFileLines
    PROVE  SdkSound'
  <1>1. at' \in Places /\ at' \notin Within
    BY DEF Places, Within
  <1>2. Room' /\ StartShown' /\ PathSound'
    BY <1>1, SdkParts DEF Room, StartShown, PathSound
  <1>3. QED  BY <1>1, <1>2, SdkParts DEF SdkSound

LEMMA DispatchSound == ASSUME SdkSound, NEW i \in RunIssues, Dispatch(i) PROVE SdkSound'
  <1>1. /\ at = "idle" /\ Len(lines) + 2 <= MaxFileLines /\ at' = "prep" /\ issue' = i
        /\ UNCHANGED <<open, final, sid, ended, lines, sdkFaults>>
    BY DEF Dispatch, sessionRead
  <1>2. FailureIsTold'
    BY <1>1, SdkParts DEF FailureIsTold
  <1>3. QED  BY <1>1, <1>2, EdgeSound

LEMMA CollectedSound == ASSUME SdkSound, Collected PROVE SdkSound'
  <1>1. /\ at = "returned" /\ at' = "idle" /\ ended' = NoOutcomeYet
        /\ UNCHANGED <<open, final, sid, lines, sdkFaults>>
    BY DEF Collected, sessionRead
  <1>2. FailureIsTold'
    BY <1>1 DEF FailureIsTold, NoOutcomeYet
  <1>3. QED  BY <1>1, <1>2, EdgeSound

(* Lines only grow older. *)
LEMMA ClockSound == ASSUME SdkSound, ClockTicks PROVE SdkSound'
  <1>1. UNCHANGED <<at, issue, path, open, final, sid, ended, sdkFaults>>
    BY DEF ClockTicks, sessionRead
  <1>2. PICK len \in Nat : len = Len(lines) /\ DOMAIN lines = 1..len /\ \A k \in 1..len : lines[k] \in LineSet
    BY SdkParts, ElementOfSeq, LenProperties
  <1>3. lines' = [k \in 1..len |-> [lines[k] EXCEPT !.age = IF @ > Extended THEN @ ELSE @ + 1]]
    BY <1>2 DEF ClockTicks
  <1>4. ASSUME NEW k \in 1..len
        PROVE  lines'[k] \in LineSet /\ lines'[k].kind = lines[k].kind /\ lines'[k].issue = lines[k].issue
    <2>1. PICK line \in LineSet : line = lines[k]
      BY <1>2
    <2>2. PICK age : age = IF line.age > Extended THEN line.age ELSE line.age + 1
      OBVIOUS
    <2>3. age \in Nat
      <3>1. line.age \in Nat
        BY DEF LineSet
      <3>2. QED  BY <2>2, <3>1
    <2>4. lines'[k] = [line EXCEPT !.age = age]
      BY <1>3, <2>1, <2>2
    <2>5. lines'[k] \in LineSet /\ lines'[k].kind = line.kind /\ lines'[k].issue = line.issue
      BY <2>3, <2>4 DEF LineSet
    <2>6. QED  BY <2>1, <2>5
  <1>5. lines' \in Seq(LineSet) /\ Len(lines') = len /\ DOMAIN lines' = 1..len
    <2>1. lines' \in [1..len -> LineSet]
      BY <1>3, <1>4
    <2>2. lines' \in Seq(LineSet)
      BY <2>1, SeqDef
    <2>3. QED  BY <2>1, <2>2, LenProperties
  <1>6. Room'
    BY <1>1, <1>2, <1>5, SdkParts DEF Room
  <1>7. StartShown'
    <2>1. ASSUME at \in Within, sdkFaults = 0 PROVE \E k \in DOMAIN lines' : OwnStart(k)'
      <3>1. PICK k \in DOMAIN lines : OwnStart(k)
        BY <2>1, SdkParts DEF StartShown
      <3>2. k \in Nat /\ k \in 1..len
        BY <1>2, <3>1
      <3>3. lines'[k].kind = "worker_start" /\ lines'[k].issue = issue'
        BY <1>1, <1>4, <3>1, <3>2 DEF OwnStart
      <3>4. ASSUME NEW l \in (k + 1)..len PROVE lines'[l].issue # issue'
        <4>1. l \in 1..len
          BY <3>2
        <4>2. lines[l].issue # issue
          BY <1>2, <3>1 DEF OwnStart
        <4>3. QED  BY <1>1, <1>4, <4>1, <4>2
      <3>5. OwnStart(k)'
        BY <1>5, <3>3, <3>4 DEF OwnStart
      <3>6. QED  BY <1>5, <3>2, <3>5
    <2>2. QED  BY <1>1, <2>1 DEF StartShown
  <1>8. PathSound' /\ FailureIsTold'
    BY <1>1, SdkParts DEF PathSound, FailureIsTold
  <1>9. QED  BY <1>1, <1>5, <1>6, <1>7, <1>8, SdkParts DEF SdkSound

LEMMA SdkStutters == ASSUME SdkSound, UNCHANGED sdkVars PROVE SdkSound'
  <1>1. UNCHANGED <<at, issue, path, open, final, sid, ended, lines, sdkFaults>>
    BY DEF sdkVars
  <1>2. Room' /\ StartShown' /\ PathSound' /\ FailureIsTold'
    BY <1>1, SdkParts DEF Room, StartShown, PathSound, FailureIsTold, OwnStart
  <1>3. QED  BY <1>1, <1>2, SdkParts DEF SdkSound

LEMMA SdkKept == SdkSound /\ [SdkNext]_sdkVars => SdkSound'
  <1> SUFFICES ASSUME SdkSound, [SdkNext]_sdkVars PROVE SdkSound'
    OBVIOUS
  <1>1. CASE Run
    BY <1>1, PrepareSound, PreflightSound, BriefSound, CodexSound, OptionsSound, StreamSound, OverIsTold,
       CollectedSound DEF Run
  <1>2. CASE ProcessDies
    BY <1>2, LostSound DEF ProcessDies
  <1>3. CASE (\E i \in RunIssues : Dispatch(i)) \/ ClockTicks
    BY <1>3, DispatchSound, ClockSound
  <1>4. QED  BY <1>1, <1>2, <1>3, SdkStutters DEF SdkNext

(* What the invariant says of the readers of the file. *)
LEMMA OwnIsShown ==
    ASSUME SdkSound, at \in Within, NEW k \in DOMAIN lines, OwnStart(k), lines[k].age <= Extended
    PROVE  issue \in _compute_in_flight
  <1>1. PICK len \in Nat : len = Len(lines) /\ DOMAIN lines = 1..len
    BY SdkParts, LenProperties
  <1>2. PICK met : met = {l \in DOMAIN lines : InWindow(lines[l])}
    OBVIOUS
  <1>3. k \in met
    BY <1>2 DEF InWindow
  <1>4. ASSUME NEW l \in met, l > k PROVE lines[l].issue # issue
    <2>1. l \in 1..len /\ k \in 1..len
      BY <1>1, <1>2
    <2>2. l \in (k + 1)..Len(lines)
      BY <1>1, <1>4, <2>1
    <2>3. QED  BY <2>2 DEF OwnStart
  <1>5. issue \in RunIssues /\ lines[k].kind = "worker_start" /\ lines[k].issue = issue
    BY SdkParts DEF OwnStart
  <1>6. QED  BY <1>2, <1>3, <1>4, <1>5 DEF _compute_in_flight, Unanswered

(* The first of the declared directories to have a tool is the first of all. *)
LEMMA FirstIsDeclared ==
    ASSUME NEW S, NEW declared \in Seq(S), NEW rest \in Seq(S), NEW tool,
           which(tool, declared) # {}
    PROVE  which(tool, declared \o rest) = which(tool, declared)
  <1>1. PICK p, q, all : p = Len(declared) /\ q = Len(rest) /\ all = declared \o rest
    OBVIOUS
  <1>2. /\ p \in Nat /\ q \in Nat /\ DOMAIN declared = 1..p
        /\ all \in Seq(S) /\ Len(all) = p + q
        /\ \A i \in 1..(p + q) : all[i] = IF i <= p THEN declared[i] ELSE rest[i - p]
    BY <1>1, ConcatProperties, LenProperties
  <1>3. DOMAIN all = 1..(p + q)
    BY <1>2, LenProperties
  <1>4. \A i \in 1..p : i \in DOMAIN all /\ all[i] = declared[i]
    BY <1>2, <1>3
  <1>5. PICK k \in 1..p : /\ tool \in Has[declared[k]]
                          /\ \A l \in 1..(k - 1) : tool \notin Has[declared[l]]
    BY <1>2 DEF which
  <1>6. ASSUME NEW j \in DOMAIN all, \A l \in 1..(j - 1) : tool \notin Has[all[l]]
        PROVE  j \in 1..p
    <2>1. j \in 1..(p + q)
      BY <1>3
    <2>2. CASE j > p
      <3>1. k \in 1..(j - 1)
        BY <1>2, <2>1, <2>2
      <3>2. tool \in Has[all[k]]
        BY <1>4, <1>5
      <3>3. QED  BY <1>6, <3>1, <3>2
    <2>3. QED  BY <1>2, <2>1, <2>2
  <1>7. ASSUME NEW x \in which(tool, all) PROVE x \in which(tool, declared)
    <2>1. PICK j \in DOMAIN all : /\ x = all[j] /\ tool \in Has[all[j]]
                                  /\ \A l \in 1..(j - 1) : tool \notin Has[all[l]]
      BY <1>7 DEF which
    <2>2. j \in 1..p /\ all[j] = declared[j]
      BY <1>4, <1>6, <2>1
    <2>3. \A l \in 1..(j - 1) : l \in 1..p /\ all[l] = declared[l]
      BY <1>2, <1>4, <2>2
    <2>4. x = declared[j] /\ tool \in Has[declared[j]] /\ \A l \in 1..(j - 1) : tool \notin Has[declared[l]]
      BY <2>1, <2>2, <2>3
    <2>5. QED  BY <1>2, <2>2, <2>4 DEF which
  <1>8. ASSUME NEW x \in which(tool, declared) PROVE x \in which(tool, all)
    <2>1. PICK j \in 1..p : /\ x = declared[j] /\ tool \in Has[declared[j]]
                            /\ \A l \in 1..(j - 1) : tool \notin Has[declared[l]]
      BY <1>2, <1>8 DEF which
    <2>2. \A l \in 1..(j - 1) : l \in 1..p /\ all[l] = declared[l]
      BY <1>2, <1>4, <2>1
    <2>3. /\ j \in DOMAIN all /\ x = all[j] /\ tool \in Has[all[j]]
          /\ \A l \in 1..(j - 1) : tool \notin Has[all[l]]
      BY <1>4, <2>1, <2>2
    <2>4. QED  BY <2>3 DEF which
  <1>9. QED  BY <1>1, <1>7, <1>8

(* The invariant shows each of the properties of a state. *)
LEMMA SdkShows ==
    SdkSound => SdkTypeOK /\ DeclaredToolWins /\ FailureIsTold /\ RunningIsShown
  <1> SUFFICES ASSUME SdkSound
               PROVE  SdkTypeOK /\ DeclaredToolWins /\ FailureIsTold /\ RunningIsShown
    OBVIOUS
  <1>1. SdkTypeOK
    BY SdkParts DEF SdkTypeOK, Places, Sids
  <1>2. DeclaredToolWins
    <2>1. ASSUME at \in {"brief", "options", "codex"}, NEW tool, which(tool, path.declared) # {}
          PROVE  which(tool, path.path) = which(tool, path.declared)
      <3>1. PICK base \in Paths, declared \in Declared :
               path = [path |-> build_worker_env(base, declared), declared |-> declared]
        BY <2>1, SdkParts DEF PathSound
      <3>2. base \in Seq(Dirs) /\ declared \in Seq(Dirs)
        BY SdkAssumption DEF Dirs
      <3>3. PICK rest : rest = Where(base, LAMBDA d : ~Contains(declared, d))
        OBVIOUS
      <3>4. rest \in Seq(Dirs)
        <4>1. rest = ElementsAt(base, {k \in DOMAIN base : ~Contains(declared, base[k])})
          BY <3>3 DEF Where
        <4>2. QED  BY <3>2, <4>1, AtElements
      <3>5. path.path = declared \o rest /\ path.declared = declared
        BY <3>1, <3>3 DEF build_worker_env
      <3>6. QED  BY <2>1, <3>2, <3>4, <3>5, FirstIsDeclared
    <2>2. QED  BY <2>1 DEF DeclaredToolWins
  <1>3. RunningIsShown
    <2>1. ASSUME at \notin {"idle", "prep", "returned"} PROVE at \in Within
      BY <2>1, SdkParts DEF Places, Within
    <2>2. QED  BY <2>1, OwnIsShown, SdkParts DEF RunningIsShown, StartShown
  <1>4. QED  BY <1>1, <1>2, <1>3, SdkParts

(* A session that gave its id leaves it with its outcome. *)
LEMMA IdIsLeft ==
    ASSUME [SdkNext]_sdkVars
    PROVE  [ended' # ended /\ at = "close" => (sid # "none" <=> ended'.sid # "none")]_sdkVars
  <1> SUFFICES ASSUME SdkNext, ended' # ended, at = "close" PROVE sid # "none" <=> ended'.sid # "none"
    OBVIOUS
  <1>1. SessionOver
    <2>1. \A i \in RunIssues : ~Dispatch(i)
      BY DEF Dispatch
    <2>2. ~ClockTicks /\ ~ProcessDies
      BY DEF ClockTicks, ProcessDies
    <2>3. ~Prepare /\ ~_preflight /\ ~Brief /\ ~_run_codex /\ ~_options /\ ~Collected
      BY DEF Prepare, _preflight, Brief, _run_codex, _options, Collected
    <2>4. ~InitMessage /\ ~ResultMessage_ /\ ~StreamEnds
      BY DEF InitMessage, ResultMessage_, StreamEnds, Reading
    <2>5. QED  BY <2>1, <2>2, <2>3, <2>4 DEF SdkNext, Run
  <1>2. ended'.sid = sid
    BY <1>1 DEF SessionOver, Done, SessionId
  <1>3. QED  BY <1>2

(* What a run of an agent promises. *)
THEOREM RunsAreTold == SdkSpec => RunIsToldAndResumable
  <1>1. SdkSpec => []SdkSound
    BY InitSdk, SdkKept, PTL DEF SdkSpec
  <1>2. SdkSpec => [](SdkTypeOK /\ DeclaredToolWins /\ FailureIsTold /\ RunningIsShown)
    BY <1>1, SdkShows, PTL
  <1>3. SdkSpec => SessionCanResume
    <2>1. [SdkNext]_sdkVars =>
            [ended' # ended /\ at = "close" => (sid # "none" <=> ended'.sid # "none")]_sdkVars
      BY IdIsLeft
    <2>2. QED  BY <2>1, PTL DEF SdkSpec, SessionCanResume
  <1>4. QED  BY <1>2, <1>3, PTL DEF RunIsToldAndResumable

-----------------------------------------------------------------------------
(* The chain of roles. *)

(* What is so at 0, and at n + 1 whenever at n, is so up to any bound. *)
LEMMA UpTo ==
    ASSUME NEW N \in Nat, NEW S, 0 \in S, \A n \in 0..N : n # N /\ n \in S => n + 1 \in S
    PROVE  N \in S
  <1> DEFINE Bad == {n \in 0..N : n \notin S}
  <1>1. SUFFICES ASSUME Bad # {} PROVE FALSE
    OBVIOUS
  <1>2. PICK n \in Bad : \A j \in Bad : n <= j
    <2> HIDE DEF Bad
    <2>1. Bad \subseteq Nat
      BY DEF Bad
    <2>2. QED  BY <1>1, <2>1, MinIs
  <1>3. n \in 0..N /\ n \notin S /\ n # 0
    BY <1>2
  <1>4. n - 1 \in 0..N /\ n - 1 # N /\ (n - 1) + 1 = n /\ ~(n <= n - 1)
    BY <1>3
  <1>5. n - 1 \notin Bad
    BY <1>2, <1>4
  <1> HIDE DEF Bad
  <1>6. n - 1 \in S
    BY <1>4, <1>5 DEF Bad
  <1>7. QED  BY <1>3, <1>4, <1>6

(* g is b, to which F is applied once more at each place. *)
Repeats(g, F, b, N) == g = [n \in 0..N |-> IF n = 0 THEN b ELSE F[n][g[n - 1]]]

LEMMA RepeatsSome ==
    ASSUME NEW N \in Nat, NEW X, NEW b \in X, NEW F \in [1..N -> [X -> X]]
    PROVE  \E g \in [0..N -> X] : Repeats(g, F, b, N)
  <1> DEFINE S == {m \in 0..N : \E g \in [0..m -> X] : Repeats(g, F, b, m)}
  <1>1. 0 \in S
    <2> DEFINE g == [n \in 0..0 |-> b]
    <2>1. g \in [0..0 -> X]
      OBVIOUS
    <2>2. Repeats(g, F, b, 0)
      BY DEF Repeats
    <2> HIDE DEF g
    <2>3. QED  BY <2>1, <2>2
  <1>2. ASSUME NEW m \in 0..N, m # N, m \in S PROVE m + 1 \in S
    <2>1. PICK g \in [0..m -> X] : Repeats(g, F, b, m)
      BY <1>2
    <2> DEFINE h == [n \in 0..(m + 1) |-> IF n = m + 1 THEN F[m + 1][g[m]] ELSE g[n]]
    <2>2. m \in Nat /\ m + 1 \in 1..N /\ m + 1 \in 0..N /\ m \in 0..m
      BY <1>2
    <2>3. F[m + 1][g[m]] \in X
      BY <2>2
    <2>4. h \in [0..(m + 1) -> X]
      <3>1. \A n \in 0..(m + 1) : n # m + 1 => n \in 0..m
        BY <2>2
      <3>2. QED  BY <2>3, <3>1
    <2>5. \A n \in 0..m : g[n] = IF n = 0 THEN b ELSE F[n][g[n - 1]]
      BY <2>1 DEF Repeats
    <2>6. \A n \in 0..(m + 1) : n # 0 => n - 1 \in 0..m /\ h[n - 1] = g[n - 1]
      BY <2>2
    <2>7. ASSUME NEW n \in 0..(m + 1)
          PROVE  h[n] = IF n = 0 THEN b ELSE F[n][h[n - 1]]
      <3>1. CASE n = m + 1
        <4>1. n # 0 /\ n - 1 = m /\ h[n] = F[m + 1][g[m]] /\ h[n - 1] = g[n - 1]
          BY <2>2, <2>6, <3>1
        <4>2. QED  BY <3>1, <4>1
      <3>2. CASE n # m + 1
        <4>1. n \in 0..m /\ h[n] = g[n]
          BY <2>2, <3>2
        <4>2. QED  BY <2>5, <2>6, <4>1
      <3>3. QED  BY <3>1, <3>2
    <2>8. h = [n \in 0..(m + 1) |-> h[n]]
      OBVIOUS
    <2> HIDE DEF h
    <2>9. Repeats(h, F, b, m + 1)
      BY <2>7, <2>8 DEF Repeats
    <2>10. QED  BY <2>2, <2>4, <2>9
  <1> HIDE DEF S
  <1>3. N \in S
    BY <1>1, <1>2, UpTo
  <1>4. QED  BY <1>3 DEF S

(* A sequence without repetitions counts its elements. *)
LEMMA Counted ==
    ASSUME NEW S, NEW t \in Seq(S), IsInjective(t)
    PROVE  IsFiniteSet(ToSet(t)) /\ Cardinality(ToSet(t)) = Len(t)
  <1>1. DOMAIN t = 1..Len(t) /\ Len(t) \in Nat
    BY LenProperties
  <1>2. t \in [1..Len(t) -> ToSet(t)]
    BY <1>1 DEF ToSet
  <1>3. t \in Bijection(1..Len(t), ToSet(t))
    BY <1>1, <1>2 DEF IsInjective, ToSet, Bijection, Injection, Surjection
  <1>4. ExistsBijection(1..Len(t), ToSet(t))
    BY <1>3 DEF ExistsBijection
  <1>5. IsFiniteSet(1..Len(t))
    BY <1>1, FS_Interval
  <1>6. QED  BY <1>1, <1>4, <1>5, FS_Bijection, FS_CountingElements

(* A file that parses and whose roles all exist. *)
GoodFile(f) == f \in Seq(Steps) /\ parse_pipeline(f) /\ _resolve_edges(f)

Named(f) == [k \in DOMAIN f |-> f[k].role]

LEMMA NamedIs ==
    ASSUME NEW f, GoodFile(f)
    PROVE  /\ DOMAIN f = 1..Len(f) /\ Len(f) \in Nat \ {0}
           /\ Named(f) \in Seq(Roles(f)) /\ Len(Named(f)) = Len(f) /\ DOMAIN Named(f) = DOMAIN f
           /\ IsInjective(Named(f)) /\ ToSet(Named(f)) = Roles(f)
           /\ \A k \in DOMAIN f : Named(f)[k] = f[k].role
  <1>1. f \in Seq(Steps) /\ f # <<>> /\ DOMAIN f = 1..Len(f) /\ Len(f) \in Nat
    BY LenProperties DEF GoodFile, parse_pipeline
  <1>2. Len(f) # 0
    BY <1>1, EmptySeq
  <1>3. Named(f) = [k \in 1..Len(f) |-> f[k].role]
    BY <1>1 DEF Named
  <1>4. \A k \in 1..Len(f) : f[k].role \in Roles(f)
    BY <1>1 DEF Roles
  <1>5. Named(f) \in Seq(Roles(f)) /\ Len(Named(f)) = Len(f) /\ DOMAIN Named(f) = DOMAIN f
    BY <1>1, <1>3, <1>4
  <1>6. ASSUME NEW j \in 1..Len(f), NEW k \in 1..Len(f), f[j].role = f[k].role PROVE j = k
    <2>1. \A l \in 1..(k - 1) : f[l].role # f[k].role
      BY <1>1 DEF GoodFile, parse_pipeline
    <2>2. \A l \in 1..(j - 1) : f[l].role # f[j].role
      BY <1>1 DEF GoodFile, parse_pipeline
    <2>3. j \notin 1..(k - 1) /\ k \notin 1..(j - 1)
      BY <1>6, <2>1, <2>2
    <2>4. QED  BY <1>1, <2>3
  <1>7. IsInjective(Named(f))
    BY <1>3, <1>6 DEF IsInjective
  <1>8. ToSet(Named(f)) = Roles(f)
    BY <1>1, <1>3 DEF ToSet, Roles
  <1>9. QED  BY <1>1, <1>2, <1>3, <1>5, <1>7, <1>8

(* The step of a role is the one that has it. *)
LEMMA StepOfIs ==
    ASSUME NEW f, GoodFile(f), NEW r \in Roles(f)
    PROVE  /\ StepOf(f, r) \in Steps /\ StepOf(f, r) \in ToSet(f) /\ StepOf(f, r).role = r
           /\ StepOf(f, r).after \subseteq Roles(f)
  <1>1. PICK k \in DOMAIN f : f[k].role = r
    BY DEF Roles
  <1> DEFINE p == CHOOSE q \in DOMAIN f : f[q].role = r
  <1>2. p \in DOMAIN f /\ f[p].role = r
    BY <1>1
  <1>3. StepOf(f, r) = f[p]
    BY DEF StepOf
  <1> HIDE DEF p
  <1>4. f[p] \in Steps
    <2>1. f \in Seq(Steps) /\ p \in 1..Len(f)
      BY <1>2, NamedIs DEF GoodFile
    <2>2. QED  BY <2>1, ElementOfSeq
  <1>5. f[p].after \subseteq Roles(f)
    BY <1>2 DEF GoodFile, _resolve_edges
  <1>6. QED  BY <1>2, <1>3, <1>4, <1>5 DEF ToSet

LEMMA Counts ==
    ASSUME NEW f, GoodFile(f)
    PROVE  IsFiniteSet(Roles(f)) /\ Cardinality(Roles(f)) = Len(f)
  <1>1. /\ Named(f) \in Seq(Roles(f)) /\ Len(Named(f)) = Len(f)
        /\ IsInjective(Named(f)) /\ ToSet(Named(f)) = Roles(f)
    BY NamedIs
  <1>2. QED  BY <1>1, Counted

(* In the order of the file: each once. *)
LEMMA InOrderIs ==
    ASSUME NEW f, GoodFile(f), NEW R \in SUBSET Roles(f)
    PROVE  /\ InOrder(f, R) \in Seq(Roles(f)) /\ IsInjective(InOrder(f, R)) /\ ToSet(InOrder(f, R)) = R
           /\ R # {} => Head(InOrder(f, R)) \in R
  <1> DEFINE places == {k \in DOMAIN f : f[k].role \in R}
             t == ElementsAt(Named(f), places)
  <1>1. InOrder(f, R) = t
    BY DEF InOrder, Named
  <1>2. /\ Named(f) \in Seq(Roles(f)) /\ DOMAIN Named(f) = DOMAIN f
        /\ \A k \in DOMAIN f : Named(f)[k] = f[k].role
        /\ \A j, k \in DOMAIN f : Named(f)[j] = Named(f)[k] => j = k
        /\ DOMAIN f = 1..Len(f) /\ Len(f) \in Nat
    BY NamedIs DEF IsInjective
  <1>3. /\ t \in Seq(Roles(f))
        /\ \A k \in DOMAIN t : \E p \in DOMAIN f : p \in places /\ t[k] = Named(f)[p]
        /\ \A p \in DOMAIN f : p \in places => \E k \in DOMAIN t : t[k] = Named(f)[p]
    <2> HIDE DEF places
    <2>1. /\ ElementsAt(Named(f), places) \in Seq(Roles(f))
          /\ \A k \in DOMAIN ElementsAt(Named(f), places) :
                \E p \in DOMAIN Named(f) : p \in places /\ ElementsAt(Named(f), places)[k] = Named(f)[p]
          /\ \A p \in DOMAIN Named(f) : p \in places =>
                \E k \in DOMAIN ElementsAt(Named(f), places) : ElementsAt(Named(f), places)[k] = Named(f)[p]
      BY <1>2, AtElements
    <2>2. QED  BY <1>2, <2>1
  <1>4. ASSUME NEW j \in DOMAIN t, NEW k \in DOMAIN t, j < k PROVE t[j] # t[k]
    <2> HIDE DEF places
    <2>1. \E p, q \in DOMAIN Named(f) : /\ p < q /\ p \in places /\ q \in places
                                        /\ t[j] = Named(f)[p] /\ t[k] = Named(f)[q]
      BY <1>2, <1>4, AtApart
    <2>2. PICK p, q \in DOMAIN f : p < q /\ t[j] = Named(f)[p] /\ t[k] = Named(f)[q]
      BY <1>2, <2>1
    <2>3. p # q
      BY <1>2, <2>2
    <2>4. QED  BY <1>2, <2>2, <2>3
  <1> HIDE DEF t
  <1>5. DOMAIN t = 1..Len(t) /\ Len(t) \in Nat
    BY <1>3
  <1>6. IsInjective(t)
    BY <1>4, <1>5 DEF IsInjective
  <1>7. ToSet(t) = R
    <2>1. ASSUME NEW k \in DOMAIN t PROVE t[k] \in R
      BY <1>2, <1>3
    <2>2. ASSUME NEW r \in R PROVE \E k \in DOMAIN t : t[k] = r
      <3>1. PICK p \in DOMAIN f : f[p].role = r
        BY DEF Roles
      <3>2. p \in places /\ Named(f)[p] = r
        BY <1>2, <3>1
      <3>3. QED  BY <1>3, <3>2
    <2>3. QED  BY <2>1, <2>2 DEF ToSet
  <1>8. R # {} => Head(t) \in R
    <2>1. ASSUME R # {} PROVE Head(t) \in R
      <3>1. DOMAIN t # {}
        BY <1>7, <2>1 DEF ToSet
      <3>2. 1 \in DOMAIN t /\ Head(t) = t[1]
        BY <1>3, <1>5, <3>1
      <3>3. QED  BY <1>7, <3>2 DEF ToSet
    <2>2. QED  BY <2>1
  <1>9. QED  BY <1>1, <1>3, <1>6, <1>7, <1>8

-----------------------------------------------------------------------------
(* The search. *)

(* Some role of every selection has nobody of it before it. *)
Founded(f, B) ==
    \A R \in SUBSET B : R # {} => \E r \in R : StepOf(f, r).after \cap R = {}

VisitState(f) == [path : Seq(Roles(f)), black : SUBSET Roles(f), cycle : BOOLEAN]

(* The path leads from parent to child; the black roles are closed under        *)
(* children and have no cycle.                                                  *)
VisitSound(f, v) ==
    /\ v \in VisitState(f)
    /\ IsInjective(v.path) /\ ToSet(v.path) \cap v.black = {}
    /\ \A k \in 1..(Len(v.path) - 1) : v.path[k + 1] \in Children(f, v.path[k])
    /\ \A r \in v.black : Children(f, r) \subseteq v.black
    /\ Founded(f, v.black)
    /\ v.cycle => Cyclic(f)

(* The search is over, or has taken as many steps as it has entered roles and left them. *)
VisitCounts(f, v, n) ==
    \/ v.cycle
    \/ v.path = <<>> /\ v.black = Roles(f)
    \/ 2 * Cardinality(v.black) + Len(v.path) = n

LEMMA VisitFields ==
    ASSUME NEW f, NEW v \in VisitState(f)
    PROVE  /\ v.path \in Seq(Roles(f)) /\ v.black \subseteq Roles(f) /\ v.cycle \in BOOLEAN
           /\ DOMAIN v.path = 1..Len(v.path) /\ Len(v.path) \in Nat
           /\ v.path # <<>> => Len(v.path) # 0 /\ Last(v.path) = v.path[Len(v.path)]
                               /\ Last(v.path) \in Roles(f) /\ Last(v.path) \in ToSet(v.path)
  <1>1. v.path \in Seq(Roles(f)) /\ v.black \subseteq Roles(f) /\ v.cycle \in BOOLEAN
    BY DEF VisitState
  <1>2. DOMAIN v.path = 1..Len(v.path) /\ Len(v.path) \in Nat
    BY <1>1, LenProperties
  <1>3. ASSUME v.path # <<>>
        PROVE  Len(v.path) # 0 /\ Last(v.path) = v.path[Len(v.path)]
               /\ Last(v.path) \in Roles(f) /\ Last(v.path) \in ToSet(v.path)
    <2>1. Len(v.path) \in Nat \ {0}
      BY <1>1, <1>3, EmptySeq
    <2>2. Len(v.path) \in DOMAIN v.path /\ Last(v.path) = v.path[Len(v.path)]
      BY <1>2, <2>1 DEF Last
    <2>3. v.path[Len(v.path)] \in Roles(f)
      BY <1>1, <1>2, <2>2, ElementOfSeq
    <2>4. QED  BY <2>1, <2>2, <2>3 DEF ToSet
  <1>4. QED  BY <1>1, <1>2, <1>3

LEMMA ToVisitIs ==
    ASSUME NEW f, NEW v \in VisitState(f)
    PROVE  ToVisit(f, v) \subseteq Roles(f) /\ ToVisit(f, v) \cap v.black = {}
  BY DEF ToVisit, Children

(* The four steps of the search. *)
LEMMA VisitIs ==
    ASSUME NEW f, GoodFile(f), NEW v \in VisitState(f)
    PROVE  \/ Visit(f, v) = v /\ (v.cycle \/ (ToVisit(f, v) = {} /\ v.path = <<>>))
           \/ /\ ~v.cycle /\ ToVisit(f, v) = {} /\ v.path # <<>>
              /\ Visit(f, v) = [path |-> Front(v.path), black |-> v.black \cup {Last(v.path)},
                                cycle |-> FALSE]
           \/ \E c \in ToVisit(f, v) :
                 /\ ~v.cycle /\ c \in ToSet(v.path)
                 /\ Visit(f, v) = [path |-> v.path, black |-> v.black, cycle |-> TRUE]
           \/ \E c \in ToVisit(f, v) :
                 /\ ~v.cycle /\ c \notin ToSet(v.path)
                 /\ Visit(f, v) = [path |-> Append(v.path, c), black |-> v.black, cycle |-> FALSE]
  <1> DEFINE left == ToVisit(f, v)
             next == Head(InOrder(f, left))
             back == [path |-> Front(v.path), black |-> v.black \cup {Last(v.path)}, cycle |-> FALSE]
             found == [path |-> v.path, black |-> v.black, cycle |-> TRUE]
             down == [path |-> Append(v.path, next), black |-> v.black, cycle |-> FALSE]
  <1>1. left # {} => next \in left
    BY ToVisitIs, InOrderIs
  <1>5. CASE (left = {} /\ v.path = <<>>) \/ v.cycle
    <2>1. Visit(f, v) = v
      BY <1>5 DEF Visit
    <2>2. QED  BY <1>5, <2>1
  <1>6. CASE left = {} /\ v.path # <<>> /\ ~v.cycle
    <2>1. Visit(f, v) = back
      BY <1>6 DEF Visit
    <2>2. QED  BY <1>6, <2>1
  <1>7. CASE left # {} /\ next \in ToSet(v.path) /\ ~v.cycle
    <2>1. Visit(f, v) = found
      BY <1>7 DEF Visit
    <2>2. QED  BY <1>1, <1>7, <2>1
  <1>8. CASE left # {} /\ next \notin ToSet(v.path) /\ ~v.cycle
    <2>1. Visit(f, v) = down
      BY <1>8 DEF Visit
    <2>2. QED  BY <1>1, <1>8, <2>1
  <1>9. QED  BY <1>5, <1>6, <1>7, <1>8

(* A child on the path closes a cycle: the path from it on. *)
LEMMA VisitFound ==
    ASSUME NEW f, GoodFile(f), NEW v, VisitSound(f, v), NEW c \in ToVisit(f, v), c \in ToSet(v.path)
    PROVE  Cyclic(f)
  <1>1. /\ v \in VisitState(f)
        /\ \A k \in 1..(Len(v.path) - 1) : v.path[k + 1] \in Children(f, v.path[k])
    BY DEF VisitSound
  <1>2. /\ v.path \in Seq(Roles(f)) /\ DOMAIN v.path = 1..Len(v.path) /\ Len(v.path) \in Nat
        /\ v.path # <<>> => Last(v.path) = v.path[Len(v.path)]
    BY <1>1, VisitFields
  <1>3. PICK j \in 1..Len(v.path) : c = v.path[j]
    BY <1>2 DEF ToSet
  <1>4. v.path # <<>>
    BY <1>2, <1>3, EmptySeq
  <1>5. c \in Children(f, v.path[Len(v.path)])
    BY <1>2, <1>4 DEF ToVisit
  <1> DEFINE R == {v.path[k] : k \in j..Len(v.path)}
  <1>6. c \in R /\ R \in SUBSET Roles(f)
    <2>1. \A k \in j..Len(v.path) : v.path[k] \in Roles(f)
      BY <1>2, <1>3, ElementOfSeq
    <2>2. j \in j..Len(v.path)
      BY <1>2, <1>3
    <2>3. QED  BY <1>3, <2>1, <2>2
  <1>7. ASSUME NEW r \in R PROVE StepOf(f, r).after \cap R # {}
    <2>1. PICK k \in j..Len(v.path) : r = v.path[k]
      OBVIOUS
    <2>2. CASE k = j
      <3>1. v.path[Len(v.path)] \in R
        BY <1>2, <1>3
      <3>2. v.path[Len(v.path)] \in StepOf(f, r).after
        BY <1>3, <1>5, <2>1, <2>2 DEF Children
      <3>3. QED  BY <3>1, <3>2
    <2>3. CASE k # j
      <3>1. k - 1 \in j..Len(v.path) /\ k - 1 \in 1..(Len(v.path) - 1) /\ (k - 1) + 1 = k
        BY <1>2, <1>3, <2>3
      <3>2. v.path[k - 1] \in StepOf(f, r).after
        BY <1>1, <2>1, <3>1 DEF Children
      <3>3. v.path[k - 1] \in R
        BY <3>1
      <3>4. QED  BY <3>2, <3>3
    <2>4. QED  BY <2>2, <2>3
  <1> HIDE DEF R
  <1>8. QED  BY <1>6, <1>7 DEF Cyclic

(* Going down to a child that is not on the path. *)
LEMMA VisitDown ==
    ASSUME NEW f, GoodFile(f), NEW v, VisitSound(f, v), NEW c \in ToVisit(f, v), c \notin ToSet(v.path),
           NEW w, w = [path |-> Append(v.path, c), black |-> v.black, cycle |-> FALSE]
    PROVE  VisitSound(f, w) /\ Len(w.path) = Len(v.path) + 1 /\ w.black = v.black
  <1>1. v \in VisitState(f) /\ c \in Roles(f) /\ c \notin v.black
    BY ToVisitIs DEF VisitSound
  <1>2. /\ v.path \in Seq(Roles(f)) /\ v.black \subseteq Roles(f)
        /\ DOMAIN v.path = 1..Len(v.path) /\ Len(v.path) \in Nat
        /\ v.path # <<>> => Last(v.path) = v.path[Len(v.path)]
    BY <1>1, VisitFields
  <1>3. w.path = Append(v.path, c) /\ w.black = v.black /\ w.cycle = FALSE
    OBVIOUS
  <1>4. /\ w.path \in Seq(Roles(f)) /\ Len(w.path) = Len(v.path) + 1
        /\ w.path[Len(v.path) + 1] = c /\ \A k \in 1..Len(v.path) : w.path[k] = v.path[k]
    BY <1>1, <1>2, <1>3, AppendProperties
  <1>5. DOMAIN w.path = 1..(Len(v.path) + 1)
    BY <1>4, LenProperties
  <1>6. w \in VisitState(f)
    BY <1>2, <1>3, <1>4 DEF VisitState
  <1>7. \A k \in 1..Len(v.path) : v.path[k] # c
    BY <1>2 DEF ToSet
  <1>8. IsInjective(w.path)
    <2>1. \A j, k \in 1..Len(v.path) : v.path[j] = v.path[k] => j = k
      BY <1>2 DEF VisitSound, IsInjective
    <2>2. \A k \in 1..(Len(v.path) + 1) : k \in 1..Len(v.path) \/ k = Len(v.path) + 1
      BY <1>2
    <2>3. QED  BY <1>2, <1>4, <1>5, <1>7, <2>1, <2>2 DEF IsInjective
  <1>9. ToSet(w.path) \cap w.black = {}
    <2>1. ToSet(v.path) \cap v.black = {}
      BY DEF VisitSound
    <2>2. \A k \in 1..(Len(v.path) + 1) : w.path[k] \in ToSet(v.path) \/ w.path[k] = c
      BY <1>2, <1>4 DEF ToSet
    <2>3. QED  BY <1>1, <1>3, <1>5, <2>1, <2>2 DEF ToSet
  <1>10. ASSUME NEW k \in 1..(Len(w.path) - 1) PROVE w.path[k + 1] \in Children(f, w.path[k])
    <2>1. k \in 1..Len(v.path) /\ w.path[k] = v.path[k]
      BY <1>2, <1>4
    <2>2. CASE k = Len(v.path)
      <3>1. v.path # <<>>
        BY <1>2, <2>1, EmptySeq
      <3>2. c \in Children(f, v.path[k])
        BY <1>2, <2>2, <3>1 DEF ToVisit
      <3>3. QED  BY <1>4, <2>1, <2>2, <3>2
    <2>3. CASE k # Len(v.path)
      <3>1. k \in 1..(Len(v.path) - 1) /\ k + 1 \in 1..Len(v.path)
        BY <1>2, <2>1, <2>3
      <3>2. QED  BY <1>4, <2>1, <3>1 DEF VisitSound
    <2>4. QED  BY <2>2, <2>3
  <1>11. (\A r \in w.black : Children(f, r) \subseteq w.black) /\ Founded(f, w.black)
    BY <1>3 DEF VisitSound
  <1>12. QED  BY <1>3, <1>4, <1>6, <1>8, <1>9, <1>10, <1>11 DEF VisitSound

(* What is returned from has no child that is not black, so it is nobody's child there. *)
LEMMA VisitBack ==
    ASSUME NEW f, GoodFile(f), NEW v, VisitSound(f, v), ToVisit(f, v) = {}, v.path # <<>>,
           NEW w, w = [path |-> Front(v.path), black |-> v.black \cup {Last(v.path)}, cycle |-> FALSE]
    PROVE  /\ VisitSound(f, w) /\ Len(w.path) = Len(v.path) - 1
           /\ w.black = v.black \cup {Last(v.path)} /\ Last(v.path) \notin v.black
  <1> DEFINE last == Last(v.path)
  <1>1. v \in VisitState(f)
    BY DEF VisitSound
  <1>2. /\ v.path \in Seq(Roles(f)) /\ v.black \subseteq Roles(f)
        /\ DOMAIN v.path = 1..Len(v.path) /\ Len(v.path) \in Nat /\ Len(v.path) # 0
        /\ last = v.path[Len(v.path)] /\ last \in Roles(f) /\ last \in ToSet(v.path)
    BY <1>1, VisitFields
  <1>3. last \notin v.black /\ Children(f, last) \subseteq v.black
    BY <1>2 DEF VisitSound, ToVisit
  <1>4. w.path = SubSeq(v.path, 1, Len(v.path) - 1) /\ w.black = v.black \cup {last} /\ w.cycle = FALSE
    BY DEF Front
  <1> HIDE DEF last
  <1>5. /\ w.path \in Seq(Roles(f)) /\ Len(w.path) = Len(v.path) - 1
        /\ \A k \in 1..(Len(v.path) - 1) : w.path[k] = v.path[k]
    <2>1. \A k \in 1..(Len(v.path) - 1) : v.path[k] \in Roles(f)
      BY <1>2, ElementOfSeq
    <2>2. /\ SubSeq(v.path, 1, Len(v.path) - 1) \in Seq(Roles(f))
          /\ Len(SubSeq(v.path, 1, Len(v.path) - 1)) =
                IF 1 <= Len(v.path) - 1 THEN Len(v.path) - 1 - 1 + 1 ELSE 0
          /\ \A k \in 1..(Len(v.path) - 1 - 1 + 1) :
                SubSeq(v.path, 1, Len(v.path) - 1)[k] = v.path[1 + k - 1]
      BY <1>2, <2>1, SubSeqProperties
    <2>3. PICK N \in Nat \ {0} : N = Len(v.path)
      BY <1>2
    <2>4. /\ N - 1 \in Nat /\ (IF 1 <= N - 1 THEN N - 1 - 1 + 1 ELSE 0) = N - 1
          /\ \A k \in 1..(N - 1) : k \in 1..(N - 1 - 1 + 1) /\ 1 + k - 1 = k
      BY <2>3
    <2>5. Len(w.path) = N - 1
      BY <1>4, <2>2, <2>3, <2>4
    <2>6. \A k \in 1..(N - 1) : w.path[k] = v.path[k]
      BY <1>4, <2>2, <2>3, <2>4
    <2>7. QED  BY <1>4, <2>2, <2>3, <2>5, <2>6
  <1>6. DOMAIN w.path = 1..(Len(v.path) - 1)
    BY <1>5, LenProperties
  <1>7. w \in VisitState(f)
    BY <1>2, <1>4, <1>5 DEF VisitState
  <1>8. \A j, k \in 1..Len(v.path) : v.path[j] = v.path[k] => j = k
    BY <1>2 DEF VisitSound, IsInjective
  <1>9. IsInjective(w.path)
    BY <1>2, <1>5, <1>6, <1>8 DEF IsInjective
  <1>10. ToSet(w.path) \cap w.black = {}
    <2>1. ToSet(v.path) \cap v.black = {}
      BY DEF VisitSound
    <2>2. ASSUME NEW k \in 1..(Len(v.path) - 1) PROVE w.path[k] \in ToSet(v.path) /\ w.path[k] # last
      <3>1. k \in 1..Len(v.path) /\ Len(v.path) \in 1..Len(v.path) /\ k # Len(v.path)
        BY <1>2
      <3>2. v.path[k] # v.path[Len(v.path)]
        BY <1>8, <3>1
      <3>3. QED  BY <1>2, <1>5, <3>1, <3>2 DEF ToSet
    <2>3. QED  BY <1>4, <1>6, <2>1, <2>2 DEF ToSet
  <1>11. ASSUME NEW k \in 1..(Len(w.path) - 1) PROVE w.path[k + 1] \in Children(f, w.path[k])
    <2>1. k \in 1..(Len(v.path) - 1) /\ k + 1 \in 1..(Len(v.path) - 1)
      BY <1>2, <1>5
    <2>2. QED  BY <1>5, <2>1 DEF VisitSound
  <1>12. \A r \in w.black : Children(f, r) \subseteq w.black
    BY <1>3, <1>4 DEF VisitSound
  <1>13. Founded(f, w.black)
    <2>1. SUFFICES ASSUME NEW R \in SUBSET w.black, R # {}
                   PROVE  \E r \in R : StepOf(f, r).after \cap R = {}
      BY DEF Founded
    <2>2. CASE last \in R
      <3>1. ASSUME NEW p \in StepOf(f, last).after, p \in R PROVE FALSE
        <4>1. last \in Children(f, p)
          BY <1>2, <3>1 DEF Children
        <4>2. p # last
          BY <1>3, <4>1
        <4>3. p \in v.black
          BY <1>4, <3>1, <4>2
        <4>4. last \in v.black
          BY <4>1, <4>3 DEF VisitSound
        <4>5. QED  BY <1>3, <4>4
      <3>2. StepOf(f, last).after \cap R = {}
        BY <3>1
      <3>3. QED  BY <2>2, <3>2
    <2>3. CASE last \notin R
      <3>1. R \in SUBSET v.black
        BY <1>4, <2>3
      <3>2. QED  BY <2>1, <3>1 DEF VisitSound, Founded
    <2>4. QED  BY <2>2, <2>3
  <1>14. QED  BY <1>3, <1>4, <1>5, <1>7, <1>9, <1>10, <1>11, <1>12, <1>13 DEF VisitSound, last

(* Each step of the search keeps it sound, and counts. *)
LEMMA VisitStep ==
    ASSUME NEW f, GoodFile(f), NEW v, VisitSound(f, v), NEW n \in Nat, VisitCounts(f, v, n)
    PROVE  VisitSound(f, Visit(f, v)) /\ VisitCounts(f, Visit(f, v), n + 1)
  <1> DEFINE w == Visit(f, v)
  <1>1. v \in VisitState(f) /\ v.black \subseteq Roles(f) /\ Len(v.path) \in Nat
    BY VisitFields DEF VisitSound
  <1>2. IsFiniteSet(v.black) /\ Cardinality(v.black) \in Nat
    BY <1>1, Counts, FS_Subset, FS_CardinalityType
  <1>3. CASE w = v /\ (v.cycle \/ (ToVisit(f, v) = {} /\ v.path = <<>>))
    <2>1. v.cycle \/ (v.path = <<>> /\ v.black = Roles(f))
      BY <1>1, <1>3 DEF ToVisit
    <2> HIDE DEF w
    <2>2. VisitSound(f, w) /\ VisitCounts(f, w, n + 1)
      BY <1>3, <2>1 DEF VisitCounts
    <2>3. QED  BY <2>2 DEF w
  <1>4. CASE /\ ~v.cycle /\ ToVisit(f, v) = {} /\ v.path # <<>>
             /\ w = [path |-> Front(v.path), black |-> v.black \cup {Last(v.path)}, cycle |-> FALSE]
    <2> HIDE DEF w
    <2>1. /\ VisitSound(f, w) /\ Len(w.path) = Len(v.path) - 1
          /\ w.black = v.black \cup {Last(v.path)} /\ Last(v.path) \notin v.black
      BY <1>4, VisitBack
    <2>2. Cardinality(w.black) = Cardinality(v.black) + 1
      BY <1>2, <2>1, FS_AddElement
    <2>3. 2 * Cardinality(v.black) + Len(v.path) = n
      BY <1>4 DEF VisitCounts
    <2>4. 2 * Cardinality(w.black) + Len(w.path) = n + 1
      BY <1>1, <1>2, <2>1, <2>2, <2>3
    <2>5. VisitSound(f, w) /\ VisitCounts(f, w, n + 1)
      BY <2>1, <2>4 DEF VisitCounts
    <2>6. QED  BY <2>5 DEF w
  <1>5. ASSUME NEW c \in ToVisit(f, v), ~v.cycle, c \in ToSet(v.path),
               w = [path |-> v.path, black |-> v.black, cycle |-> TRUE]
        PROVE  VisitSound(f, w) /\ VisitCounts(f, w, n + 1)
    <2> HIDE DEF w
    <2>1. w.path = v.path /\ w.black = v.black /\ w.cycle
      BY <1>5
    <2>2. Cyclic(f)
      BY <1>5, VisitFound
    <2>3. w \in VisitState(f)
      BY <1>1, <1>5 DEF VisitState
    <2>4. VisitSound(f, w)
      BY <2>1, <2>2, <2>3 DEF VisitSound
    <2>5. VisitSound(f, w) /\ VisitCounts(f, w, n + 1)
      BY <2>1, <2>4 DEF VisitCounts
    <2>6. QED  BY <2>5
  <1>6. ASSUME NEW c \in ToVisit(f, v), ~v.cycle, c \notin ToSet(v.path),
               w = [path |-> Append(v.path, c), black |-> v.black, cycle |-> FALSE]
        PROVE  VisitSound(f, w) /\ VisitCounts(f, w, n + 1)
    <2> HIDE DEF w
    <2>1. VisitSound(f, w) /\ Len(w.path) = Len(v.path) + 1 /\ w.black = v.black
      BY <1>6, VisitDown
    <2>2. ~(v.path = <<>> /\ v.black = Roles(f))
      BY ToVisitIs, <1>1
    <2>3. 2 * Cardinality(v.black) + Len(v.path) = n
      BY <1>6, <2>2 DEF VisitCounts
    <2>4. 2 * Cardinality(w.black) + Len(w.path) = n + 1
      BY <1>1, <1>2, <2>1, <2>3
    <2>5. QED  BY <2>1, <2>4 DEF VisitCounts
  <1>7. \/ w = v /\ (v.cycle \/ (ToVisit(f, v) = {} /\ v.path = <<>>))
        \/ /\ ~v.cycle /\ ToVisit(f, v) = {} /\ v.path # <<>>
           /\ w = [path |-> Front(v.path), black |-> v.black \cup {Last(v.path)}, cycle |-> FALSE]
        \/ \E c \in ToVisit(f, v) :
              /\ ~v.cycle /\ c \in ToSet(v.path)
              /\ w = [path |-> v.path, black |-> v.black, cycle |-> TRUE]
        \/ \E c \in ToVisit(f, v) :
              /\ ~v.cycle /\ c \notin ToSet(v.path)
              /\ w = [path |-> Append(v.path, c), black |-> v.black, cycle |-> FALSE]
    BY <1>1, VisitIs
  <1> HIDE DEF w
  <1>8. VisitSound(f, w) /\ VisitCounts(f, w, n + 1)
    BY <1>3, <1>4, <1>5, <1>6, <1>7 DEF w
  <1>9. QED  BY <1>8 DEF w

Visiting(g, f) ==
    g = [n \in 0..(2 * Len(f)) |-> IF n = 0 THEN NoVisit ELSE Visit(f, g[n - 1])]

(* What the search may have come to. *)
Visited(f) == {v \in VisitState(f) : VisitSound(f, v) /\ \E n \in Nat : VisitCounts(f, v, n)}

LEMMA NoVisitIs ==
    ASSUME NEW f
    PROVE  VisitSound(f, NoVisit) /\ VisitCounts(f, NoVisit, 0)
  <1>1. NoVisit.path = <<>> /\ NoVisit.black = {} /\ NoVisit.cycle = FALSE
    BY DEF NoVisit
  <1>2. NoVisit \in VisitState(f)
    <2>1. <<>> \in Seq(Roles(f)) /\ {} \in SUBSET Roles(f)
      OBVIOUS
    <2>2. QED  BY <2>1 DEF NoVisit, VisitState
  <1>3. Len(<<>>) = 0 /\ DOMAIN <<>> = {} /\ ToSet(<<>>) = {}
    BY DEF ToSet
  <1>4. IsInjective(NoVisit.path) /\ ToSet(NoVisit.path) \cap NoVisit.black = {}
    BY <1>1, <1>3 DEF IsInjective
  <1>5. Founded(f, NoVisit.black)
    BY <1>1 DEF Founded
  <1>6. VisitSound(f, NoVisit)
    BY <1>1, <1>2, <1>3, <1>4, <1>5 DEF VisitSound
  <1>7. Cardinality({}) = 0
    BY FS_EmptySet
  <1>8. VisitCounts(f, NoVisit, 0)
    BY <1>1, <1>3, <1>7 DEF VisitCounts
  <1>9. QED  BY <1>6, <1>8

LEMMA VisitingSome ==
    ASSUME NEW f, GoodFile(f)
    PROVE  \E g : Visiting(g, f)
  <1> DEFINE X == Visited(f)
             N == 2 * Len(f)
             F == [n \in 1..N |-> [v \in X |-> Visit(f, v)]]
  <1>1. N \in Nat
    BY NamedIs
  <1>2. NoVisit \in X
    BY NoVisitIs DEF Visited, VisitSound
  <1>3. ASSUME NEW v \in X PROVE Visit(f, v) \in X
    <2>1. PICK n \in Nat : VisitSound(f, v) /\ VisitCounts(f, v, n)
      BY DEF Visited
    <2>2. VisitSound(f, Visit(f, v)) /\ VisitCounts(f, Visit(f, v), n + 1) /\ n + 1 \in Nat
      BY <2>1, VisitStep
    <2>3. Visit(f, v) \in VisitState(f)
      BY <2>2 DEF VisitSound
    <2>4. QED  BY <2>2, <2>3 DEF Visited
  <1> HIDE DEF X, N
  <1>4. F \in [1..N -> [X -> X]]
    BY <1>3
  <1> HIDE DEF F
  <1>5. PICK g \in [0..N -> X] : Repeats(g, F, NoVisit, N)
    BY <1>1, <1>2, <1>4, RepeatsSome
  <1>6. g = [n \in 0..N |-> IF n = 0 THEN NoVisit ELSE F[n][g[n - 1]]]
    BY <1>5 DEF Repeats
  <1>7. ASSUME NEW n \in 0..N
        PROVE  g[n] = IF n = 0 THEN NoVisit ELSE Visit(f, g[n - 1])
    <2>1. CASE n = 0
      BY <1>6, <2>1
    <2>2. CASE n # 0
      <3>1. n \in 1..N /\ n - 1 \in 0..N
        BY <1>1, <2>2
      <3>2. g[n - 1] \in X
        BY <1>5, <3>1
      <3>3. g[n] = F[n][g[n - 1]]
        BY <1>6, <2>2
      <3>4. F[n][g[n - 1]] = Visit(f, g[n - 1])
        BY <3>1, <3>2 DEF F
      <3>5. QED  BY <2>2, <3>3, <3>4
    <2>3. QED  BY <2>1, <2>2
  <1>8. g = [n \in 0..N |-> g[n]]
    BY <1>5
  <1>9. g = [n \in 0..N |-> IF n = 0 THEN NoVisit ELSE Visit(f, g[n - 1])]
    BY <1>7, <1>8
  <1>10. Visiting(g, f)
    BY <1>9 DEF Visiting, N
  <1>11. QED  BY <1>10

LEMMA VisitingIs ==
    ASSUME NEW f, GoodFile(f), NEW g, Visiting(g, f)
    PROVE  VisitSound(f, g[2 * Len(f)]) /\ VisitCounts(f, g[2 * Len(f)], 2 * Len(f))
  <1> DEFINE N == 2 * Len(f)
             S == {n \in 0..N : VisitSound(f, g[n]) /\ VisitCounts(f, g[n], n)}
  <1>1. N \in Nat
    BY NamedIs
  <1>2. \A n \in 0..N : g[n] = IF n = 0 THEN NoVisit ELSE Visit(f, g[n - 1])
    BY DEF Visiting
  <1> HIDE DEF N
  <1>3. 0 \in S
    <2>1. 0 \in 0..N /\ g[0] = NoVisit
      BY <1>1, <1>2
    <2>2. QED  BY <2>1, NoVisitIs
  <1>4. ASSUME NEW n \in 0..N, n # N, n \in S PROVE n + 1 \in S
    <2>1. n \in Nat /\ n + 1 \in 0..N /\ n + 1 # 0 /\ (n + 1) - 1 = n
      BY <1>1, <1>4
    <2>2. g[n + 1] = Visit(f, g[n])
      BY <1>2, <2>1
    <2>3. VisitSound(f, g[n]) /\ VisitCounts(f, g[n], n)
      BY <1>4
    <2>4. VisitSound(f, Visit(f, g[n])) /\ VisitCounts(f, Visit(f, g[n]), n + 1)
      BY <2>1, <2>3, VisitStep
    <2>5. QED  BY <2>1, <2>2, <2>4
  <1> HIDE DEF S
  <1>5. N \in S
    BY <1>1, <1>3, <1>4, UpTo
  <1>6. QED  BY <1>5 DEF S, N

(* After two steps for each role without a cycle, all roles are black. *)
LEMMA AllBlack ==
    ASSUME NEW f, GoodFile(f), NEW v, VisitSound(f, v), VisitCounts(f, v, 2 * Len(f)), ~v.cycle
    PROVE  v.black = Roles(f)
  <1>1. v \in VisitState(f) /\ IsInjective(v.path) /\ ToSet(v.path) \cap v.black = {}
    BY DEF VisitSound
  <1>2. /\ v.path \in Seq(Roles(f)) /\ v.black \subseteq Roles(f)
        /\ DOMAIN v.path = 1..Len(v.path) /\ Len(v.path) \in Nat
    BY <1>1, VisitFields
  <1>3. IsFiniteSet(Roles(f)) /\ Cardinality(Roles(f)) = Len(f) /\ Len(f) \in Nat
    BY Counts, NamedIs
  <1>4. IsFiniteSet(v.black) /\ Cardinality(v.black) \in Nat
    BY <1>2, <1>3, FS_Subset, FS_CardinalityType
  <1>5. IsFiniteSet(ToSet(v.path)) /\ Cardinality(ToSet(v.path)) = Len(v.path)
    BY <1>1, <1>2, Counted
  <1>6. ToSet(v.path) \subseteq Roles(f)
    BY <1>2, ElementOfSeq DEF ToSet
  <1> DEFINE entered == v.black \cup ToSet(v.path)
  <1>7. IsFiniteSet(entered) /\ Cardinality(entered) = Cardinality(v.black) + Len(v.path)
    <2>1. v.black \cap ToSet(v.path) = {} /\ Cardinality({}) = 0
      BY <1>1, FS_EmptySet
    <2>2. /\ IsFiniteSet(v.black \cup ToSet(v.path))
          /\ Cardinality(v.black \cup ToSet(v.path)) =
                Cardinality(v.black) + Cardinality(ToSet(v.path)) - Cardinality(v.black \cap ToSet(v.path))
      BY <1>4, <1>5, FS_Union
    <2>3. Cardinality(v.black \cap ToSet(v.path)) = 0
      BY <2>1
    <2>4. PICK b \in Nat, p \in Nat : b = Cardinality(v.black) /\ p = Len(v.path)
      BY <1>2, <1>4
    <2>5. Cardinality(v.black \cup ToSet(v.path)) = b + p - 0
      BY <1>5, <2>2, <2>3, <2>4
    <2>6. b + p - 0 = b + p
      BY <2>4
    <2>7. QED  BY <2>2, <2>4, <2>5, <2>6
  <1>8. Cardinality(entered) <= Len(f)
    <2>1. entered \in SUBSET Roles(f)
      BY <1>2, <1>6
    <2>2. QED  BY <1>3, <2>1, FS_Subset
  <1>9. CASE v.path = <<>> /\ v.black = Roles(f)
    BY <1>9
  <1>10. CASE 2 * Cardinality(v.black) + Len(v.path) = 2 * Len(f)
    <2>1. Cardinality(v.black) = Len(f)
      BY <1>2, <1>3, <1>4, <1>7, <1>8, <1>10
    <2>2. QED  BY <1>2, <1>3, <2>1, FS_Subset
  <1>11. QED  BY <1>9, <1>10 DEF VisitCounts

(* The search answers whether there is a cycle. *)
LEMMA SearchDecides ==
    ASSUME NEW f, GoodFile(f)
    PROVE  IF _detect_cycle(f) THEN Cyclic(f) ELSE ~Cyclic(f)
  <1> DEFINE g == CHOOSE h : Visiting(h, f)
             last == g[2 * Len(f)]
  <1>1. Visiting(g, f)
    BY VisitingSome
  <1>2. _detect_cycle(f) = last.cycle
    BY DEF _detect_cycle, Visiting
  <1> HIDE DEF g
  <1>3. VisitSound(f, last) /\ VisitCounts(f, last, 2 * Len(f))
    BY <1>1, VisitingIs
  <1> HIDE DEF last
  <1>4. CASE last.cycle
    <2>1. Cyclic(f)
      BY <1>3, <1>4 DEF VisitSound
    <2>2. QED  BY <1>2, <1>4, <2>1
  <1>5. CASE ~last.cycle
    <2>1. last.black = Roles(f)
      BY <1>3, <1>5, AllBlack
    <2>2. Founded(f, Roles(f))
      BY <1>3, <2>1 DEF VisitSound
    <2>3. ~Cyclic(f)
      BY <2>2 DEF Founded, Cyclic
    <2>4. QED  BY <1>2, <1>5, <2>3
  <1>6. QED  BY <1>4, <1>5

(* The roles that have left the queue after n turns. *)
Served(line, n) == {line[j] : j \in {i \in 1..Len(line) : i <= n}}

(* Parents come first; who waits for nobody but the served is in the line. *)
LineSound(f, line, n) ==
    /\ line \in Seq(Roles(f)) /\ IsInjective(line)
    /\ \A k \in 1..Len(line) : StepOf(f, line[k]).after \subseteq {line[j] : j \in 1..(k - 1)}
    /\ \A k \in 1..Len(line) : StepOf(f, line[k]).after \subseteq Served(line, n)
    /\ \A r \in Roles(f) : StepOf(f, r).after \subseteq Served(line, n) => r \in ToSet(line)

First(f) == InOrder(f, {r \in Roles(f) : StepOf(f, r).after = {}})

Turn(f, line, n) ==
    IF n > Len(line) THEN line ELSE line \o InOrder(f, Unblocked(f, line, n))

Lining(g, f) == g = [n \in 0..Len(f) |-> IF n = 0 THEN First(f) ELSE Turn(f, g[n - 1], n)]

LEMMA FirstIs ==
    ASSUME NEW f, GoodFile(f)
    PROVE  LineSound(f, First(f), 0)
  <1> DEFINE R == {r \in Roles(f) : StepOf(f, r).after = {}}
             L == First(f)
  <1>1. R \in SUBSET Roles(f)
    OBVIOUS
  <1>2. L \in Seq(Roles(f)) /\ IsInjective(L) /\ ToSet(L) = R
    BY <1>1, InOrderIs DEF First
  <1> HIDE DEF L
  <1>3. DOMAIN L = 1..Len(L)
    BY <1>2, LenProperties
  <1>4. ASSUME NEW k \in 1..Len(L) PROVE StepOf(f, L[k]).after = {}
    BY <1>2, <1>3 DEF ToSet
  <1>5. Served(L, 0) = {}
    BY DEF Served
  <1>6. \A r \in Roles(f) : StepOf(f, r).after \subseteq Served(L, 0) => r \in ToSet(L)
    BY <1>2, <1>5
  <1>7. LineSound(f, L, 0)
    BY <1>2, <1>4, <1>6 DEF LineSound
  <1>8. QED  BY <1>7 DEF L

(* The n-th turn. *)
LEMMA TurnSound ==
    ASSUME NEW f, GoodFile(f), NEW L, NEW n \in Nat, LineSound(f, L, n)
    PROVE  LineSound(f, Turn(f, L, n + 1), n + 1)
  <1>1. /\ L \in Seq(Roles(f)) /\ IsInjective(L) /\ DOMAIN L = 1..Len(L) /\ Len(L) \in Nat
        /\ \A k \in 1..Len(L) : StepOf(f, L[k]).after \subseteq {L[j] : j \in 1..(k - 1)}
        /\ \A k \in 1..Len(L) : StepOf(f, L[k]).after \subseteq Served(L, n)
        /\ \A r \in Roles(f) : StepOf(f, r).after \subseteq Served(L, n) => r \in ToSet(L)
    BY LenProperties DEF LineSound
  <1>2. CASE n + 1 > Len(L)
    <2>1. \A i \in 1..Len(L) : i <= n /\ i <= n + 1
      BY <1>1, <1>2
    <2>2. Served(L, n + 1) = Served(L, n)
      BY <2>1 DEF Served
    <2>3. Turn(f, L, n + 1) = L
      BY <1>2 DEF Turn
    <2>4. QED  BY <1>1, <2>2, <2>3 DEF LineSound
  <1>3. CASE ~(n + 1 > Len(L))
    <2>1. n + 1 \in 1..Len(L) /\ n + 1 \in Nat
      BY <1>1, <1>3
    <2> DEFINE p == L[n + 1]
               U == Unblocked(f, L, n + 1)
               I == InOrder(f, U)
               M == L \o I
    <2>2. Turn(f, L, n + 1) = M
      BY <1>3 DEF Turn
    <2>3. /\ p \in Roles(f) /\ U \in SUBSET Roles(f)
          /\ \A c \in Roles(f) : c \in U <=> p \in StepOf(f, c).after
                                           /\ StepOf(f, c).after \subseteq {L[k] : k \in 1..(n + 1)}
      <3>1. p \in Roles(f)
        BY <1>1, <2>1, ElementOfSeq
      <3>2. U = {c \in Children(f, p) : StepOf(f, c).after \subseteq {L[k] : k \in 1..(n + 1)}}
        BY DEF Unblocked
      <3>3. Children(f, p) = {c \in Roles(f) : p \in StepOf(f, c).after}
        BY DEF Children
      <3> HIDE DEF U, p
      <3>4. QED  BY <3>1, <3>2, <3>3
    <2> HIDE DEF U
    <2>4. I \in Seq(Roles(f)) /\ IsInjective(I) /\ ToSet(I) = U
      BY <2>3, InOrderIs
    <2>5. DOMAIN I = 1..Len(I) /\ Len(I) \in Nat
      BY <2>4, LenProperties
    <2> HIDE DEF I
    <2>6. /\ M \in Seq(Roles(f)) /\ Len(M) = Len(L) + Len(I)
          /\ \A k \in 1..(Len(L) + Len(I)) : M[k] = IF k <= Len(L) THEN L[k] ELSE I[k - Len(L)]
      <3>1. /\ L \o I \in Seq(Roles(f)) /\ Len(L \o I) = Len(L) + Len(I)
            /\ \A k \in 1..(Len(L) + Len(I)) :
                  (L \o I)[k] = IF k <= Len(L) THEN L[k] ELSE I[k - Len(L)]
        BY <1>1, <2>4, ConcatProperties
      <3>2. QED  BY <3>1
    <2> HIDE DEF M
    <2>7. DOMAIN M = 1..Len(M) /\ Len(M) \in Nat
      BY <2>6, LenProperties
    <2>8. \A k \in 1..Len(L) : k \in 1..Len(M) /\ M[k] = L[k]
      BY <1>1, <2>5, <2>6
    <2>9. \A k \in 1..Len(M) : \/ k \in 1..Len(L)
                               \/ k > Len(L) /\ k - Len(L) \in 1..Len(I) /\ M[k] = I[k - Len(L)]
      BY <1>1, <2>5, <2>6
    <2>10. \A k \in 1..Len(I) : I[k] \in U
      BY <2>4, <2>5 DEF ToSet
    <2>11. ASSUME NEW c \in U PROVE c \notin ToSet(L)
      <3>1. SUFFICES ASSUME NEW k \in 1..Len(L), c = L[k] PROVE FALSE
        BY <1>1 DEF ToSet
      <3>2. p \in Served(L, n)
        BY <1>1, <2>3, <3>1
      <3>3. PICK i \in 1..Len(L) : i <= n /\ L[i] = L[n + 1]
        BY <3>2 DEF Served
      <3>4. i = n + 1
        BY <1>1, <2>1, <3>3 DEF IsInjective
      <3>5. QED  BY <3>3, <3>4
    <2>12. \A k \in 1..Len(I) : \A j \in 1..Len(L) : I[k] # L[j]
      BY <1>1, <2>10, <2>11 DEF ToSet
    <2>13. IsInjective(M)
      <3>1. SUFFICES ASSUME NEW j \in 1..Len(M), NEW k \in 1..Len(M), M[j] = M[k] PROVE j = k
        BY <2>7 DEF IsInjective
      <3>2. CASE j \in 1..Len(L) /\ k \in 1..Len(L)
        BY <1>1, <2>8, <3>1, <3>2 DEF IsInjective
      <3>3. CASE j \in 1..Len(L) /\ k \notin 1..Len(L)
        BY <2>8, <2>9, <2>12, <3>1, <3>3
      <3>4. CASE j \notin 1..Len(L) /\ k \in 1..Len(L)
        BY <2>8, <2>9, <2>12, <3>1, <3>4
      <3>5. CASE j \notin 1..Len(L) /\ k \notin 1..Len(L)
        <4>1. /\ j - Len(L) \in 1..Len(I) /\ k - Len(L) \in 1..Len(I)
              /\ I[j - Len(L)] = I[k - Len(L)]
          BY <2>9, <3>1, <3>5
        <4>2. j - Len(L) = k - Len(L)
          BY <2>4, <2>5, <4>1 DEF IsInjective
        <4>3. QED  BY <1>1, <2>7, <4>2
      <3>6. QED  BY <3>2, <3>3, <3>4, <3>5
    <2>14. Served(M, n + 1) = {L[k] : k \in 1..(n + 1)}
      <3>1. \A k \in 1..(n + 1) : k \in 1..Len(L) /\ k \in 1..Len(M) /\ k <= n + 1 /\ M[k] = L[k]
        BY <1>1, <2>1, <2>8
      <3>2. \A i \in {i \in 1..Len(M) : i <= n + 1} : i \in 1..(n + 1)
        BY <2>1, <2>7
      <3>3. QED  BY <3>1, <3>2 DEF Served
    <2>15. Served(L, n) \subseteq Served(M, n + 1)
      <3>1. \A i \in 1..Len(L) : i <= n => i \in 1..(n + 1)
        BY <1>1, <2>1
      <3>2. QED  BY <2>14, <3>1 DEF Served
    <2>16. ASSUME NEW k \in 1..Len(M)
           PROVE  /\ StepOf(f, M[k]).after \subseteq {M[j] : j \in 1..(k - 1)}
                  /\ StepOf(f, M[k]).after \subseteq Served(M, n + 1)
      <3>1. CASE k \in 1..Len(L)
        <4>1. \A j \in 1..(k - 1) : j \in 1..Len(L) /\ M[j] = L[j]
          BY <1>1, <2>8, <3>1
        <4>2. StepOf(f, L[k]).after \subseteq {M[j] : j \in 1..(k - 1)}
          <5>1. {L[j] : j \in 1..(k - 1)} \subseteq {M[j] : j \in 1..(k - 1)}
            BY <4>1
          <5>2. QED  BY <1>1, <3>1, <5>1
        <4>3. QED  BY <1>1, <2>8, <2>15, <3>1, <4>2
      <3>2. CASE k \notin 1..Len(L)
        <4>1. k > Len(L) /\ M[k] \in U
          BY <2>9, <2>10, <3>2
        <4>2. StepOf(f, M[k]).after \subseteq {L[j] : j \in 1..(n + 1)}
          BY <2>3, <4>1
        <4>3. \A j \in 1..(n + 1) : j \in 1..(k - 1) /\ M[j] = L[j]
          BY <1>1, <2>1, <2>8, <4>1
        <4>4. {L[j] : j \in 1..(n + 1)} \subseteq {M[j] : j \in 1..(k - 1)}
          BY <4>3
        <4>5. QED  BY <2>14, <4>2, <4>4
      <3>3. QED  BY <3>1, <3>2
    <2>17. ASSUME NEW r \in Roles(f), StepOf(f, r).after \subseteq Served(M, n + 1)
           PROVE  r \in ToSet(M)
      <3>1. CASE p \in StepOf(f, r).after
        <4>1. r \in ToSet(I)
          BY <2>3, <2>4, <2>14, <2>17, <3>1
        <4>2. PICK k \in 1..Len(I) : r = I[k]
          BY <2>5, <4>1 DEF ToSet
        <4>3. k + Len(L) \in 1..Len(M) /\ M[k + Len(L)] = I[k]
          <5>1. k + Len(L) \in 1..(Len(L) + Len(I)) /\ ~(k + Len(L) <= Len(L)) /\ k + Len(L) - Len(L) = k
            BY <1>1, <2>5
          <5>2. QED  BY <2>6, <5>1
        <4>4. QED  BY <2>7, <4>2, <4>3 DEF ToSet
      <3>2. CASE p \notin StepOf(f, r).after
        <4>1. \A k \in 1..(n + 1) : k # n + 1 => k \in 1..Len(L) /\ k <= n
          BY <1>1, <2>1
        <4>2. StepOf(f, r).after \subseteq Served(L, n)
          BY <2>14, <2>17, <3>2, <4>1 DEF Served
        <4>3. r \in ToSet(L)
          BY <1>1, <4>2
        <4>4. QED  BY <1>1, <2>7, <2>8, <4>3 DEF ToSet
      <3>3. QED  BY <3>1, <3>2
    <2>18. LineSound(f, M, n + 1)
      BY <2>6, <2>13, <2>16, <2>17 DEF LineSound
    <2>19. QED  BY <2>2, <2>18
  <1>4. QED  BY <1>2, <1>3

(* The sort has a line. *)
LEMMA LiningSome ==
    ASSUME NEW f, GoodFile(f)
    PROVE  \E g : Lining(g, f)
  <1> DEFINE X == Seq(Roles(f))
             N == Len(f)
             F == [n \in 1..N |-> [line \in X |-> Turn(f, line, n)]]
  <1>1. N \in Nat
    BY NamedIs
  <1>2. First(f) \in X
    BY FirstIs DEF LineSound
  <1>3. ASSUME NEW line \in X, NEW n \in 1..N PROVE Turn(f, line, n) \in X
    <2>1. Unblocked(f, line, n) \in SUBSET Roles(f)
      BY DEF Unblocked, Children
    <2>2. InOrder(f, Unblocked(f, line, n)) \in Seq(Roles(f))
      BY <2>1, InOrderIs
    <2>3. line \o InOrder(f, Unblocked(f, line, n)) \in Seq(Roles(f))
      BY <2>2, ConcatProperties
    <2>4. QED  BY <2>3 DEF Turn
  <1> HIDE DEF X, N
  <1>4. F \in [1..N -> [X -> X]]
    BY <1>3
  <1> HIDE DEF F
  <1>5. PICK g \in [0..N -> X] : Repeats(g, F, First(f), N)
    BY <1>1, <1>2, <1>4, RepeatsSome
  <1>6. g = [n \in 0..N |-> IF n = 0 THEN First(f) ELSE F[n][g[n - 1]]]
    BY <1>5 DEF Repeats
  <1>7. ASSUME NEW n \in 0..N
        PROVE  g[n] = IF n = 0 THEN First(f) ELSE Turn(f, g[n - 1], n)
    <2>1. CASE n = 0
      BY <1>6, <2>1
    <2>2. CASE n # 0
      <3>1. n \in 1..N /\ n - 1 \in 0..N
        BY <1>1, <2>2
      <3>2. g[n - 1] \in X
        BY <1>5, <3>1
      <3>3. g[n] = F[n][g[n - 1]]
        BY <1>6, <2>2
      <3>4. F[n][g[n - 1]] = Turn(f, g[n - 1], n)
        BY <3>1, <3>2 DEF F
      <3>5. QED  BY <2>2, <3>3, <3>4
    <2>3. QED  BY <2>1, <2>2
  <1>8. g = [n \in 0..N |-> g[n]]
    BY <1>5
  <1>9. g = [n \in 0..N |-> IF n = 0 THEN First(f) ELSE Turn(f, g[n - 1], n)]
    BY <1>7, <1>8
  <1>10. Lining(g, f)
    BY <1>9 DEF Lining, N
  <1>11. QED  BY <1>10

(* After the last turn the line is sound. *)
LEMMA LiningIs ==
    ASSUME NEW f, GoodFile(f), NEW g, Lining(g, f)
    PROVE  LineSound(f, g[Len(f)], Len(f))
  <1> DEFINE N == Len(f)
             S == {n \in 0..N : LineSound(f, g[n], n)}
  <1>1. N \in Nat
    BY NamedIs
  <1>2. \A n \in 0..N : g[n] = IF n = 0 THEN First(f) ELSE Turn(f, g[n - 1], n)
    BY DEF Lining
  <1> HIDE DEF N
  <1>3. 0 \in S
    <2>1. 0 \in 0..N /\ g[0] = First(f)
      BY <1>1, <1>2
    <2>2. QED  BY <2>1, FirstIs
  <1>4. ASSUME NEW n \in 0..N, n # N, n \in S PROVE n + 1 \in S
    <2>1. n \in Nat /\ n + 1 \in 0..N /\ n + 1 # 0 /\ (n + 1) - 1 = n
      BY <1>1, <1>4
    <2>2. g[n + 1] = Turn(f, g[n], n + 1)
      BY <1>2, <2>1
    <2>3. LineSound(f, g[n], n)
      BY <1>4
    <2>4. LineSound(f, Turn(f, g[n], n + 1), n + 1)
      BY <2>1, <2>3, TurnSound
    <2>5. QED  BY <2>1, <2>2, <2>4
  <1> HIDE DEF S
  <1>5. N \in S
    BY <1>1, <1>3, <1>4, UpTo
  <1>6. QED  BY <1>5 DEF S, N

(* The sort has parents first, and without a cycle it has all roles. *)
LEMMA SortIs ==
    ASSUME NEW f, GoodFile(f)
    PROVE  /\ TopoOrder(f) \in Seq(Roles(f)) /\ IsInjective(TopoOrder(f))
           /\ \A k \in 1..Len(TopoOrder(f)) :
                 StepOf(f, TopoOrder(f)[k]).after \subseteq {TopoOrder(f)[j] : j \in 1..(k - 1)}
           /\ ~Cyclic(f) => ToSet(TopoOrder(f)) = Roles(f) /\ Len(TopoOrder(f)) = Len(f)
           /\ Len(TopoOrder(f)) = Len(f) => ToSet(TopoOrder(f)) = Roles(f)
  <1> DEFINE g == CHOOSE h : Lining(h, f)
             L == TopoOrder(f)
  <1>1. Lining(g, f)
    BY LiningSome
  <1>2. L = g[Len(f)]
    BY DEF TopoOrder, Lining, First, Turn
  <1> HIDE DEF g
  <1>3. LineSound(f, L, Len(f))
    BY <1>1, <1>2, LiningIs
  <1> HIDE DEF L
  <1>4. /\ L \in Seq(Roles(f)) /\ IsInjective(L)
        /\ \A k \in 1..Len(L) : StepOf(f, L[k]).after \subseteq {L[j] : j \in 1..(k - 1)}
        /\ \A r \in Roles(f) : StepOf(f, r).after \subseteq Served(L, Len(f)) => r \in ToSet(L)
        /\ DOMAIN L = 1..Len(L) /\ Len(L) \in Nat
    BY <1>3, LenProperties DEF LineSound
  <1>5. ToSet(L) \in SUBSET Roles(f)
    BY <1>4, ElementOfSeq DEF ToSet
  <1>6. IsFiniteSet(Roles(f)) /\ Cardinality(Roles(f)) = Len(f) /\ Len(f) \in Nat
    BY Counts, NamedIs
  <1>7. IsFiniteSet(ToSet(L)) /\ Cardinality(ToSet(L)) = Len(L)
    BY <1>4, Counted
  <1>8. Len(L) <= Len(f) /\ (Len(L) = Len(f) => ToSet(L) = Roles(f))
    BY <1>5, <1>6, <1>7, FS_Subset
  <1>9. ToSet(L) \subseteq Served(L, Len(f))
    <2>1. \A i \in 1..Len(L) : i <= Len(f)
      BY <1>4, <1>6, <1>8
    <2>2. QED  BY <1>4, <2>1 DEF ToSet, Served
  <1>10. ASSUME ~Cyclic(f) PROVE ToSet(L) = Roles(f) /\ Len(L) = Len(f)
    <2> DEFINE R == Roles(f) \ ToSet(L)
    <2>1. ASSUME NEW r \in R PROVE StepOf(f, r).after \cap R # {}
      <3>1. StepOf(f, r).after \subseteq Roles(f)
        BY StepOfIs
      <3>2. ~(StepOf(f, r).after \subseteq ToSet(L))
        BY <1>4, <1>9
      <3>3. QED  BY <3>1, <3>2
    <2>2. R = {}
      BY <1>10, <2>1 DEF Cyclic
    <2>3. ToSet(L) = Roles(f)
      BY <1>5, <2>2
    <2>4. QED  BY <1>6, <1>7, <2>3
  <1>11. /\ L \in Seq(Roles(f)) /\ IsInjective(L)
         /\ \A k \in 1..Len(L) : StepOf(f, L[k]).after \subseteq {L[j] : j \in 1..(k - 1)}
         /\ ~Cyclic(f) => ToSet(L) = Roles(f) /\ Len(L) = Len(f)
         /\ Len(L) = Len(f) => ToSet(L) = Roles(f)
    BY <1>4, <1>8, <1>10
  <1>12. QED  BY <1>11 DEF L

(* The file gives an order of its steps: each once, parents first. *)
DagSound(d) ==
    /\ d \in Seq(Steps)
    /\ \A j, k \in 1..Len(d) : d[j].role = d[k].role => j = k
    /\ \A k \in 1..Len(d) : d[k].after \subseteq {d[l].role : l \in 1..(k - 1)}

(* The search is right about every file that resolves, and the sort completes. *)
LEMMA CyclesAre ==
    ASSUME NEW f \in Seq(Steps), parse_pipeline(f), _resolve_edges(f)
    PROVE  IF _detect_cycle(f) THEN Cyclic(f) ELSE ~Cyclic(f) /\ Len(TopoOrder(f)) = Len(f)
  <1>1. GoodFile(f)
    BY DEF GoodFile
  <1>2. IF _detect_cycle(f) THEN Cyclic(f) ELSE ~Cyclic(f)
    BY <1>1, SearchDecides
  <1>3. ~Cyclic(f) => Len(TopoOrder(f)) = Len(f)
    BY <1>1, SortIs
  <1>4. QED  BY <1>2, <1>3

(* The order a tick walks is the file's steps, each once, parents first. *)
LEMMA BuiltIs ==
    ASSUME NEW f \in Seq(Steps), build_dag(f),
           NEW d, d = [k \in DOMAIN f |-> StepOf(f, TopoOrder(f)[k])]
    PROVE  DagSound(d) /\ ToSet(d) = ToSet(f)
  <1> DEFINE L == TopoOrder(f)
  <1>1. GoodFile(f) /\ Len(L) = Len(f)
    BY DEF GoodFile, build_dag
  <1>2. DOMAIN f = 1..Len(f) /\ Len(f) \in Nat
    BY <1>1, NamedIs
  <1>3. /\ L \in Seq(Roles(f)) /\ IsInjective(L) /\ ToSet(L) = Roles(f)
        /\ \A k \in 1..Len(L) : StepOf(f, L[k]).after \subseteq {L[j] : j \in 1..(k - 1)}
    BY <1>1, SortIs
  <1> HIDE DEF L
  <1>4. DOMAIN L = 1..Len(f)
    BY <1>1, <1>3, LenProperties
  <1>5. ASSUME NEW k \in 1..Len(f)
        PROVE  /\ L[k] \in Roles(f) /\ d[k] = StepOf(f, L[k]) /\ d[k] \in Steps /\ d[k] \in ToSet(f)
               /\ d[k].role = L[k]
    <2>1. L[k] \in Roles(f)
      BY <1>1, <1>3, ElementOfSeq
    <2>2. d[k] = StepOf(f, L[k])
      BY <1>2 DEF L
    <2>3. StepOf(f, L[k]) \in Steps /\ StepOf(f, L[k]) \in ToSet(f) /\ StepOf(f, L[k]).role = L[k]
      BY <1>1, <2>1, StepOfIs
    <2>4. QED  BY <2>1, <2>2, <2>3
  <1>6. d \in Seq(Steps) /\ Len(d) = Len(f) /\ DOMAIN d = 1..Len(f)
    <2>1. d = [k \in 1..Len(f) |-> StepOf(f, L[k])]
      BY <1>2 DEF L
    <2>2. \A k \in 1..Len(f) : StepOf(f, L[k]) \in Steps
      BY <1>5
    <2> HIDE DEF L
    <2>3. [k \in 1..Len(f) |-> StepOf(f, L[k])] \in [1..Len(f) -> Steps]
      BY <2>2
    <2>4. d \in [1..Len(f) -> Steps]
      BY <2>1, <2>3
    <2>5. QED  BY <1>2, <2>4
  <1>7. \A j, k \in 1..Len(d) : d[j].role = d[k].role => j = k
    BY <1>3, <1>4, <1>5, <1>6 DEF IsInjective
  <1>8. ASSUME NEW k \in 1..Len(d) PROVE d[k].after \subseteq {d[l].role : l \in 1..(k - 1)}
    <2>1. \A j \in 1..(k - 1) : j \in 1..Len(f) /\ d[j].role = L[j]
      BY <1>2, <1>5, <1>6
    <2>2. {L[j] : j \in 1..(k - 1)} \subseteq {d[l].role : l \in 1..(k - 1)}
      BY <2>1
    <2>3. StepOf(f, L[k]).after \subseteq {L[j] : j \in 1..(k - 1)}
      BY <1>1, <1>3, <1>6
    <2>4. QED  BY <1>5, <1>6, <2>2, <2>3
  <1>9. ToSet(d) = ToSet(f)
    <2>1. ToSet(d) \subseteq ToSet(f)
      BY <1>5, <1>6 DEF ToSet
    <2>2. ASSUME NEW k \in 1..Len(f) PROVE f[k] \in ToSet(d)
      <3>1. f[k].role \in Roles(f)
        BY <1>2 DEF Roles
      <3>2. PICK j \in 1..Len(f) : L[j] = f[k].role
        BY <1>3, <1>4, <3>1 DEF ToSet
      <3>3. d[j] \in ToSet(f) /\ d[j].role = f[k].role
        BY <1>5, <3>2
      <3>4. PICK i \in 1..Len(f) : f[i] = d[j]
        BY <1>2, <3>3 DEF ToSet
      <3>5. i = k
        <4>1. /\ IsInjective(Named(f)) /\ DOMAIN Named(f) = DOMAIN f
              /\ \A q \in DOMAIN f : Named(f)[q] = f[q].role
          BY <1>1, NamedIs
        <4>2. Named(f)[i] = Named(f)[k]
          BY <1>2, <3>3, <3>4, <4>1
        <4>3. QED  BY <1>2, <4>1, <4>2 DEF IsInjective
      <3>6. QED  BY <1>6, <3>4, <3>5 DEF ToSet
    <2>3. QED  BY <1>2, <2>1, <2>2 DEF ToSet
  <1>10. QED  BY <1>6, <1>7, <1>8, <1>9 DEF DagSound

-----------------------------------------------------------------------------
(* The inductive invariant of the chain. *)
WorkerSays == {"none", "open", "merged", "failed"}
Ended == {"ok", "failed", "skipped"}
Tells == [issue : 1..NumIssues, status : {"no_pr", "open", "merged", "failed"}]

(* The outcomes are those of the steps behind, and of the handlers that returned. *)
WalkSound ==
    /\ DagSound(dag) /\ (fileEdits = 0 => ToSet(dag) = ToSet(file))
    /\ pos \in 1..(Len(dag) + 1)
    /\ DOMAIN outcomes = {dag[k].role : k \in 1..(pos - 1)}
    /\ worker \in {"open", "merged"} => "worker" \in DOMAIN all_prior

OutcomesSound ==
    /\ \A r \in DOMAIN outcomes : outcomes[r] \in Ended
    /\ \A r \in DOMAIN all_prior : r \in DOMAIN outcomes /\ outcomes[r] = all_prior[r]

(* So many issues are behind as outcomes are returned. *)
ReturnedSound ==
    /\ returned \in Seq(Tells) /\ \A k \in 1..Len(returned) : returned[k].issue = k
    /\ stage = "tick" => current \in 1..NumIssues /\ Len(returned) = current - 1
    /\ stage = "done" => Len(returned) = NumIssues
    /\ stage \notin {"tick", "done"} => returned = <<>>

PipeSound ==
    /\ file \in Files \cup Edits /\ fileEdits \in Nat /\ worker \in WorkerSays
    /\ stage \in {"boot", "between", "tick", "done", "invalid", "raised"}
    /\ stage = "tick" => WalkSound
    /\ OutcomesSound
    /\ ReturnedSound
    /\ FailureBlocksMerge
    /\ OpenedIsReviewed

(* A step of the walk, whatever its handler did. *)
Walks(status) ==
    /\ InTick /\ Ends(status)
    /\ all_prior' = all_prior \/ all_prior' = Put_(all_prior, step.role, status)
    /\ UNCHANGED <<file, stage, dag, current, labels, returned, fileEdits>>

(* In the walk, the step has not been. *)
LEMMA AtStep ==
    ASSUME PipeSound, InTick
    PROVE  /\ stage = "tick" /\ WalkSound /\ pos \in 1..Len(dag) /\ pos \in Nat /\ Len(dag) \in Nat
           /\ step = dag[pos] /\ step.role \notin DOMAIN outcomes
  <1>1. stage = "tick" /\ WalkSound
    BY DEF PipeSound, InTick
  <1>2. dag \in Seq(Steps) /\ Len(dag) \in Nat
    BY <1>1, LenProperties DEF WalkSound, DagSound
  <1>3. pos \in 1..Len(dag) /\ pos \in Nat
    BY <1>1, <1>2 DEF WalkSound, InTick
  <1>4. ASSUME NEW k \in 1..(pos - 1) PROVE dag[k].role # dag[pos].role
    <2>1. k \in 1..Len(dag) /\ k # pos
      BY <1>2, <1>3
    <2>2. QED  BY <1>1, <1>3, <2>1 DEF WalkSound, DagSound
  <1>5. QED  BY <1>1, <1>2, <1>3, <1>4 DEF step, WalkSound

(* Whatever its handler did, a step is recorded under its role. *)
LEMMA WalksKeeps ==
    ASSUME PipeSound, NEW status \in Ended, Walks(status),
           worker' \in {"open", "merged"} => worker' = worker \/ "worker" \in DOMAIN all_prior'
    PROVE  WalkSound' /\ OutcomesSound' /\ ReturnedSound'
           /\ (file \in Files \cup Edits /\ fileEdits \in Nat)' /\ stage' = "tick"
  <1> DEFINE r == step.role
  <1>1. /\ stage = "tick" /\ WalkSound /\ pos \in 1..Len(dag) /\ pos \in Nat /\ Len(dag) \in Nat
        /\ step = dag[pos] /\ r \notin DOMAIN outcomes
    BY AtStep DEF Walks
  <1>2. /\ pos' = pos + 1 /\ outcomes' = Put_(outcomes, r, status)
        /\ all_prior' = all_prior \/ all_prior' = Put_(all_prior, r, status)
        /\ file' = file /\ stage' = stage /\ dag' = dag /\ current' = current /\ returned' = returned
        /\ fileEdits' = fileEdits
    BY DEF Walks, Ends
  <1> HIDE DEF r
  <1>3. /\ DOMAIN outcomes' = DOMAIN outcomes \cup {r} /\ outcomes'[r] = status
        /\ \A y \in DOMAIN outcomes : y # r => outcomes'[y] = outcomes[y]
    <2>1. /\ DOMAIN Put_(outcomes, r, status) = DOMAIN outcomes \cup {r} /\ Put_(outcomes, r, status)[r] = status
          /\ \A y \in DOMAIN outcomes : y # r => Put_(outcomes, r, status)[y] = outcomes[y]
      BY DEF Put_
    <2>2. QED  BY <1>2, <2>1
  <1>4. /\ DOMAIN all_prior' \subseteq DOMAIN all_prior \cup {r} /\ DOMAIN all_prior \subseteq DOMAIN all_prior'
        /\ r \in DOMAIN all_prior' => r \in DOMAIN all_prior \/ all_prior'[r] = status
        /\ \A y \in DOMAIN all_prior : y # r => all_prior'[y] = all_prior[y]
    <2>1. CASE all_prior' = all_prior
      BY <2>1
    <2>2. CASE all_prior' = Put_(all_prior, r, status)
      <3>1. /\ DOMAIN Put_(all_prior, r, status) = DOMAIN all_prior \cup {r}
            /\ Put_(all_prior, r, status)[r] = status
            /\ \A y \in DOMAIN all_prior : y # r => Put_(all_prior, r, status)[y] = all_prior[y]
        BY DEF Put_
      <3>2. QED  BY <2>2, <3>1
    <2>3. QED  BY <1>2, <2>1, <2>2
  <1>5. /\ \A y \in DOMAIN outcomes : outcomes[y] \in Ended
        /\ \A y \in DOMAIN all_prior : y \in DOMAIN outcomes /\ outcomes[y] = all_prior[y]
    BY DEF PipeSound, OutcomesSound
  <1>6. OutcomesSound'
    <2>1. \A y \in DOMAIN outcomes' : outcomes'[y] \in Ended
      BY <1>3, <1>5
    <2>2. \A y \in DOMAIN all_prior' : y \in DOMAIN outcomes' /\ outcomes'[y] = all_prior'[y]
      BY <1>1, <1>3, <1>4, <1>5 DEF r
    <2>3. QED  BY <2>1, <2>2 DEF OutcomesSound
  <1>7. WalkSound'
    <2>1. pos' \in 1..(Len(dag') + 1)
      BY <1>1, <1>2
    <2>2. DOMAIN outcomes' = {dag'[k].role : k \in 1..(pos' - 1)}
      <3>1. \A k \in 1..(pos' - 1) : k \in 1..(pos - 1) \/ k = pos
        BY <1>1, <1>2
      <3>2. pos \in 1..(pos' - 1) /\ \A k \in 1..(pos - 1) : k \in 1..(pos' - 1)
        BY <1>1, <1>2
      <3>3. DOMAIN outcomes = {dag[k].role : k \in 1..(pos - 1)} /\ r = dag[pos].role
        BY <1>1 DEF WalkSound, r
      <3>4. {dag[k].role : k \in 1..(pos' - 1)} = {dag[k].role : k \in 1..(pos - 1)} \cup {dag[pos].role}
        BY <3>1, <3>2
      <3>5. QED  BY <1>2, <1>3, <3>3, <3>4
    <2>3. worker' \in {"open", "merged"} => "worker" \in DOMAIN all_prior'
      BY <1>1, <1>4 DEF WalkSound
    <2>4. DagSound(dag') /\ (fileEdits' = 0 => ToSet(dag') = ToSet(file'))
      BY <1>1, <1>2 DEF WalkSound
    <2>5. QED  BY <2>1, <2>2, <2>3, <2>4 DEF WalkSound
  <1>8. ReturnedSound'
    BY <1>2 DEF PipeSound, ReturnedSound
  <1>9. QED  BY <1>1, <1>2, <1>6, <1>7, <1>8 DEF PipeSound

(* The critic sees the worker, or is before it. *)
LEMMA WalksReviews ==
    ASSUME PipeSound, NEW status \in Ended, Walks(status),
           step.role # "worker" => worker' = worker,
           step.role # "critic" => verdict' = verdict,
           step.role = "critic" => status # "ok" \/ worker' \notin {"open", "merged"} \/ verdict' # "none"
    PROVE  OpenedIsReviewed'
  <1>1. /\ stage = "tick" /\ WalkSound /\ pos \in 1..Len(dag) /\ pos \in Nat /\ Len(dag) \in Nat
        /\ step = dag[pos] /\ step.role \notin DOMAIN outcomes
    BY AtStep DEF Walks
  <1>2. outcomes' = Put_(outcomes, step.role, status) /\ dag' = dag /\ DOMAIN dag = 1..Len(dag)
    BY <1>1 DEF Walks, Ends, WalkSound, DagSound
  <1>3. /\ DOMAIN outcomes' = DOMAIN outcomes \cup {step.role} /\ outcomes'[step.role] = status
        /\ \A y \in DOMAIN outcomes : y # step.role => outcomes'[y] = outcomes[y]
    <2>1. /\ DOMAIN Put_(outcomes, step.role, status) = DOMAIN outcomes \cup {step.role}
          /\ Put_(outcomes, step.role, status)[step.role] = status
          /\ \A y \in DOMAIN outcomes : y # step.role => Put_(outcomes, step.role, status)[y] = outcomes[y]
      BY DEF Put_
    <2>2. QED  BY <1>2, <2>1
  <1>4. SUFFICES ASSUME critic_enabled, {"worker", "critic"} \subseteq DOMAIN outcomes'
                 PROVE  \/ outcomes'["critic"] # "ok" \/ worker' \notin {"open", "merged"}
                        \/ verdict' # "none"
                        \/ \E k, l \in DOMAIN dag : dag[k].role = "critic" /\ dag[l].role = "worker" /\ k < l
    BY <1>2 DEF OpenedIsReviewed
  <1>5. CASE step.role = "critic"
    BY <1>3, <1>5
  <1>6. CASE step.role = "worker"
    <2>1. "critic" \in DOMAIN outcomes
      BY <1>3, <1>4, <1>6
    <2>2. PICK k \in 1..(pos - 1) : dag[k].role = "critic"
      BY <1>1, <2>1 DEF WalkSound
    <2>3. k \in DOMAIN dag /\ pos \in DOMAIN dag /\ k < pos
      BY <1>1, <1>2
    <2>4. QED  BY <1>1, <1>6, <2>2, <2>3
  <1>7. CASE step.role \notin {"worker", "critic"}
    <2>1. {"worker", "critic"} \subseteq DOMAIN outcomes
      BY <1>3, <1>4, <1>7
    <2>2. outcomes'["critic"] = outcomes["critic"] /\ worker' = worker /\ verdict' = verdict
      BY <1>3, <1>7, <2>1
    <2>3. OpenedIsReviewed
      BY DEF PipeSound
    <2>4. QED  BY <1>1, <1>4, <2>1, <2>2, <2>3 DEF OpenedIsReviewed
  <1>8. QED  BY <1>5, <1>6, <1>7

(* The handlers walk on; what a step on all_approve ran over did not fail. *)
LEMMA HandlesIs ==
    ASSUME PipeSound, NEW role, Handles(role), NEW status \in Ended, Returns(status) \/ (Raises /\ status = "failed")
    PROVE  Walks(status) /\ step.role = role /\ FailureBlocksMerge'
           /\ (Returns(status) => role \in DOMAIN all_prior')
  <1>1. Walks(status) /\ step.role = role
    BY DEF Handles, Returns, Raises, Walks
  <1>2. Returns(status) => role \in DOMAIN all_prior'
    BY DEF Handles, Returns, Put_
  <1>3. FailureBlocksMerge
    BY DEF PipeSound
  <1>4. merges' = IF step.all_approve THEN merges \cup {[ran |-> outcomes, verdict |-> verdict]} ELSE merges
    BY DEF Handles
  <1>5. CASE step.all_approve
    <2>1. AllApprove
      BY <1>5 DEF Handles, _evaluate_condition
    <2>2. \A r \in DOMAIN outcomes : outcomes[r] # "failed"
      BY <2>1 DEF AllApprove
    <2> DEFINE m == [ran |-> outcomes, verdict |-> verdict]
    <2>3. m.ran = outcomes
      OBVIOUS
    <2>4. merges' = merges \cup {m}
      BY <1>4, <1>5
    <2> HIDE DEF m
    <2>5. QED  BY <1>1, <1>2, <1>3, <2>2, <2>3, <2>4 DEF FailureBlocksMerge
  <1>6. CASE ~step.all_approve
    BY <1>1, <1>2, <1>3, <1>4, <1>6 DEF FailureBlocksMerge
  <1>7. QED  BY <1>5, <1>6

LEMMA SkipKeeps == PipeSound /\ Skip => PipeSound'
  <1> SUFFICES ASSUME PipeSound, Skip PROVE PipeSound'
    OBVIOUS
  <1>1. Walks("skipped") /\ "skipped" \in Ended
    BY DEF Skip, Walks, Ended
  <1>2. worker' = worker /\ verdict' = verdict /\ merges' = merges
    BY DEF Skip
  <1>3. /\ WalkSound' /\ OutcomesSound' /\ ReturnedSound'
        /\ (file \in Files \cup Edits /\ fileEdits \in Nat)' /\ stage' = "tick"
    BY <1>1, <1>2, WalksKeeps
  <1>4. OpenedIsReviewed'
    BY <1>1, <1>2, WalksReviews
  <1>5. FailureBlocksMerge' /\ worker' \in WorkerSays
    BY <1>2 DEF PipeSound, FailureBlocksMerge
  <1>6. QED  BY <1>3, <1>4, <1>5 DEF PipeSound

LEMMA NoHandlerKeeps == PipeSound /\ NoHandler => PipeSound'
  <1> SUFFICES ASSUME PipeSound, NoHandler PROVE PipeSound'
    OBVIOUS
  <1>1. Walks("failed") /\ "failed" \in Ended
    BY DEF NoHandler, Walks, Ended
  <1>2. worker' = worker /\ verdict' = verdict /\ merges' = merges
    BY DEF NoHandler
  <1>3. /\ WalkSound' /\ OutcomesSound' /\ ReturnedSound'
        /\ (file \in Files \cup Edits /\ fileEdits \in Nat)' /\ stage' = "tick"
    BY <1>1, <1>2, WalksKeeps
  <1>4. OpenedIsReviewed'
    BY <1>1, <1>2, WalksReviews
  <1>5. FailureBlocksMerge' /\ worker' \in WorkerSays
    BY <1>2 DEF PipeSound, FailureBlocksMerge
  <1>6. QED  BY <1>3, <1>4, <1>5 DEF PipeSound

(* The po, and what the operator registered. *)
LEMMA OthersKeep ==
    ASSUME PipeSound, NEW role, role \notin {"worker", "critic"}, Handles(role),
           NEW status \in Ended, Returns(status) \/ (Raises /\ status = "failed"),
           UNCHANGED <<worker, verdict>>
    PROVE  PipeSound'
  <1>1. Walks(status) /\ step.role = role /\ FailureBlocksMerge'
    BY HandlesIs
  <1>2. /\ WalkSound' /\ OutcomesSound' /\ ReturnedSound'
        /\ (file \in Files \cup Edits /\ fileEdits \in Nat)' /\ stage' = "tick"
    BY <1>1, WalksKeeps
  <1>3. OpenedIsReviewed'
    BY <1>1, WalksReviews
  <1>4. worker' \in WorkerSays
    BY DEF PipeSound
  <1>5. QED  BY <1>1, <1>2, <1>3, <1>4 DEF PipeSound

LEMMA WorkerKeeps == PipeSound /\ worker_handler => PipeSound'
  <1> SUFFICES ASSUME PipeSound, worker_handler PROVE PipeSound'
    OBVIOUS
  <1>1. PICK status \in Ended :
           /\ Returns(status) \/ (Raises /\ status = "failed")
           /\ worker' \in {"open", "merged"} => worker' = worker \/ Returns(status)
    BY DEF worker_handler, Ended
  <1>2. Handles("worker") /\ verdict' = verdict /\ worker' \in WorkerSays
    BY DEF worker_handler, PipeSound, WorkerSays
  <1>3. /\ Walks(status) /\ step.role = "worker" /\ FailureBlocksMerge'
        /\ Returns(status) => "worker" \in DOMAIN all_prior'
    BY <1>1, <1>2, HandlesIs
  <1>4. /\ WalkSound' /\ OutcomesSound' /\ ReturnedSound'
        /\ (file \in Files \cup Edits /\ fileEdits \in Nat)' /\ stage' = "tick"
    BY <1>1, <1>3, WalksKeeps
  <1>5. OpenedIsReviewed'
    BY <1>2, <1>3, WalksReviews
  <1>6. QED  BY <1>2, <1>3, <1>4, <1>5 DEF PipeSound

LEMMA CriticKeeps == PipeSound /\ critic_handler => PipeSound'
  <1> SUFFICES ASSUME PipeSound, critic_handler PROVE PipeSound'
    OBVIOUS
  <1>1. Handles("critic") /\ worker' = worker /\ worker' \in WorkerSays
    BY DEF critic_handler, PipeSound
  <1>2. "worker" \in {"worker", "critic"} /\ (worker \in {"open", "merged"} => SeesWorker)
    <2>1. WalkSound
      BY <1>1 DEF PipeSound, Handles, InTick
    <2>2. QED  BY <2>1 DEF WalkSound, SeesWorker
  <1>3. CASE ~critic_enabled
    <2>1. verdict' = verdict /\ Returns("ok") /\ "ok" \in Ended
      BY <1>3 DEF critic_handler, Ended
    <2>2. Walks("ok") /\ step.role = "critic" /\ FailureBlocksMerge'
      BY <1>1, <2>1, HandlesIs
    <2>3. /\ WalkSound' /\ OutcomesSound' /\ ReturnedSound'
          /\ (file \in Files \cup Edits /\ fileEdits \in Nat)' /\ stage' = "tick"
      BY <1>1, <2>1, <2>2, WalksKeeps
    <2>4. OpenedIsReviewed'
      BY <1>3 DEF OpenedIsReviewed
    <2>5. QED  BY <1>1, <2>2, <2>3, <2>4 DEF PipeSound
  <1>4. CASE critic_enabled
    <2>1. PICK status \in Ended :
             /\ Returns(status)
             /\ status # "ok" \/ worker' \notin {"open", "merged"} \/ verdict' # "none"
      <3>1. CASE worker \in {"open", "merged"}
        BY <1>2, <1>4, <3>1 DEF critic_handler, Ended
      <3>2. CASE worker \notin {"open", "merged"}
        BY <1>1, <3>2 DEF critic_handler, Ended
      <3>3. QED  BY <3>1, <3>2
    <2>2. Walks(status) /\ step.role = "critic" /\ FailureBlocksMerge'
      BY <1>1, <2>1, HandlesIs
    <2>3. /\ WalkSound' /\ OutcomesSound' /\ ReturnedSound'
          /\ (file \in Files \cup Edits /\ fileEdits \in Nat)' /\ stage' = "tick"
      BY <1>1, <2>1, <2>2, WalksKeeps
    <2>4. OpenedIsReviewed'
      BY <1>1, <2>1, <2>2, WalksReviews
    <2>5. QED  BY <1>1, <2>2, <2>3, <2>4 DEF PipeSound
  <1>5. QED  BY <1>3, <1>4

(* Before the first step of an issue nothing is known of it. *)
LEMMA BeginIs ==
    ASSUME NEW n, BeginIssue(n), DagSound(dag'), fileEdits' = 0 => ToSet(dag') = ToSet(file')
    PROVE  /\ WalkSound' /\ OutcomesSound' /\ OpenedIsReviewed' /\ worker' \in WorkerSays /\ current' = n
  <1>1. /\ current' = n /\ pos' = 1 /\ outcomes' = None /\ all_prior' = None /\ worker' = "none"
    BY DEF BeginIssue
  <1>2. DOMAIN None = {}
    BY DEF None
  <1>3. DOMAIN outcomes' = {} /\ DOMAIN all_prior' = {}
    BY <1>1, <1>2
  <1>4. Len(dag') \in Nat
    BY LenProperties DEF DagSound
  <1>5. pos' \in 1..(Len(dag') + 1) /\ {dag'[k].role : k \in 1..(pos' - 1)} = {}
    BY <1>1, <1>4
  <1>6. WalkSound'
    BY <1>1, <1>3, <1>5 DEF WalkSound
  <1>7. OutcomesSound' /\ OpenedIsReviewed'
    BY <1>3 DEF OutcomesSound, OpenedIsReviewed
  <1>8. QED  BY <1>1, <1>6, <1>7 DEF WorkerSays

LEMMA DispatchKeeps == PipeSound /\ dispatch_via_pipeline => PipeSound'
  <1> SUFFICES ASSUME PipeSound, dispatch_via_pipeline PROVE PipeSound'
    OBVIOUS
  <1>1. /\ stage = "between" /\ file' = file /\ returned' = returned /\ merges' = merges
        /\ fileEdits' = fileEdits
    BY DEF dispatch_via_pipeline
  <1>2. /\ file \in Files \cup Edits /\ fileEdits \in Nat /\ returned = <<>> /\ FailureBlocksMerge
        /\ worker \in WorkerSays /\ OutcomesSound /\ OpenedIsReviewed
    BY <1>1 DEF PipeSound, ReturnedSound
  <1>3. FailureBlocksMerge'
    BY <1>1, <1>2 DEF FailureBlocksMerge
  <1>4. returned' \in Seq(Tells) /\ Len(returned') = 0
    BY <1>1, <1>2
  <1>5. CASE build_dag(file)
    <2>1. /\ stage' = "tick" /\ BeginIssue(1)
          /\ dag' = [k \in DOMAIN file |-> StepOf(file, TopoOrder(file)[k])]
      BY <1>5 DEF dispatch_via_pipeline
    <2>2. file \in Seq(Steps)
      BY <1>2, PipelineAssumption
    <2>3. DagSound(dag') /\ ToSet(dag') = ToSet(file')
      BY <1>1, <1>5, <2>1, <2>2, BuiltIs
    <2>4. WalkSound' /\ OutcomesSound' /\ OpenedIsReviewed' /\ worker' \in WorkerSays /\ current' = 1
      BY <2>1, <2>3, BeginIs
    <2>5. 1 \in 1..NumIssues
      BY PipelineAssumption
    <2>6. ReturnedSound'
      BY <1>4, <2>1, <2>4, <2>5 DEF ReturnedSound
    <2>7. QED  BY <1>1, <1>2, <1>3, <2>1, <2>4, <2>6 DEF PipeSound
  <1>6. CASE ~build_dag(file)
    <2>1. stage' = "raised" /\ UNCHANGED <<dag, current, pos, outcomes, all_prior, labels, worker, verdict>>
      BY <1>6 DEF dispatch_via_pipeline
    <2>2. ReturnedSound'
      BY <1>1, <1>2, <1>4, <2>1 DEF ReturnedSound
    <2>3. OutcomesSound' /\ OpenedIsReviewed'
      BY <1>2, <2>1 DEF OutcomesSound, OpenedIsReviewed
    <2>4. QED  BY <1>1, <1>2, <1>3, <2>1, <2>2, <2>3 DEF PipeSound
  <1>7. QED  BY <1>5, <1>6

LEMMA IssueDoneKeeps == PipeSound /\ IssueDone => PipeSound'
  <1> SUFFICES ASSUME PipeSound, IssueDone PROVE PipeSound'
    OBVIOUS
  <1>1. /\ stage = "tick" /\ file' = file /\ dag' = dag /\ merges' = merges /\ fileEdits' = fileEdits
        /\ returned' = returned \o IssueOutcome
    BY DEF IssueDone
  <1>2. /\ file \in Files \cup Edits /\ fileEdits \in Nat /\ FailureBlocksMerge /\ WalkSound
        /\ worker \in WorkerSays /\ OutcomesSound /\ OpenedIsReviewed
        /\ returned \in Seq(Tells) /\ \A k \in 1..Len(returned) : returned[k].issue = k
        /\ current \in 1..NumIssues /\ Len(returned) = current - 1 /\ NumIssues \in Nat
    BY <1>1, PipelineAssumption DEF PipeSound, ReturnedSound
  <1>3. FailureBlocksMerge'
    BY <1>1, <1>2 DEF FailureBlocksMerge
  <1> DEFINE o == [issue |-> current, status |-> IF worker = "none" THEN "no_pr" ELSE worker]
  <1>4. o \in Tells /\ o.issue = current /\ returned' = returned \o <<o>>
    <2>1. (IF worker = "none" THEN "no_pr" ELSE worker) \in {"no_pr", "open", "merged", "failed"}
      BY <1>2 DEF WorkerSays
    <2>2. QED  BY <1>1, <1>2, <2>1 DEF Tells, IssueOutcome
  <1> HIDE DEF o
  <1>5. returned' = Append(returned, o)
    BY <1>2, <1>4
  <1>6. /\ returned' \in Seq(Tells) /\ Len(returned') = current
        /\ \A k \in 1..current : returned'[k].issue = k
    <2>1. /\ Append(returned, o) \in Seq(Tells) /\ Len(Append(returned, o)) = Len(returned) + 1
          /\ Append(returned, o)[Len(returned) + 1] = o
          /\ \A k \in 1..Len(returned) : Append(returned, o)[k] = returned[k]
      BY <1>2, <1>4, AppendProperties
    <2>2. Len(returned) + 1 = current
      BY <1>2
    <2>3. \A k \in 1..current : k \in 1..Len(returned) \/ k = current
      BY <1>2
    <2>4. QED  BY <1>2, <1>4, <1>5, <2>1, <2>2, <2>3
  <1>7. CASE current < NumIssues
    <2>1. stage' = stage /\ BeginIssue(current + 1)
      BY <1>7 DEF IssueDone
    <2>2. DagSound(dag') /\ (fileEdits' = 0 => ToSet(dag') = ToSet(file'))
      BY <1>1, <1>2 DEF WalkSound
    <2>3. WalkSound' /\ OutcomesSound' /\ OpenedIsReviewed' /\ worker' \in WorkerSays /\ current' = current + 1
      BY <2>1, <2>2, BeginIs
    <2>4. current + 1 \in 1..NumIssues /\ (current + 1) - 1 = current
      BY <1>2, <1>7
    <2>5. ReturnedSound'
      BY <1>1, <1>6, <2>1, <2>3, <2>4 DEF ReturnedSound
    <2>6. QED  BY <1>1, <1>2, <1>3, <2>1, <2>3, <2>5 DEF PipeSound
  <1>8. CASE ~(current < NumIssues)
    <2>1. stage' = "done" /\ UNCHANGED <<current, pos, outcomes, all_prior, labels, worker, verdict>>
      BY <1>8 DEF IssueDone
    <2>2. current = NumIssues
      BY <1>2, <1>8
    <2>3. ReturnedSound'
      BY <1>6, <2>1, <2>2 DEF ReturnedSound
    <2>4. OutcomesSound' /\ OpenedIsReviewed'
      BY <1>2, <2>1 DEF OutcomesSound, OpenedIsReviewed
    <2>5. QED  BY <1>1, <1>2, <1>3, <2>1, <2>3, <2>4 DEF PipeSound
  <1>9. QED  BY <1>7, <1>8

LEMMA PipeStarts == PipeInit => PipeSound
  <1> SUFFICES ASSUME PipeInit PROVE PipeSound
    OBVIOUS
  <1>1. /\ file \in Files /\ stage = "boot" /\ worker = "none" /\ returned = <<>> /\ merges = {}
        /\ fileEdits = 0 /\ outcomes = None /\ all_prior = None
    BY DEF PipeInit
  <1>2. DOMAIN outcomes = {} /\ DOMAIN all_prior = {}
    BY <1>1 DEF None
  <1>3. OutcomesSound /\ FailureBlocksMerge /\ OpenedIsReviewed
    BY <1>1, <1>2 DEF OutcomesSound, FailureBlocksMerge, OpenedIsReviewed
  <1>4. ReturnedSound
    BY <1>1 DEF ReturnedSound
  <1>5. QED  BY <1>1, <1>3, <1>4 DEF PipeSound, WorkerSays

(* Every step of the chain keeps the invariant. *)
LEMMA PipeSteps == PipeSound /\ [PipeNext]_pipeVars => PipeSound'
  <1> SUFFICES ASSUME PipeSound, [PipeNext]_pipeVars PROVE PipeSound'
    OBVIOUS
  <1>1. CASE UNCHANGED pipeVars
    BY <1>1 DEF pipeVars, PipeSound, WalkSound, OutcomesSound, ReturnedSound, FailureBlocksMerge,
                OpenedIsReviewed
  <1>2. CASE _validate_pipeline_if_configured
    BY <1>2 DEF _validate_pipeline_if_configured, PipeSound, OutcomesSound, ReturnedSound,
                FailureBlocksMerge, OpenedIsReviewed
  <1>3. CASE OperatorEdits
    <2>1. /\ fileEdits' = fileEdits + 1 /\ file' \in Edits
          /\ UNCHANGED <<stage, dag, current, pos, outcomes, all_prior, labels, worker, verdict,
                         returned, merges>>
      BY <1>3 DEF OperatorEdits
    <2>2. fileEdits' \in Nat /\ fileEdits' # 0
      BY <2>1 DEF PipeSound
    <2>3. WalkSound => WalkSound'
      BY <2>1, <2>2 DEF WalkSound
    <2>4. QED  BY <2>1, <2>2, <2>3 DEF PipeSound, OutcomesSound, ReturnedSound, FailureBlocksMerge,
                                        OpenedIsReviewed
  <1>4. CASE dispatch_via_pipeline
    BY <1>4, DispatchKeeps
  <1>5. CASE Skip
    BY <1>5, SkipKeeps
  <1>6. CASE NoHandler
    BY <1>6, NoHandlerKeeps
  <1>7. CASE po_handler
    <2>1. Handles("po") /\ Returns("ok") /\ "ok" \in Ended /\ UNCHANGED <<worker, verdict>>
      BY <1>7 DEF po_handler, Ended
    <2>2. QED  BY <2>1, OthersKeep
  <1>8. CASE worker_handler
    BY <1>8, WorkerKeeps
  <1>9. CASE critic_handler
    BY <1>9, CriticKeeps
  <1>10. CASE extra_handler
    <2>1. PICK r \in Handled \ {"po", "worker", "critic"} : Handles(r)
      BY <1>10 DEF extra_handler
    <2>2. PICK status \in Ended : Returns(status) \/ (Raises /\ status = "failed")
      BY <1>10 DEF extra_handler, Ended
    <2>3. UNCHANGED <<worker, verdict>>
      BY <1>10 DEF extra_handler
    <2>4. QED  BY <2>1, <2>2, <2>3, OthersKeep
  <1>11. CASE IssueDone
    BY <1>11, IssueDoneKeeps
  <1>12. QED
    BY <1>1, <1>2, <1>3, <1>4, <1>5, <1>6, <1>7, <1>8, <1>9, <1>10, <1>11 DEF PipeNext

(* The inductive invariant has the properties. *)
LEMMA PipeSoundIs == PipeSound => PipeInv
  <1> SUFFICES ASSUME PipeSound PROVE PipeInv
    OBVIOUS
  <1>1. PipeTypeOK
    BY DEF PipeSound, WalkSound, OutcomesSound, Ended, PipeTypeOK
  <1>2. CyclesRejected
    <2>1. file \in Seq(Steps)
      BY PipelineAssumption DEF PipeSound
    <2>2. QED  BY <2>1, CyclesAre DEF CyclesRejected
  <1>3. OrderIsTopological
    <2>1. SUFFICES ASSUME stage = "tick"
                   PROVE  /\ IsInjective(dag)
                          /\ \A k \in DOMAIN dag : dag[k].after \subseteq {dag[l].role : l \in 1..(k - 1)}
                          /\ fileEdits = 0 => ToSet(dag) = ToSet(file)
      BY DEF OrderIsTopological
    <2>2. WalkSound
      BY <2>1 DEF PipeSound
    <2>3. DOMAIN dag = 1..Len(dag)
      BY <2>2, LenProperties DEF WalkSound, DagSound
    <2>4. IsInjective(dag)
      BY <2>2, <2>3 DEF WalkSound, DagSound, IsInjective
    <2>5. QED  BY <2>2, <2>3, <2>4 DEF WalkSound, DagSound
  <1>4. FailureBlocksMerge /\ OpenedIsReviewed
    BY DEF PipeSound
  <1>5. OneOutcomeEach
    <2>1. returned \in Seq(Tells) /\ DOMAIN returned = 1..Len(returned)
      BY LenProperties DEF PipeSound, ReturnedSound
    <2>2. QED  BY <2>1 DEF PipeSound, ReturnedSound, OneOutcomeEach
  <1>6. QED  BY <1>1, <1>2, <1>3, <1>4, <1>5 DEF PipeInv

(* What a pipeline file that was accepted promises for every issue: a cycle is *)
(* found exactly when there is one, the walk has every step once and after its *)
(* parents, a failure anywhere blocks a step on all_approve, the critic sees   *)
(* the worker however far back, and each issue has one outcome, in order.      *)
THEOREM PipelineHolds == PipeSpec => []PipeInv
  <1>1. PipeInit => PipeSound
    BY PipeStarts
  <1>2. PipeSound /\ [PipeNext]_pipeVars => PipeSound'
    BY PipeSteps
  <1>3. PipeSound => PipeInv
    BY PipeSoundIs
  <1>4. QED  BY <1>1, <1>2, <1>3, PTL DEF PipeSpec
=============================================================================
