---------------------------- MODULE RunnerFiles ----------------------------
(***************************************************************************)
(* The NDJSON stream of the runner and its state file (state.py): lines    *)
(* are appended by the loop and by other processes (the MCP server), the   *)
(* stream is rotated into numbered archives at boot, cut down to its last  *)
(* lines at the end of a tick, and the state file is replaced.             *)
(*                                                                         *)
(* A file is the sequence of its lines; every file operation is a step, so *)
(* the process may die, and another one append, between any two of them.   *)
(***************************************************************************)
EXTENDS Naturals, Sequences

CONSTANTS
    ROTATE_LINES,   \* misc.events_rotate_bytes, in lines
    MAX_ARCHIVES,   \* events.jsonl.1 .. events.jsonl.MAX_ARCHIVES
    KEEP,           \* keep_recent_events of consolidate_sprint
    MaxLines,       \* bound: lines ever written
    MaxIoErrors,    \* bound: OSErrors
    MaxKills        \* bound: deaths of the process

ASSUME FilesAssumption ==
    /\ {ROTATE_LINES, MAX_ARCHIVES, KEEP} \subseteq Nat \ {0}
    /\ {MaxLines, MaxIoErrors, MaxKills} \subseteq Nat

VARIABLES
    live,       \* events.jsonl
    archive,    \* events.jsonl.<n>; an empty sequence stands for a missing file
    preserved,  \* events.jsonl.preserved, a file of which only what is in it matters
    stateFile,  \* the state file and its .tmp: complete, torn or missing
    run,        \* the runner: [pc, at, lines], where it is in which operation
    written,    \* history: the kinds of the lines ever written
    dropped,    \* history: lines that a consolidation meant to drop
    mislaid,    \* history: lines it did not: another process's, or its own at a death
    ioErrors, kills

filesVars == <<live, archive, preserved, stateFile, run, written, dropped, mislaid, ioErrors, kills>>
histories == <<written, dropped, mislaid>>
fileBounds == <<ioErrors, kills>>

\* Telemetry may be dropped; all else, also what no reader can parse, is kept.
LineKinds == {"telemetry", "grant"}
is_load_bearing(line) == line.kind # "telemetry"
Line == [n : 1..MaxLines, kind : LineKinds]

Idle == [pc |-> "idle", at |-> 0, lines |-> <<>>]

Runner == [pc : {"boot", "preserve", "unlink", "shift", "rename", "touch", "idle",
                  "cut", "fill", "state", "replace", "down"},
           at : 0..MAX_ARCHIVES, lines : Seq(Line)]

FilesTypeOK ==
    /\ live \in Seq(Line) /\ preserved \subseteq 1..Len(written)
    /\ archive \in [1..MAX_ARCHIVES -> Seq(Line)]
    /\ stateFile \in [main : {"missing", "whole", "torn"}, tmp : {"missing", "whole", "torn"}]
    /\ run \in Runner
    /\ written \in Seq(LineKinds) /\ dropped \cup mislaid \subseteq 1..Len(written)
    /\ ioErrors \in 0..MaxIoErrors /\ kills \in 0..MaxKills

FilesInit ==
    /\ live = <<>> /\ archive = [n \in 1..MAX_ARCHIVES |-> <<>>] /\ preserved = {}
    /\ stateFile = [main |-> "missing", tmp |-> "missing"]
    /\ run = [Idle EXCEPT !.pc = "boot"]
    /\ written = <<>> /\ dropped = {} /\ mislaid = {} /\ ioErrors = 0 /\ kills = 0

-----------------------------------------------------------------------------
(* Appending. *)

\* A mutant: a line is numbered before it is written.
append_eventEarly(kind) ==
    /\ Len(written) < MaxLines
    /\ live' = Append(live, [n |-> Len(written), kind |-> kind])
    /\ written' = Append(written, kind)

append_event(kind) ==
    /\ Len(written) < MaxLines
    /\ live' = Append(live, [n |-> Len(written) + 1, kind |-> kind])
    /\ written' = Append(written, kind)

\* The loop and its workers, between the operations of the loop's thread.
RunnerAppends ==
    /\ run.pc = "idle"
    /\ \E kind \in LineKinds : append_event(kind)
    /\ UNCHANGED <<archive, preserved, stateFile, run, dropped, mislaid, fileBounds>>

\* Another process, at any time.
OtherAppends ==
    /\ append_event("grant")
    /\ mislaid' = IF run.pc \in {"cut", "fill"} THEN mislaid \cup {Len(written')} ELSE mislaid
    /\ UNCHANGED <<archive, preserved, stateFile, run, dropped, fileBounds>>

-----------------------------------------------------------------------------
(* rotate_events_file_if_needed, at boot. *)

At(pc, n) == run' = [run EXCEPT !.pc = pc, !.at = n]
IoError == ioErrors < MaxIoErrors /\ ioErrors' = ioErrors + 1

rotate_events_file_if_needed ==
    /\ run.pc = "boot"
    /\ IF Len(live) < ROTATE_LINES THEN At("idle", 0)
       ELSE At(IF archive[MAX_ARCHIVES] # <<>> THEN "preserve" ELSE "shift", MAX_ARCHIVES - 1)
    /\ UNCHANGED <<live, archive, preserved, stateFile, histories, fileBounds>>

On(file) == {file[k].n : k \in DOMAIN file}
Bearing(file) == {file[k].n : k \in {j \in DOMAIN file : is_load_bearing(file[j])}}

\* A mutant: the oldest archive goes first.
PreserveAfterUnlink ==
    /\ run.pc = "preserve"
    /\ archive' = [archive EXCEPT ![MAX_ARCHIVES] = <<>>]
    /\ preserved' = preserved \cup Bearing(archive'[MAX_ARCHIVES])
    /\ At("unlink", run.at)
    /\ UNCHANGED <<live, stateFile, histories, fileBounds>>

\* An archive that cannot be read, or a sidecar that cannot be written, is zero
\* lines preserved: the rotation goes on.
_preserve_load_bearing_lines ==
    /\ run.pc = "preserve"
    /\ \/ /\ preserved' = preserved \cup Bearing(archive[MAX_ARCHIVES])
          /\ UNCHANGED ioErrors
       \/ IoError /\ UNCHANGED preserved
    /\ At("unlink", run.at)
    /\ UNCHANGED <<live, archive, stateFile, histories, kills>>

UnlinkOldest ==
    /\ run.pc = "unlink"
    /\ archive' = [archive EXCEPT ![MAX_ARCHIVES] = <<>>]
    /\ At("shift", run.at)
    /\ UNCHANGED <<live, preserved, stateFile, histories, fileBounds>>

\* A rename of .<n> to .<n + 1>, from the oldest down.
ShiftArchive ==
    /\ run.pc = "shift"
    /\ IF run.at = 0 THEN At("rename", 0) /\ UNCHANGED archive
       ELSE /\ archive' = IF archive[run.at] = <<>> THEN archive
                          ELSE [archive EXCEPT ![run.at + 1] = archive[run.at],
                                               ![run.at] = <<>>]
            /\ At("shift", run.at - 1)
    /\ UNCHANGED <<live, preserved, stateFile, histories, fileBounds>>

\* A mutant: the stream is copied, to be emptied afterwards.
CopyLive ==
    /\ run.pc = "rename"
    /\ archive' = [archive EXCEPT ![1] = live]
    /\ At("touch", 0)
    /\ UNCHANGED <<live, preserved, stateFile, histories, fileBounds>>

RenameLive ==
    /\ run.pc = "rename"
    /\ archive' = [archive EXCEPT ![1] = live] /\ live' = <<>>
    /\ At("touch", 0)
    /\ UNCHANGED <<preserved, stateFile, histories, fileBounds>>

Stamp == IF Len(written) < MaxLines THEN append_event("telemetry") ELSE UNCHANGED <<live, written>>

\* The empty file is created, unless it is there again; then the marker and the
\* count of preserved lines are appended.
StampMarker ==
    /\ run.pc = "touch"
    /\ Stamp
    /\ At("idle", 0)
    /\ UNCHANGED <<archive, preserved, stateFile, dropped, mislaid, fileBounds>>

\* An OSError ends the rotation where it is; the boot goes on.
RotationFails ==
    /\ run.pc \in {"unlink", "shift", "rename", "touch"} /\ IoError
    /\ Stamp
    /\ At("idle", 0)
    /\ UNCHANGED <<archive, preserved, stateFile, dropped, mislaid, kills>>

-----------------------------------------------------------------------------
(* consolidate_sprint and write_state, in the loop's thread. *)

\* The stream is read; it is cut if it is long.
consolidate_sprint ==
    /\ run.pc = "idle" /\ Len(live) > KEEP
    /\ run' = [pc |-> "cut", at |-> 0, lines |-> SubSeq(live, Len(live) - KEEP + 1, Len(live))]
    /\ dropped' = dropped \cup {live[k].n : k \in 1..(Len(live) - KEEP)}
    /\ UNCHANGED <<live, archive, preserved, stateFile, written, mislaid, fileBounds>>

\* write_text: the file is emptied as it is opened, then filled.
CutStream ==
    /\ run.pc = "cut"
    /\ live' = <<>> /\ run' = [run EXCEPT !.pc = "fill"]
    /\ UNCHANGED <<archive, preserved, stateFile, histories, fileBounds>>

FillStream ==
    /\ run.pc = "fill"
    /\ live' = run.lines /\ run' = Idle
    /\ UNCHANGED <<archive, preserved, stateFile, histories, fileBounds>>

\* A mutant: the state is written in place.
WriteInPlace ==
    /\ run.pc = "idle" /\ run' = [Idle EXCEPT !.pc = "state"]
    /\ stateFile' = [main |-> "torn", tmp |-> "whole"]
    /\ UNCHANGED <<live, archive, preserved, histories, fileBounds>>

write_state ==
    /\ run.pc = "idle" /\ run' = [Idle EXCEPT !.pc = "state"]
    /\ stateFile' = [stateFile EXCEPT !.tmp = "torn"]
    /\ UNCHANGED <<live, archive, preserved, histories, fileBounds>>

TmpWritten ==
    /\ run.pc = "state" /\ run' = [Idle EXCEPT !.pc = "replace"]
    /\ stateFile' = [stateFile EXCEPT !.tmp = "whole"]
    /\ UNCHANGED <<live, archive, preserved, histories, fileBounds>>

ReplaceState ==
    /\ run.pc = "replace" /\ run' = Idle
    /\ stateFile' = [main |-> stateFile.tmp, tmp |-> "missing"]
    /\ UNCHANGED <<live, archive, preserved, histories, fileBounds>>

Killed ==
    /\ run.pc # "down" /\ kills < MaxKills /\ kills' = kills + 1
    /\ run' = [Idle EXCEPT !.pc = "down"]
    /\ mislaid' = IF run.pc = "fill" THEN mislaid \cup On(run.lines) ELSE mislaid
    /\ UNCHANGED <<live, archive, preserved, stateFile, written, dropped, ioErrors>>

\* The runner is started, after it was stopped or had died.
Started ==
    /\ run.pc \in {"idle", "down"} /\ run' = [Idle EXCEPT !.pc = "boot"]
    /\ UNCHANGED <<live, archive, preserved, stateFile, histories, fileBounds>>

FilesNext ==
    \/ RunnerAppends \/ OtherAppends
    \/ rotate_events_file_if_needed \/ _preserve_load_bearing_lines \/ UnlinkOldest
    \/ ShiftArchive \/ RenameLive \/ StampMarker \/ RotationFails
    \/ consolidate_sprint \/ CutStream \/ FillStream
    \/ write_state \/ TmpWritten \/ ReplaceState
    \/ Killed \/ Started

FilesSpec == FilesInit /\ [][FilesNext]_filesVars

-----------------------------------------------------------------------------
(* Properties. *)

OnDisk == On(live) \cup preserved \cup UNION {On(archive[n]) : n \in 1..MAX_ARCHIVES}

\* "The cascade never silently erases" (rotate_events_file_if_needed): whatever
\* dies or interleaves, a load-bearing line is in some file, unless the disk
\* refused, or a consolidation dropped or lost it.
LoadBearingKept ==
    ioErrors = 0 =>
        \A n \in DOMAIN written :
            written[n] # "telemetry" => n \in OnDisk \cup On(run.lines) \cup dropped \cup mislaid

\* The archives are in the order of time: a lower number is younger, and the
\* stream is the youngest, also after a rotation that was cut short.
ArchivesInOrder ==
    /\ \A m, n \in 1..MAX_ARCHIVES : m < n =>
          \A a \in On(archive[m]), b \in On(archive[n]) : b < a
    /\ \A n \in 1..MAX_ARCHIVES : \A a \in On(live), b \in On(archive[n]) : b < a

\* The state file a reader opens is never half-written.
StateIsWhole == stateFile.main # "torn"

\* consolidate_sprint keeps the last lines there are.
AppendsSurvive == run.pc = "idle" => mislaid \subseteq OnDisk

\* What the files hold, whichever call fails and wherever the process dies.
FilesInv ==
    /\ FilesTypeOK
    /\ LoadBearingKept
    /\ ArchivesInOrder
    /\ StateIsWhole
=============================================================================
