------------------------------- MODULE SdkRun -------------------------------
(***************************************************************************)
(* One run of a worker as its operator sees it: worker.py run_worker with  *)
(* the environment of worker_env.py and the stream of messages that        *)
(* _worker_sdk.py run_sdk_session reads, the lines it leaves in the event  *)
(* file, and what the readers of that file show as in flight (snapshot.py, *)
(* cli_tui.py).                                                            *)
(*                                                                         *)
(* A worker is followed one run at a time; the lines of the file carry     *)
(* their age.                                                              *)
(***************************************************************************)
EXTENDS Naturals, Sequences, SequencesExt, Selection

CONSTANTS
    RunIssues,      \* issue numbers
    Knobs,          \* the optional knobs the configuration asks for (_OPTIONAL_KNOBS)
    Bundled,        \* _BUNDLED_DEFAULT_ALLOWED
    Configured,     \* values of worker.allowed_mcp_tools: sets of servers
    Loaded,         \* sets of MCP servers the agent may load
    Paths,          \* values of PATH the loop was started with
    Declared,       \* values of worker.env.path_prepend
    Has,            \* directory |-> its tools
    Required,       \* worker.env.require
    Extended,       \* the window of the snapshot
    MaxFileLines,   \* bound: lines in the event file
    MaxSdkFaults    \* bound: failures of git, the disk, the agent; deaths of the process

ASSUME SdkAssumption ==
    /\ {Extended, MaxFileLines, MaxSdkFaults} \subseteq Nat
    /\ Paths \cup Declared \subseteq Seq(DOMAIN Has)

VARIABLES
    at,         \* "idle", "prep", "preflight", "brief", "options", "stream", "codex", "close",
                \* "returned"
    issue,      \* of the run
    path,       \* PATH of the run, and what was declared for it
    options,    \* of the session: the knobs the agent accepts and those kept, the MCP servers
                \* allowed, loaded, and reported in place of none
    open,       \* the stream of the agent's messages
    heard,      \* messages so far: "init", "result", and their session ids in sid
    sid,
    final,      \* what the text of the ResultMessage says: see FinalTexts; and is_error
    failure,    \* the class of the exception that ended the stream
    ended,      \* the outcome of the last run
    lines,      \* the event file: [kind, issue, age]
    sdkFaults

sdkVars == <<at, issue, path, options, open, heard, sid, final, failure, ended, lines, sdkFaults>>
sessionRead == <<open, heard, sid, final, failure>>

NoOutcomeYet == [status |-> "none", pr |-> FALSE, sid |-> "none", failure |-> "none"]
NoOptions == [accepts |-> {}, kept |-> {}, allow |-> {}, loaded |-> {}, default |-> {}]
NoPath == [path |-> <<>>, declared |-> <<>>]
NoText == [text |-> "none", is_error |-> FALSE]

SdkInit ==
    /\ at = "idle" /\ issue = 0 /\ path = NoPath /\ options = NoOptions
    /\ open = FALSE /\ heard = {} /\ sid = "none" /\ final = NoText /\ failure = "none"
    /\ ended = NoOutcomeYet /\ lines = <<>> /\ sdkFaults = 0

SdkFault == sdkFaults < MaxSdkFaults /\ sdkFaults' = sdkFaults + 1

Line_(kind) == [kind |-> kind, issue |-> issue, age |-> 0]

\* _emit_worker_event suppresses what the write raises.
_emit_worker_event(kind) ==
    \/ lines' = Append(lines, Line_(kind)) /\ UNCHANGED sdkFaults
    \/ SdkFault /\ UNCHANGED lines

Over ==
    /\ at' = "returned" /\ issue' = 0 /\ path' = NoPath /\ options' = NoOptions
    /\ open' = FALSE /\ heard' = {} /\ sid' = "none" /\ final' = NoText /\ failure' = "none"

Failed(status) == ended' = [NoOutcomeYet EXCEPT !.status = status]

-----------------------------------------------------------------------------
(* run_worker, up to the session.                                          *)

Dispatch(i) ==
    /\ at = "idle" /\ Len(lines) + 2 <= MaxFileLines
    /\ at' = "prep" /\ issue' = i
    /\ UNCHANGED <<path, options, sessionRead, ended, lines, sdkFaults>>

\* The pool has the outcome, or the exception.
Collected ==
    /\ at = "returned" /\ at' = "idle" /\ ended' = NoOutcomeYet
    /\ UNCHANGED <<issue, path, options, sessionRead, lines, sdkFaults>>

\* A worktree on another branch, or that cannot be made, ends the run before
\* its first line.
Prepare ==
    /\ at = "prep"
    /\ \/ /\ _emit_worker_event("worker_start")
          /\ at' = "preflight" /\ UNCHANGED <<issue, path, options, sessionRead, ended>>
       \/ SdkFault /\ Over /\ Failed("failed") /\ UNCHANGED lines

\* A mutant: a declared directory that is already on PATH stays where it is.
build_worker_envStays(base, declared) ==
    Where(declared, LAMBDA d : ~Contains(base, d)) \o base

\* What is declared comes first; what was there of it is dropped.
build_worker_env(base, declared) ==
    declared \o Where(base, LAMBDA d : ~Contains(declared, d))

\* The first directory that has the tool, in a set.
which(tool, dirs) ==
    {dirs[k] : k \in {j \in DOMAIN dirs : /\ tool \in Has[dirs[j]]
                                         /\ \A l \in 1..(j - 1) : tool \notin Has[dirs[l]]}}

missing_tools(dirs) == {t \in Required : which(t, dirs) = {}}

\* No worker_done for a run that ends here.
_preflight ==
    /\ at = "preflight"
    /\ \E base \in Paths, declared \in Declared :
         LET dirs == build_worker_env(base, declared)
         IN  IF missing_tools(dirs) # {}
             THEN _emit_worker_event("worker_toolchain_unavailable") /\ Over /\ Failed("failed")
             ELSE /\ at' = "brief" /\ path' = [path |-> dirs, declared |-> declared]
                  /\ UNCHANGED <<issue, options, sessionRead, ended, lines, sdkFaults>>

\* Manifestos, skills, the brief: an exception here leaves run_worker without
\* a line, as one of codex does.
Brief ==
    /\ at = "brief"
    /\ \/ /\ at' \in {"options", "codex"}
          /\ UNCHANGED <<issue, path, options, sessionRead, ended, lines, sdkFaults>>
       \/ SdkFault /\ Over /\ UNCHANGED <<ended, lines>>

Done(o) == _emit_worker_event("worker_done") /\ ended' = o /\ Over

_run_codex ==
    /\ at = "codex"
    /\ \/ \E status \in {"open", "no_pr", "failed", "timeout"} :
            Done([NoOutcomeYet EXCEPT !.status = status, !.pr = status = "open"])
       \/ SdkFault /\ Over /\ UNCHANGED <<ended, lines>>

-----------------------------------------------------------------------------
(* run_sdk_session: the options.                                           *)

\* The knob a TypeError names is dropped; when that is not enough, all are.
_instantiate(accepts) ==
    IF \E k \in Knobs : Knobs \ {k} \subseteq accepts THEN Knobs \cap accepts ELSE {}

\* The servers whose tools are allowed: those of the lease, if the run has one;
\* else the operator's, else the bundled.
allow_servers(leased, configured) == IF ~leased /\ configured = {} THEN Bundled ELSE configured

mcp_filter_default(leased) == IF leased THEN {} ELSE Bundled

\* Options the agent refuses for another reason end the run in worker_failed.
_options ==
    /\ at = "options"
    /\ \/ \E accepts \in SUBSET Knobs, configured \in Configured, loaded \in Loaded, leased \in BOOLEAN :
            /\ options' = [accepts |-> accepts, kept |-> _instantiate(accepts),
                           allow |-> allow_servers(leased, configured), loaded |-> loaded,
                           default |-> mcp_filter_default(leased)]
            /\ at' = "stream" /\ open' = TRUE /\ path' = NoPath
            /\ UNCHANGED <<issue, heard, sid, final, failure, ended, lines, sdkFaults>>
       \/ SdkFault /\ Over /\ lines' = Append(lines, Line_("worker_failed")) /\ UNCHANGED ended

\* resolve_mcp_filter: what the session reports as kept; it is a report only.
resolve_mcp_filter ==
    LET none == options.loaded # {} /\ options.allow # {} /\ options.allow \cap options.loaded = {}
        resolved == IF none \/ options.allow = {} THEN options.default ELSE options.allow
    IN  IF options.loaded = {} THEN resolved ELSE resolved \cap options.loaded

-----------------------------------------------------------------------------
(* run_sdk_session: the stream.                                            *)

Reading == at = "stream" /\ open

\* The first SystemMessage; older agents send no session id with it.
InitMessage ==
    /\ Reading /\ heard = {}
    /\ heard' = {"init"} /\ sid' \in {"none", "init"}
    /\ options' = NoOptions
    /\ UNCHANGED <<at, issue, path, open, final, failure, ended, lines, sdkFaults>>

\* The trailing JSON object with a pull request or without, a URL in the text,
\* or neither.
FinalTexts == {"json_pr", "json_merged_no_pr", "url", "none"}

ResultMessage_ ==
    /\ Reading /\ "result" \notin heard
    /\ heard' = heard \cup {"result"} /\ sid' \in {sid, "result"}
    /\ \E text \in FinalTexts, is_error \in BOOLEAN : final' = [text |-> text, is_error |-> is_error]
    /\ options' = NoOptions
    /\ UNCHANGED <<at, issue, path, open, failure, ended, lines, sdkFaults>>

\* A mutant: only what ends by itself is closed.
_aclose_streamAtEnd(class) == class # "none"

\* Every way out of the stream closes it.
_aclose_stream(class) == FALSE

\* The end, an exception, or the deadline, which comes as one.
StreamEnds ==
    /\ Reading
    /\ \E class \in {"none", "rate_limit", "network", "CancelledError"} :
         /\ IF class \in {"none", "CancelledError"} THEN UNCHANGED sdkFaults ELSE SdkFault
         /\ failure' = class /\ open' = _aclose_stream(class)
    /\ at' = "close" /\ options' = NoOptions
    /\ UNCHANGED <<issue, path, heard, sid, final, ended, lines>>

_extract_pr_status(text) ==
    CASE text = "json_pr" -> [pr |-> TRUE, status |-> "open"]
      [] text = "url" -> [pr |-> TRUE, status |-> "open"]
      [] text = "json_merged_no_pr" -> [pr |-> FALSE, status |-> "merged"]
      [] text = "none" -> [pr |-> FALSE, status |-> "no_pr"]

\* A mutant: an exception after the result counts for nothing.
Status_BeforeResult(said, is_error, class) ==
    IF ~said.pr /\ (is_error \/ class # "none") /\ said.status = "no_pr" THEN "failed" ELSE said.status

Status_(said, is_error, class) ==
    IF ~said.pr /\ (is_error \/ class # "none") THEN "failed" ELSE said.status

\* A mutant: the session is that of the ResultMessage.
SessionIdOfResult == IF "result" \in heard THEN sid ELSE "none"

SessionId == sid

SessionOver ==
    /\ at = "close"
    /\ LET said == _extract_pr_status(final.text)
       IN  Done([status |-> Status_(said, final.is_error, failure), pr |-> said.pr,
                 sid |-> SessionId, failure |-> failure])

-----------------------------------------------------------------------------
(* The file and its readers.                                               *)

Terminal_ == {"worker_done", "worker_failed"}

\* A mutant: the window of the rest of the snapshot.
InWindowOfKinds(line) == line.age <= 0

\* A mutant: lines stay in sight.
InWindowAlways(line) == line.age >= 0

InWindow(line) == line.age <= Extended

\* Starts with no terminal line after them, of the lines that are read.
Unanswered(seen) ==
    {i \in RunIssues :
        \E k \in seen :
            /\ lines[k].kind = "worker_start" /\ lines[k].issue = i
            /\ \A l \in seen : l > k /\ lines[l].issue = i => lines[l].kind \notin Terminal_}

\* snapshot.py and cli_tui.py.
_compute_in_flight == Unanswered({k \in DOMAIN lines : InWindow(lines[k])})
_compute_inflight == Unanswered(DOMAIN lines)

ClockTicks ==
    /\ lines' = [k \in DOMAIN lines |->
                    [lines[k] EXCEPT !.age = IF @ > Extended THEN @ ELSE @ + 1]]
    /\ UNCHANGED <<at, issue, path, options, sessionRead, ended, sdkFaults>>

ProcessDies ==
    /\ at \notin {"idle", "returned"} /\ SdkFault /\ Over
    /\ UNCHANGED <<ended, lines>>

Run ==
    \/ Prepare \/ _preflight \/ Brief \/ _run_codex \/ _options
    \/ InitMessage \/ ResultMessage_ \/ StreamEnds \/ SessionOver \/ Collected

SdkNext == Run \/ (\E i \in RunIssues : Dispatch(i)) \/ ClockTicks \/ ProcessDies

SdkSpec == SdkInit /\ [][SdkNext]_sdkVars

\* Time passes, and a run has its deadline.
SdkFair == WF_sdkVars(ClockTicks) /\ WF_sdkVars(Run)

-----------------------------------------------------------------------------
(* Properties.                                                             *)

InRun(i) == issue = i

\* No stream, and with it no process of the agent, is left open by a session
\* that is over (_worker_sdk.py "on EVERY exit path").
SdkTypeOK ==
    /\ at \in {"idle", "prep", "preflight", "brief", "options", "stream", "codex", "close", "returned"}
    /\ open => at = "stream"
    /\ final.text \in FinalTexts /\ sid \in {"none", "init", "result"}
    /\ Len(lines) <= MaxFileLines /\ sdkFaults \in 0..MaxSdkFaults

\* A tool is that of the declared directory that has it, whatever was on PATH
\* before: the interpreter of the project and not of the system.
DeclaredToolWins ==
    at \in {"brief", "options", "codex"} =>
        \A t \in UNION {Has[d] : d \in DOMAIN Has} :
            which(t, path.declared) # {} => which(t, path.path) = which(t, path.declared)

\* A failure is never reported as a merge, whatever the agent wrote before it.
FailureIsTold ==
    ended.failure # "none" /\ ~ended.pr => ended.status = "failed"

\* A session that gave its id, if only at its start, can be resumed however it
\* ended (_worker_sdk.py "even a session that errors before a ResultMessage").
SessionCanResume ==
    [][ended' # ended /\ at = "close" => (sid # "none" <=> ended'.sid # "none")]_sdkVars

\* The start of the run: no line of its issue follows it.
OwnStart(k) ==
    /\ lines[k].kind = "worker_start" /\ lines[k].issue = issue
    /\ \A l \in (k + 1)..Len(lines) : lines[l].issue # issue

\* A worker that runs has its start in the file, unless the write failed, and is
\* in the snapshot as long as that start is in the window.
RunningIsShown ==
    at \notin {"idle", "prep", "returned"} =>
        /\ sdkFaults = 0 => \E k \in DOMAIN lines : OwnStart(k)
        /\ \A k \in DOMAIN lines :
              OwnStart(k) /\ lines[k].age <= Extended => issue \in _compute_in_flight

\* A worker that died, or that ended without its line, leaves the snapshot.
GhostsLeave ==
    \A i \in RunIssues : ~InRun(i) /\ i \in _compute_in_flight ~> InRun(i) \/ i \notin _compute_in_flight

\* snapshot.py: in lockstep with cli_tui, "so the dashboard / CLI / snapshot
\* all agree on what 'still running' means".
ReadersAgree == _compute_in_flight = _compute_inflight

\* _worker_sdk.py: the fallback is to be used "so the worker doesn't end up with
\* an empty MCP toolbox": what a session reports as kept, it was given.
FallbackIsUsed ==
    at = "stream" /\ "allowed_tools" \in options.kept => resolve_mcp_filter \subseteq options.allow

\* What a run of an agent promises to the loop that started it and to those who watch.
RunIsToldAndResumable ==
    /\ [](SdkTypeOK /\ DeclaredToolWins /\ FailureIsTold
          /\ RunningIsShown)
    /\ SessionCanResume
=============================================================================
