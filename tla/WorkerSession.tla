--------------------------- MODULE WorkerSession ---------------------------
(***************************************************************************)
(* A persistent worker: the run of an agent in a worktree (worker.py,      *)
(* _worker_sdk.py, worker_worktree.py), the session row that records it    *)
(* (worker_sessions.py, runner/persistent_dispatch.py), the critic's       *)
(* verdict on it (runner/critic_flow.py) and what a boot makes of the rows *)
(* a dead process left (runner/recovery.py).                               *)
(*                                                                         *)
(* Only the process dies: the table, the worktrees and GitHub stay.  A     *)
(* transition is the read and check of transition_to, then its UPDATE; the *)
(* process may die between the two, as between any other two steps.        *)
(***************************************************************************)
EXTENDS Naturals, Sequences, FiniteSets

CONSTANTS
    Issues,         \* issue numbers
    Providers,      \* the values of worker.provider: "claude", "codex"
    SameThread,     \* the worker's thread is the one that opened the store
    Cap,            \* iteration.max_critic_iterations
    MaxSessions,    \* bound: sessions ever created
    MaxVerdicts,    \* bound: verdicts of the critic
    MaxDeaths,      \* bound: deaths of the process
    MaxFaults       \* bound: failures of git, of GitHub and of the disk

ASSUME SessionAssumption ==
    /\ Providers \subseteq {"claude", "codex"} /\ SameThread \in BOOLEAN
    /\ {Cap, MaxSessions, MaxVerdicts, MaxDeaths, MaxFaults} \subseteq Nat

VARIABLES
    session,    \* table worker_sessions, in the order of created_at
    tree,       \* disk and git: the worktree of each issue
    pull,       \* GitHub: the issues whose pull request is open
    phase,      \* the loop: boot, recover, tick, review or down
    worker,     \* its worker thread for each issue
    todo,       \* the rows the recovery walk has still to handle, as it read them
    move,       \* the transition the recovery or the critic is in
    skipped,    \* history: the walk at the last boot ended early
    revisions,  \* history: how often each session was sent back
    uncapped,   \* history: its rounds that were counted without a look at the cap
    deaths, verdicts, faults

table == <<session, revisions, uncapped, skipped>>
bounds == <<deaths, verdicts, faults>>
sessionVars == <<session, tree, pull, phase, worker, todo, move, skipped,
                 revisions, uncapped, deaths, verdicts, faults>>

Fsm == INSTANCE WorkerFsm WITH
          state <- [s \in DOMAIN session |-> session[s].state]

NoMove == [sess |-> 0, to |-> "none"]
Idle == [pc |-> "idle", sess |-> 0, saw |-> "dispatched", to |-> "none",
         told |-> FALSE, final |-> "none", status |-> "none", pr |-> FALSE]

Running == {"prep", "preflight", "session", "record", "url", "recording", "raising", "closing"}
Working == Running \cup {"seed", "mark", "marking"}

Rows == [issue : Issues, state : Fsm!States, pr : BOOLEAN, rounds : Nat]
Trees == [dir : BOOLEAN, registered : BOOLEAN, shielded : BOOLEAN]
Workers == [pc : Working \cup {"idle", "done", "raised"},
            sess : 0..MaxSessions, saw : Fsm!States, to : Fsm!States \cup {"none"},
            told : BOOLEAN, final : {"none", "silent", "names"},
            status : {"none", "open", "merged", "no_pr", "failed", "timeout"}, pr : BOOLEAN]

SessionTypeOK ==
    /\ session \in Seq(Rows)
    /\ Len(session) <= MaxSessions
    /\ tree \in [Issues -> Trees]
    /\ pull \subseteq Issues
    /\ phase \in {"boot", "recover", "tick", "review", "down"}
    /\ worker \in [Issues -> Workers]
    /\ todo \subseteq [sess : 1..MaxSessions, row : Rows]
    /\ move \in [sess : 0..MaxSessions, to : Fsm!States \cup {"none"}]
    /\ skipped \in BOOLEAN
    /\ revisions \in [1..MaxSessions -> Nat] /\ uncapped \in [1..MaxSessions -> Nat]
    /\ deaths \in 0..MaxDeaths /\ verdicts \in 0..MaxVerdicts /\ faults \in 0..MaxFaults

SessionInit ==
    /\ session = <<>>
    /\ revisions = [s \in 1..MaxSessions |-> 0] /\ uncapped = [s \in 1..MaxSessions |-> 0]
    /\ tree = [i \in Issues |-> [dir |-> FALSE, registered |-> FALSE, shielded |-> FALSE]]
    /\ pull = {} /\ phase = "boot"
    /\ worker = [i \in Issues |-> Idle]
    /\ todo = {} /\ move = NoMove /\ skipped = FALSE
    /\ deaths = 0 /\ verdicts = 0 /\ faults = 0

-----------------------------------------------------------------------------
(* The store. *)

\* A mutant: a session that was sent back counts as over.
is_terminalRevised(state) == state \in Fsm!Terminal \cup {"revising"}
is_terminal(state) == state \in Fsm!Terminal

by_issue(i) == {s \in DOMAIN session : session[s].issue = i}

by_state(states) == {s \in DOMAIN session : session[s].state \in states}

active_count == Cardinality(by_state(Fsm!Active))

recoverable_sessions == by_state(Fsm!States \ Fsm!Terminal)

\* A mutant: a row is born in the status of an outcome.
createUnlisted(i) == session' = Append(session, [issue |-> i, state |-> "open",
                                                 pr |-> FALSE, rounds |-> 0])
create(i) == session' = Append(session, [issue |-> i, state |-> "dispatched",
                                         pr |-> FALSE, rounds |-> 0])

\* The SELECT of transition_to and its check.
MayMove(s, to) == Fsm!is_allowed(session[s].state, to)

\* A mutant: the UPDATE names the issue.
WriteStateByIssue(s, to) ==
    session' = [r \in DOMAIN session |-> IF session[r].issue = session[s].issue
                                         THEN [session[r] EXCEPT !.state = to] ELSE session[r]]

\* Its UPDATE ... WHERE session_id = ?
WriteState(s, to) == session' = [session EXCEPT ![s].state = to]

set_pr_url(s) == session' = [session EXCEPT ![s].pr = TRUE]

increment_iterations(s) == session' = [session EXCEPT ![s].rounds = @ + 1]

-----------------------------------------------------------------------------
(* Dispatch: get_or_resume_session and mark_running. *)

Submit(i) ==
    /\ phase = "tick" /\ worker[i].pc = "idle"
    /\ worker' = [worker EXCEPT ![i].pc = "seed"]
    /\ UNCHANGED <<table, tree, pull, phase, todo, move, bounds>>

Newest(S) == CHOOSE s \in S : \A other \in S : other <= s

\* Neither call is guarded: a connection of another thread raises at once.
get_or_resume_session(i) ==
    LET live == {s \in by_issue(i) : ~is_terminal(session[s].state)}
    IN  /\ phase = "tick" /\ worker[i].pc = "seed"
        /\ \/ /\ ~SameThread
              /\ worker' = [worker EXCEPT ![i].pc = "raised"]
              /\ UNCHANGED session
           \/ /\ SameThread /\ live # {}
              /\ worker' = [worker EXCEPT ![i].pc = "mark", ![i].sess = Newest(live),
                                          ![i].saw = session[Newest(live)].state]
              /\ UNCHANGED session
           \/ /\ SameThread /\ live = {} /\ Len(session) < MaxSessions
              /\ create(i)
              /\ worker' = [worker EXCEPT ![i].pc = "mark", ![i].sess = Len(session) + 1,
                                          ![i].saw = "dispatched"]
        /\ UNCHANGED <<tree, pull, phase, todo, move, skipped, revisions, uncapped, bounds>>

\* A row in any other state is handed back as it is.
mark_running(i) ==
    LET w == worker[i]
    IN  /\ phase = "tick" /\ w.pc = "mark"
        /\ worker' = [worker EXCEPT
              ![i].to = IF w.saw = "dispatched" THEN "running" ELSE "none",
              ![i].pc = CASE w.saw # "dispatched" -> "prep"
                          [] w.saw = "dispatched" /\ MayMove(w.sess, "running") -> "marking"
                          [] OTHER -> "raised"]
        /\ UNCHANGED <<table, tree, pull, phase, todo, move, bounds>>

\* The UPDATE the worker's transition_to is in.
WorkerWrites(i) ==
    LET w == worker[i]
    IN  /\ phase = "tick" /\ w.pc \in {"marking", "recording", "closing"}
        /\ WriteState(w.sess, w.to)
        /\ worker' = [worker EXCEPT
              ![i].saw = w.to, ![i].to = "none",
              ![i].pc = CASE w.pc = "marking" -> "prep"
                          [] w.pc = "recording" -> "done"
                          [] w.pc = "closing" -> "raised"]
        /\ UNCHANGED <<tree, pull, phase, todo, move, skipped, revisions, uncapped, bounds>>

-----------------------------------------------------------------------------
(* run_worker: the worktree, under _WORKTREE_MUTATION_LOCK, then the        *)
(* toolchain, then the agent's session.                                     *)

Fault == faults < MaxFaults /\ faults' = faults + 1

\* `git worktree remove --force`, else rmtree: the directory goes, but git
\* goes on knowing it; a worktree whose directory is gone is removed.
_remove_existing_worktree(t) ==
    {[t EXCEPT !.dir = FALSE, !.registered = FALSE]}
        \cup IF t.dir THEN {[t EXCEPT !.dir = FALSE], t} ELSE {}

\* A directory that could not be removed is renamed, if it can be.
quarantine_if_blocking(t) == {[t EXCEPT !.dir = FALSE], t}

\* `git worktree add` refuses a path that exists or that git still knows.
AddWorktree(t) == ~t.dir /\ ~t.registered

\* plant_worker_settings: the planted file is hidden from the worker's commits.
Planted == [dir |-> TRUE, registered |-> TRUE, shielded |-> TRUE]

Fail(i, status) == worker' = [worker EXCEPT ![i].pc = "record", ![i].status = status,
                                            ![i].pr = FALSE]

prep_worktree(i) ==
    /\ phase = "tick" /\ worker[i].pc = "prep"
    /\ \E t \in _remove_existing_worktree(tree[i]) : \E q \in quarantine_if_blocking(t) :
          /\ IF t.registered THEN Fault ELSE UNCHANGED faults
          /\ \/ /\ AddWorktree(q)
                /\ tree' = [tree EXCEPT ![i] = Planted]
                /\ worker' = [worker EXCEPT ![i].pc = "preflight", ![i].told = FALSE,
                                            ![i].final = "none"]
             \/ /\ ~AddWorktree(q)
                /\ tree' = [tree EXCEPT ![i] = q]
                /\ Fail(i, "failed")
    /\ UNCHANGED <<table, pull, phase, todo, move, deaths, verdicts>>

\* A tool the configuration requires is missing on the PATH.
_preflight_worker_env(i) ==
    /\ phase = "tick" /\ worker[i].pc = "preflight"
    /\ \/ Fault /\ Fail(i, "failed")
       \/ worker' = [worker EXCEPT ![i].pc = "session"] /\ UNCHANGED faults
    /\ UNCHANGED <<table, tree, pull, phase, todo, move, deaths, verdicts>>

InSession(i) == phase = "tick" /\ worker[i].pc = "session"

\* The agent opens the pull request, or pushes to the one that is open.
OpensPull(i) ==
    /\ InSession(i) /\ i \notin pull
    /\ pull' = pull \cup {i}
    /\ UNCHANGED <<table, tree, phase, worker, todo, move, bounds>>

\* Its sprint-events.jsonl or a tool result in the log names the pull request.
TellsUrl(i) ==
    /\ InSession(i) /\ i \in pull /\ ~worker[i].told
    /\ worker' = [worker EXCEPT ![i].told = TRUE]
    /\ UNCHANGED <<table, tree, pull, phase, todo, move, bounds>>

\* The ResultMessage: _extract_pr_status finds the pull request in it or not.
ResultMessage(i) ==
    /\ InSession(i) /\ worker[i].final = "none"
    /\ \/ /\ i \in pull
          /\ worker' = [worker EXCEPT ![i].final = "names"]
       \/ worker' = [worker EXCEPT ![i].final = "silent"]
    /\ UNCHANGED <<table, tree, pull, phase, todo, move, bounds>>

\* Where the stream of run_sdk_session ends.  Every exception but an interrupt
\* ends it with an error, also the CancelledError by which the deadline of
\* _run_with_timeout is delivered: the TimeoutError never comes.
run_sdk_session(i) ==
    LET w == worker[i]
    IN  /\ "claude" \in Providers /\ InSession(i)
        /\ \E error \in BOOLEAN :
              /\ w.final = "none" => error
              /\ worker' = [worker EXCEPT
                    ![i].pc = "record",
                    ![i].pr = w.final = "names",
                    ![i].status = CASE w.final = "names" -> "open"
                                    [] w.final # "names" /\ error -> "failed"
                                    [] OTHER -> "no_pr"]
        /\ UNCHANGED <<table, tree, pull, phase, todo, move, bounds>>

\* codex exec is killed at the deadline; its last message is read otherwise.
_run_worker_codex(i) ==
    LET w == worker[i]
    IN  /\ "codex" \in Providers /\ InSession(i)
        /\ \/ Fail(i, "timeout")
           \/ worker' = [worker EXCEPT
                  ![i].pc = "record",
                  ![i].pr = w.final = "names",
                  ![i].status = CASE w.final = "names" -> "open"
                                  [] w.final = "silent" -> "no_pr"
                                  [] OTHER -> "failed"]
        /\ UNCHANGED <<table, tree, pull, phase, todo, move, bounds>>

\* An exception leaves run_worker.  The outcome made up for it carries the
\* recovered URL, and the status "failed".
RunRaises(i) ==
    /\ InSession(i) /\ Fault
    /\ worker' = [worker EXCEPT ![i].pc = "raising", ![i].status = "failed",
                                ![i].pr = worker[i].told]
    /\ UNCHANGED <<table, tree, pull, phase, todo, move, deaths, verdicts>>

-----------------------------------------------------------------------------
(* record_outcome. *)

Success(w) == w.status \in {"open", "merged"} /\ w.pr

\* The URL is written before the transition.
record_outcome(i) ==
    LET w == worker[i]
        raises == w.pc = "raising"
        To(state, pc) == worker' = [worker EXCEPT ![i].to = state, ![i].pc = pc]
    IN  /\ phase = "tick" /\ w.pc \in {"record", "url", "raising"}
        /\ \/ /\ w.saw # "running"
              /\ To("none", IF raises THEN "raised" ELSE "done")
              /\ UNCHANGED session
           \/ /\ w.saw = "running" /\ Success(w) /\ w.pc = "record"
              /\ set_pr_url(w.sess)
              /\ To("none", "url")
           \/ /\ w.saw = "running" /\ w.pc = "url" /\ MayMove(w.sess, "awaiting_critic")
              /\ To("awaiting_critic", "recording")
              /\ UNCHANGED session
           \/ /\ w.saw = "running" /\ ~Success(w) /\ MayMove(w.sess, "abandoned")
              /\ To("abandoned", IF raises THEN "closing" ELSE "recording")
              /\ UNCHANGED session
        /\ UNCHANGED <<tree, pull, phase, todo, move, skipped, revisions, uncapped, bounds>>

\* The pool is drained.  An exception of a worker leaves _run_workers, the
\* tick and the loop, none of which catch it: the process ends.
DrainPool ==
    /\ phase = "tick" /\ \E i \in Issues : worker[i].pc # "idle"
    /\ \A i \in Issues : worker[i].pc \in {"idle", "done", "raised"}
    /\ phase' = IF \E i \in Issues : worker[i].pc = "raised" THEN "down" ELSE "review"
    /\ worker' = [i \in Issues |-> Idle]
    /\ UNCHANGED <<table, tree, pull, todo, move, bounds>>

-----------------------------------------------------------------------------
(* The critic's verdict on a session.  No module calls these handlers yet:  *)
(* the model hands them every verdict a caller may have.                    *)

Judged(s) == /\ phase = "review" /\ move = NoMove /\ verdicts < MaxVerdicts
             /\ session[s].state = "awaiting_critic"

Verdict(s, to) == /\ MayMove(s, to)
                  /\ move' = [sess |-> s, to |-> to]
                  /\ verdicts' = verdicts + 1

\* approve, block, an error or an overall it does not know; and request_changes,
\* which counts the round and never looks at the cap.
handle_critic_verdict(s) ==
    /\ Judged(s)
    /\ \/ /\ \/ Verdict(s, "merged")
             \/ Verdict(s, "abandoned")
             \/ UNCHANGED move /\ verdicts' = verdicts + 1
          /\ UNCHANGED <<session, uncapped>>
       \/ /\ increment_iterations(s)
          /\ uncapped' = [uncapped EXCEPT ![s] = @ + 1]
          /\ Verdict(s, "revising")
    /\ UNCHANGED <<skipped, revisions, tree, pull, phase, worker, todo, deaths, faults>>

\* A mutant: the cap is passed by one.
enforce_critic_iteration_capLate(s) ==
    /\ Judged(s)
    /\ \/ /\ session[s].rounds > Cap
          /\ Verdict(s, "abandoned")
          /\ UNCHANGED session
       \/ /\ session[s].rounds <= Cap
          /\ increment_iterations(s)
          /\ Verdict(s, "revising")
    /\ UNCHANGED <<skipped, revisions, uncapped, tree, pull, phase, worker, todo, deaths, faults>>

\* The other handler of request_changes, against the cap: the round is counted before the transition.
enforce_critic_iteration_cap(s) ==
    /\ Judged(s)
    /\ \/ /\ session[s].rounds >= Cap
          /\ Verdict(s, "abandoned")
          /\ UNCHANGED session
       \/ /\ session[s].rounds < Cap
          /\ increment_iterations(s)
          /\ Verdict(s, "revising")
    /\ UNCHANGED <<skipped, revisions, uncapped, tree, pull, phase, worker, todo, deaths, faults>>

\* The UPDATE of the transition the critic or the recovery walk is in.
LoopWrites ==
    /\ phase \in {"review", "recover"} /\ move # NoMove
    /\ WriteState(move.sess, move.to)
    /\ revisions' = IF move.to = "revising" THEN [revisions EXCEPT ![move.sess] = @ + 1]
                                            ELSE revisions
    /\ move' = NoMove
    /\ UNCHANGED <<uncapped, tree, pull, phase, worker, todo, skipped, bounds>>

NextTick == /\ phase = "review" /\ move = NoMove
            /\ phase' = "tick"
            /\ UNCHANGED <<table, tree, pull, worker, todo, move, bounds>>

-----------------------------------------------------------------------------
(* Boot: the worktrees are reaped, then the sessions are recovered. *)

boot ==
    /\ phase = "boot"
    /\ \E T \in SUBSET {i \in Issues : tree[i].dir} :
          /\ IF T = {} THEN UNCHANGED faults ELSE Fault
          /\ tree' = [i \in Issues |-> IF i \in T THEN tree[i]
                                       ELSE [tree[i] EXCEPT !.dir = FALSE, !.registered = FALSE]]
    /\ todo' = {[sess |-> s, row |-> session[s]] : s \in recoverable_sessions}
    /\ phase' = "recover" /\ skipped' = FALSE
    /\ UNCHANGED <<session, revisions, uncapped, pull, worker, move, deaths, verdicts>>

_default_worktree_probe(row) == tree[row.issue].dir

\* get_pull of the URL in the row, which finds a closed pull request too; a
\* failure of GitHub is "not found".
_pr_exists(row) == {row.pr, FALSE}

\* Mutants: the worktree alone decides; a session whose worktree stands is kept.
_decideByWorktree(row, dir, pr) ==
    CASE row.state \in Fsm!Active /\ dir  -> "awaiting_critic"
      [] row.state \in Fsm!Active /\ ~dir -> "abandoned"
      [] OTHER                            -> row.state

_decideKeeps(row, dir, pr) ==
    CASE row.state \in Fsm!Active /\ pr             -> "awaiting_critic"
      [] row.state \in Fsm!Active /\ ~pr /\ ~dir   -> "abandoned"
      [] OTHER                                      -> row.state

\* The worktree is looked at and makes no difference: the pull request decides.
_decide(row, dir, pr) ==
    CASE row.state \in Fsm!Active /\ dir /\ pr   -> "awaiting_critic"
      [] row.state \in Fsm!Active /\ ~dir /\ ~pr -> "abandoned"
      [] row.state \in Fsm!Active /\ pr /\ ~dir  -> "awaiting_critic"
      [] row.state \in Fsm!Active /\ dir /\ ~pr  -> "abandoned"
      [] OTHER                                   -> row.state

\* The oldest of them is next.
UpNext(next) == next \in todo /\ \A other \in todo : next.sess <= other.sess

recover_sessions ==
    /\ phase = "recover" /\ move = NoMove
    /\ \E next \in todo : \E pr \in _pr_exists(next.row) :
          LET to == _decide(next.row, _default_worktree_probe(next.row), pr)
          IN  /\ UpNext(next)
              /\ IF pr = next.row.pr THEN UNCHANGED faults ELSE Fault
              /\ move' = IF to # next.row.state /\ MayMove(next.sess, to)
                         THEN [sess |-> next.sess, to |-> to] ELSE NoMove
              /\ todo' = todo \ {next}
    /\ UNCHANGED <<table, tree, pull, phase, worker, deaths, verdicts>>

\* Whatever the walk raises is reported and swallowed; the loop starts.
_run_crash_recovery ==
    /\ phase = "recover" /\ todo # {} /\ Fault
    /\ todo' = {} /\ move' = NoMove /\ skipped' = TRUE
    /\ UNCHANGED <<session, revisions, uncapped, tree, pull, phase, worker, deaths, verdicts>>

FirstTick == /\ phase = "recover" /\ move = NoMove /\ todo = {}
             /\ phase' = "tick"
             /\ UNCHANGED <<table, tree, pull, worker, todo, move, bounds>>

-----------------------------------------------------------------------------
(* Around it: the pull request is closed or merged; the process dies and is *)
(* started again.                                                           *)

PullCloses(i) ==
    /\ i \in pull /\ pull' = pull \ {i}
    /\ ~InSession(i)
    /\ UNCHANGED <<table, tree, phase, worker, todo, move, bounds>>

Crash ==
    /\ phase # "down" /\ deaths < MaxDeaths
    /\ deaths' = deaths + 1
    /\ phase' = "down"
    /\ worker' = [i \in Issues |-> Idle] /\ todo' = {} /\ move' = NoMove
    /\ UNCHANGED <<table, tree, pull, verdicts, faults>>

Restart == /\ phase = "down"
           /\ phase' = "boot"
           /\ UNCHANGED <<table, tree, pull, worker, todo, move, bounds>>

WorkerStep(i) ==
    \/ get_or_resume_session(i) \/ mark_running(i) \/ WorkerWrites(i)
    \/ prep_worktree(i) \/ _preflight_worker_env(i)
    \/ run_sdk_session(i) \/ _run_worker_codex(i) \/ RunRaises(i) \/ record_outcome(i)

LoopStep ==
    \/ DrainPool \/ LoopWrites \/ NextTick \/ boot \/ recover_sessions \/ FirstTick \/ Restart

SessionNext ==
    \/ LoopStep
    \/ \E i \in Issues : \/ Submit(i) \/ WorkerStep(i)
                         \/ OpensPull(i) \/ TellsUrl(i) \/ ResultMessage(i) \/ PullCloses(i)
    \/ \E s \in DOMAIN session : handle_critic_verdict(s) \/ enforce_critic_iteration_cap(s)
    \/ _run_crash_recovery \/ Crash

SessionSpec == SessionInit /\ [][SessionNext]_sessionVars

\* The loop goes on and is started again after it died; the deadline ends
\* every session of an agent.
SessionFair ==
    /\ WF_sessionVars(LoopStep)
    /\ \A i \in Issues : WF_sessionVars(WorkerStep(i))

-----------------------------------------------------------------------------
(* Properties. *)

\* Sessions only take the edges of the table, one session at a time, though a
\* transition is checked and written in two steps and the process may die
\* between them.
ImplementsFsm == Fsm!Spec

\* An issue has at most one session that is not over, across deaths and
\* resumptions (get_or_resume_session calls two of them a store bug).
OneLiveSession ==
    \A s, t \in DOMAIN session :
        session[s].issue = session[t].issue
            /\ ~is_terminal(session[s].state) /\ ~is_terminal(session[t].state) => s = t

\* What waits for the critic has a pull request to review: the URL is stored
\* before the transition, and recovery promotes only rows that have one.
HandoffHasUrl ==
    \A s \in DOMAIN session :
        session[s].state \in {"awaiting_critic", "revising", "merged"} => session[s].pr

\* A running row always stands for a worker that is running: no row a death left
\* behind takes up a slot once the loop ticks again after a complete recovery.
RunningIsRun ==
    phase \in {"tick", "review"} /\ ~skipped =>
        \A s \in DOMAIN session : session[s].state = "running" =>
            \E i \in Issues : worker[i].sess = s /\ worker[i].pc \in Running

\* No session is sent back oftener than it has rounds on its counter: a death can
\* cost a round, never grant one.  And only the rounds handle_critic_verdict
\* counted ever take the counter past the cap.
RevisionsAreCounted ==
    \A s \in DOMAIN session : /\ revisions[s] <= session[s].rounds
                              /\ session[s].rounds <= Cap + uncapped[s]

\* A row of a dead process does not stay running: recovery or its resumed
\* worker takes it out, unless the recovery itself failed.
SlotsComeBack ==
    \A s \in 1..MaxSessions :
        (s \in DOMAIN session /\ session[s].state = "running")
            ~> (s \in DOMAIN session /\ (session[s].state # "running" \/ skipped))

\* "Recover the URL from the worker log" (worker.py): an outcome names the pull
\* request the session's log names.
ToldIsKept ==
    \A i \in Issues : worker[i].pc = "record" /\ worker[i].told => worker[i].pr

\* "never fail dispatch" (dispatch.py): unless a call failed, no worker raises.
DispatchNeverFails == faults = 0 => \A i \in Issues : worker[i].pc # "raised"

\* What the table of sessions promises at any time, whatever dies and whenever.
SessionInv ==
    /\ SessionTypeOK
    /\ OneLiveSession
    /\ HandoffHasUrl
    /\ RunningIsRun
    /\ RevisionsAreCounted
=============================================================================
