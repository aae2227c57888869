------------------------------- MODULE Sweeps -------------------------------
(***************************************************************************)
(* The maintenance of a tick (runner/tick.py _maybe_run_maintenance and    *)
(* the finally of _tick): the epics whose sub-issues are resolved are      *)
(* closed (epic_sweep.py), the branches of closed issues are deleted       *)
(* (branch_sweep.py), the worktrees nobody owns are removed                *)
(* (worktree_sweep.py, runner/tick_checks.py), the shared checkout is      *)
(* switched back to the base branch (checkout_reconcile.py,                *)
(* restore_base_branch), and an agent grooms the backlog (maintenance.py). *)
(*                                                                         *)
(* Each reading and each writing of GitHub, of git and of the task store   *)
(* is a step; people and agents act between them.                          *)
(***************************************************************************)
EXTENDS Naturals, Sequences, FiniteSets

CONSTANTS
    Subs,           \* epic |-> its sub-issues; who is not in its domain is no epic
    Plain,          \* issues that are no epics
    Aged,           \* epics older than epic_ttl_days, by a readable date
    FIRST,          \* how many sub-issues the query asks for: first: 100
    Worktrees,      \* git worktree list, and what may be in it
    root,           \* worktree |-> "task", "agent", "main" or "off"
    MIN_AGE,        \* _AGENT_WORKTREE_MIN_AGE_S
    MaxSurprises    \* bound: what people, agents and the clock do, and what GitHub, git, the
                    \* store and the agent fail to do

Epics == DOMAIN Subs
Issues == Epics \cup Plain

ASSUME SweepsAssumption ==
    /\ \A e \in Epics : Subs[e] \subseteq Issues
    /\ Plain \cap Epics = {} /\ FIRST \in Nat \ {0}
    /\ root \in [Worktrees -> {"task", "agent", "main", "off"}]
    /\ MIN_AGE \in Nat \ {0}

VARIABLES
    at,         \* the step of the tick: "between", "list", "read", "act", "heads", "branches",
                \* "lookup", "leases", "markers", "reap", "head", "dirty", "switch", "groom",
                \* "restore", "down"
    todo,       \* what is left of the loop of that step
    seen,       \* the snapshot: epic |-> the sub-issues it was shown, and the open ones of them
    opened,     \* the open issues
    remote,     \* issues with a branch loop/<n> on the remote
    present,    \* the worktrees there are
    leased,     \* worktrees of the non-terminal sagas in tasks.db
    mark,       \* git's marker of a worktree: "none", "locked", "prunable"
    mtime,      \* when the directory of a worktree was last modified
    edited,     \* when a file below it was
    live,       \* the worktrees found to be owned
    head, dirty,\* the shared checkout: its branch, and whether it has changes
    raised,     \* the body of the tick has raised
    now,
    passClosed, \* history: the epics that this pass closed
    stayedOpen, \* history: the issues open when the pass began, that nobody else closed
    reaped,     \* history: [w, leased, busy] of the worktrees removed in this pass
    sweepActs, sweepFails

sweepVars == <<at, todo, seen, opened, remote, present, leased, mark, mtime, edited, live, head,
               dirty, raised, now, passClosed, stayedOpen, reaped, sweepActs, sweepFails>>
tracker == <<opened, remote>>
trees   == <<present, leased, mark, mtime, edited, now>>
checkout == <<head, dirty>>
passed  == <<passClosed, stayedOpen, reaped>>

Branches == {"base", "loop", "feature"}

\* An epic that is not in the snapshot.
Unread(e) == [listed |-> {}, open |-> {e}]

SweepsInit ==
    /\ at = "between" /\ todo = {} /\ seen = [e \in Epics |-> Unread(e)]
    /\ opened \in {Issues \ Plain, Issues}
    /\ remote = Plain
    /\ present = Worktrees
    /\ leased \in SUBSET {w \in Worktrees : root[w] = "task"}
    /\ mark = [w \in Worktrees |-> "none"]
    /\ mtime = [w \in Worktrees |-> 0] /\ edited = mtime
    /\ live = {} /\ head = "base" /\ dirty = FALSE /\ raised = FALSE /\ now = 0
    /\ passClosed = {} /\ stayedOpen = {} /\ reaped = {} /\ sweepActs = 0 /\ sweepFails = 0

Fails == sweepActs + sweepFails < MaxSurprises /\ sweepFails' = sweepFails + 1
Works == UNCHANGED sweepFails

Goto(step, items) == at' = step /\ todo' = items

-----------------------------------------------------------------------------
(* Epics. *)

\* A tick on the maintenance cadence.
BeginMaintenance ==
    /\ at = "between"
    /\ Goto("list", {}) /\ Works
    /\ raised' = FALSE
    /\ passClosed' = {} /\ stayedOpen' = opened /\ reaped' = {}
    /\ UNCHANGED <<seen, tracker, trees, live, checkout, sweepActs>>

\* issues_by_label, by a client that may not even be made.
ListEpics ==
    /\ at = "list"
    /\ \/ Works /\ Goto("read", Epics \cap opened)
       \/ Fails /\ Goto("heads", {})
    /\ seen' = [e \in Epics |-> Unread(e)]
    /\ UNCHANGED <<tracker, trees, live, checkout, raised, passed, sweepActs>>

\* What the query shows of an epic's sub-issues: the first of them.
Listings(e) == IF Cardinality(Subs[e]) <= FIRST THEN {Subs[e]}
               ELSE {shown \in SUBSET Subs[e] : Cardinality(shown) = FIRST}

\* A mutant: what is open, of whichever epic.
OpenSubsOfAny(shown) == opened

OpenSubs(shown) == shown \cap opened

\* A query that fails shows no sub-issues: the client hides the failure, so the
\* sweep does not leave the epic out.
sub_issues ==
    /\ at = "read"
    /\ \/ /\ todo = {}
          /\ Goto("act", {e \in Epics : seen[e] # Unread(e)}) /\ Works
          /\ UNCHANGED seen
       \/ \E e \in todo : \E shown \in Listings(e) \cup {{}} :
            /\ Goto("read", todo \ {e})
            /\ IF shown \in Listings(e) THEN Works ELSE Fails
            /\ seen' = [seen EXCEPT ![e] = [listed |-> shown, open |-> OpenSubs(shown)]]
    /\ UNCHANGED <<tracker, trees, live, checkout, raised, passed, sweepActs>>

\* A mutant: the sub-issues are read again.
DueAgain(e) == IF seen[e].listed # {} THEN seen[e].listed \cap opened = {} ELSE e \in Aged

\* A mutant: only those that have none, and are too old.
DueByAge(e) == seen[e].listed = {} /\ e \in Aged

\* All the sub-issues it was shown are resolved; or there were none, and it is
\* too old.
Due(e) == seen[e].open = {} /\ (seen[e].listed # {} \/ e \in Aged)

\* The comment, which nothing reads, then the close; closing what is closed
\* changes nothing.
_post_and_close(e) ==
    \/ /\ Works
       /\ opened' = opened \ {e}
       /\ passClosed' = passClosed \cup ({e} \cap opened)
    \/ Fails /\ UNCHANGED <<opened, passClosed>>

sweep_epic ==
    /\ at = "act"
    /\ \/ /\ todo = {}
          /\ Goto("heads", {}) /\ Works
          /\ UNCHANGED <<opened, passClosed>>
       \/ \E e \in todo :
            /\ Goto("act", todo \ {e})
            /\ IF Due(e) THEN _post_and_close(e) ELSE Works /\ UNCHANGED <<opened, passClosed>>
    /\ UNCHANGED <<seen, remote, trees, live, checkout, raised, stayedOpen, reaped, sweepActs>>

-----------------------------------------------------------------------------
(* Branches. *)

\* `git ls-remote`, and the client: without either, nothing is swept.
_list_remote_branches ==
    /\ at = "heads"
    /\ \/ Works /\ Goto("branches", remote)
       \/ Fails /\ Goto("branches", {})
    /\ UNCHANGED <<seen, tracker, trees, live, checkout, raised, passed, sweepActs>>

\* A mutant: an issue that cannot be read is taken for closed.
DeletesUnread(issue, read) == ~read \/ issue \notin opened

Deletes(issue, read) == read /\ issue \notin opened

\* A branch loop/<n> goes if its issue is closed; between the reading of the
\* issue and the deletion nothing is looked at again.
sweep_branch ==
    /\ at = "branches"
    /\ \/ /\ todo = {}
          /\ Goto("lookup", {}) /\ Works
          /\ UNCHANGED remote
       \/ \E i \in todo, read, deleted \in BOOLEAN :
            /\ Goto("branches", todo \ {i})
            /\ IF read /\ deleted THEN Works ELSE Fails
            /\ remote' = IF Deletes(i, read) /\ deleted THEN remote \ {i} ELSE remote
    /\ UNCHANGED <<seen, opened, trees, live, checkout, raised, passed, sweepActs>>

-----------------------------------------------------------------------------
(* Worktrees. *)

\* `git worktree list`: no list, nothing to reap.
_list_worktrees ==
    /\ at = "lookup"
    /\ \/ Works /\ Goto("leases", present)
       \/ Fails /\ Goto("leases", {})
    /\ live' = {}
    /\ UNCHANGED <<seen, tracker, trees, checkout, raised, passed, sweepActs>>

\* A store that cannot be read has no worktrees in flight.
_inflight_worktrees ==
    /\ at = "leases" /\ at' = "markers"
    /\ \/ Works /\ live' = live \cup leased
       \/ Fails /\ UNCHANGED live
    /\ UNCHANGED <<todo, seen, tracker, trees, checkout, raised, passed, sweepActs>>

\* The modification time of the directory, which the edits below it leave.
Young(w) == now - mtime[w] < MIN_AGE

_agent_live_paths(w) ==
    /\ root[w] = "agent"
    /\ mark[w] = "locked" \/ (mark[w] = "none" /\ Young(w))

\* git is asked once more; if it does not answer, no agent is alive.
Markers ==
    /\ at = "markers" /\ at' = "reap"
    /\ \/ Works /\ live' = live \cup {w \in present : _agent_live_paths(w)}
       \/ Fails /\ UNCHANGED live
    /\ UNCHANGED <<todo, seen, tracker, trees, checkout, raised, passed, sweepActs>>

\* A mutant: who is alive is looked at for agents only.
plan_reapTasks == {w \in todo : root[w] \in {"task", "agent"} /\ (root[w] = "agent" => w \notin live)}

\* A mutant: the root of the agents is left out.
plan_reapOneRoot == {w \in todo : root[w] = "task" /\ w \notin live}

plan_reap == {w \in todo : root[w] \in {"task", "agent"} /\ w \notin live}

\* `git worktree remove --force`, which does not remove a locked one.
_remove_worktree ==
    /\ at = "reap"
    /\ \/ /\ plan_reap = {}
          /\ Goto("head", {}) /\ Works
          /\ UNCHANGED <<present, reaped>>
       \/ \E w \in plan_reap :
            /\ Goto("reap", todo \ {w})
            /\ \/ Fails /\ UNCHANGED <<present, reaped>>
               \/ /\ w \notin present \/ mark[w] = "locked"
                  /\ Works /\ UNCHANGED <<present, reaped>>
               \/ /\ w \in present /\ mark[w] # "locked" /\ Works
                  /\ present' = present \ {w}
                  /\ reaped' = reaped \cup {[w |-> w, leased |-> w \in leased,
                                            busy |-> now - edited[w] < MIN_AGE]}
    /\ UNCHANGED <<seen, tracker, leased, mark, mtime, edited, now, live, checkout, raised, passClosed,
                   stayedOpen, sweepActs>>

-----------------------------------------------------------------------------
(* The shared checkout. *)

is_eligible == head = "loop"

\* Only a clean checkout of a loop branch goes on to the switch.
read_branch ==
    /\ at = "head"
    /\ \/ Works /\ Goto(IF is_eligible THEN "dirty" ELSE "groom", {})
       \/ Fails /\ Goto("groom", {})
    /\ UNCHANGED <<seen, tracker, trees, live, checkout, raised, passed, sweepActs>>

_checkout_is_dirty ==
    /\ at = "dirty"
    /\ \/ Works /\ Goto(IF dirty THEN "groom" ELSE "switch", {})
       \/ Fails /\ Goto("groom", {})
    /\ UNCHANGED <<seen, tracker, trees, live, checkout, raised, passed, sweepActs>>

\* `git checkout`: local changes are taken along, or it refuses.
Checkout ==
    \/ Works /\ head' = "base"
    \/ dirty /\ Works /\ UNCHANGED head
    \/ Fails /\ UNCHANGED head

_switch_branch ==
    /\ at = "switch" /\ Goto("groom", {})
    /\ Checkout
    /\ UNCHANGED <<dirty, seen, tracker, trees, live, raised, passed, sweepActs>>

\* The agent works on the backlog for up to half an hour; no `claude`, or a
\* count that is no number, is raised through the tick.
run_maintenance ==
    /\ at = "groom" /\ Goto("restore", {})
    /\ \/ Works /\ UNCHANGED raised
       \/ Fails /\ raised' = TRUE
    /\ opened' \in {opened} \cup {opened \ {i} : i \in Plain}
    /\ stayedOpen' = stayedOpen \cap opened'
    /\ UNCHANGED <<seen, remote, trees, live, checkout, passClosed, reaped, sweepActs>>

\* Any other tick: sagas are leased and released.
DispatchBody ==
    /\ at = "between" /\ Goto("restore", {})
    /\ leased' \in {leased} \cup {leased \cup {w} : w \in {v \in present : root[v] = "task"}}
                  \cup {leased \ {w} : w \in Worktrees}
    /\ \/ Works /\ raised' = FALSE
       \/ Fails /\ raised' = TRUE
    /\ UNCHANGED <<seen, tracker, present, mark, mtime, edited, now, live, checkout, passed, sweepActs>>

\* A mutant: only a loop branch is left.
restore_base_branchLoop ==
    /\ at = "restore" /\ Goto(IF raised THEN "down" ELSE "between", {})
    /\ IF head = "loop" THEN Checkout ELSE Works /\ UNCHANGED head
    /\ UNCHANGED <<dirty, seen, tracker, trees, live, raised, passed, sweepActs>>

\* The finally of every tick: whatever the branch, and whatever is in it.
restore_base_branch ==
    /\ at = "restore" /\ Goto(IF raised THEN "down" ELSE "between", {})
    /\ IF head # "base" THEN Checkout ELSE Works /\ UNCHANGED head
    /\ UNCHANGED <<dirty, seen, tracker, trees, live, raised, passed, sweepActs>>

\* The shim starts the loop again.
Restarts ==
    /\ at = "down" /\ Goto("between", {}) /\ raised' = FALSE
    /\ UNCHANGED <<seen, tracker, trees, live, checkout, passed, sweepActs, sweepFails>>

-----------------------------------------------------------------------------
(* Everybody else. *)

\* People close and reopen issues.
PeopleTriage ==
    /\ \E i \in Issues : opened' = IF i \in opened THEN opened \ {i} ELSE opened \cup {i}
    /\ stayedOpen' = stayedOpen \cap opened'
    /\ UNCHANGED <<remote, trees, checkout, passClosed, reaped>>

\* Agents lock and unlock worktrees, leave them, edit files in them, put files
\* right into the directory, and lose the directory.
AgentsWork ==
    /\ \E w \in {v \in present : root[v] \in {"task", "agent"}} :
         \/ mark' = [mark EXCEPT ![w] = IF @ = "none" THEN "locked" ELSE "none"]
            /\ mark[w] # "prunable" /\ UNCHANGED <<mtime, edited>>
         \/ mark' = [mark EXCEPT ![w] = "prunable"] /\ mark[w] = "none" /\ UNCHANGED <<mtime, edited>>
         \/ edited' = [edited EXCEPT ![w] = now] /\ mark[w] # "prunable" /\ UNCHANGED <<mark, mtime>>
         \/ /\ mark[w] # "prunable" /\ UNCHANGED mark
            /\ edited' = [edited EXCEPT ![w] = now] /\ mtime' = [mtime EXCEPT ![w] = now]
    /\ UNCHANGED <<tracker, present, leased, now, checkout, passed>>

\* The operator works in the shared checkout.
OperatorWorks ==
    /\ \/ dirty' = ~dirty /\ UNCHANGED head
       \/ head' \in Branches \ {head} /\ UNCHANGED dirty
    /\ UNCHANGED <<tracker, trees, passed>>

DayPasses == now' = now + 1 /\ UNCHANGED <<tracker, present, leased, mark, mtime, edited, checkout, passed>>

Others ==
    /\ sweepActs + sweepFails < MaxSurprises /\ sweepActs' = sweepActs + 1
    /\ PeopleTriage \/ AgentsWork \/ OperatorWorks \/ DayPasses
    /\ UNCHANGED <<at, todo, seen, live, raised, sweepFails>>

TheLoop ==
    \/ BeginMaintenance \/ ListEpics \/ sub_issues \/ sweep_epic \/ _list_remote_branches \/ sweep_branch
    \/ _list_worktrees \/ _inflight_worktrees \/ Markers \/ _remove_worktree \/ read_branch
    \/ _checkout_is_dirty \/ _switch_branch \/ run_maintenance \/ restore_base_branch \/ Restarts

SweepsNext == TheLoop \/ DispatchBody \/ Others

SweepsSpec == SweepsInit /\ [][SweepsNext]_sweepVars

\* The loop goes on, and every so many ticks are for maintenance.
SweepsFair ==
    /\ WF_sweepVars(TheLoop \/ DispatchBody)
    /\ SF_sweepVars(BeginMaintenance)

-----------------------------------------------------------------------------
(* Properties. *)

\* The snapshot holds, for an epic, sub-issues of its own and the open ones of
\* them; what was removed is gone.
SweepsTypeOK ==
    /\ at \in {"between", "list", "read", "act", "heads", "branches", "lookup", "leases", "markers", "reap",
              "head", "dirty", "switch", "groom", "restore", "down"}
    /\ todo \subseteq Issues \cup Worktrees
    /\ \A e \in Epics : \/ seen[e] = Unread(e)
                        \/ seen[e].open \subseteq seen[e].listed /\ seen[e].listed \subseteq Subs[e]
    /\ opened \subseteq Issues /\ remote \subseteq Plain
    /\ present \subseteq Worktrees /\ leased \subseteq {w \in Worktrees : root[w] = "task"}
    /\ head \in Branches /\ dirty \in BOOLEAN /\ raised \in BOOLEAN

\* No epic is closed over live work it was shown: what was open when the pass
\* began and nobody but the sweep closed is none of the sub-issues listed to the
\* sweep, and with none listed only an old epic goes.  So the close of one epic
\* never leads, in the same pass, to that of its parent (epic_sweep.py "closing
\* one epic this pass can't cascade").  A query that fails or is cut lists less
\* than there is: OpenSubsKeepEpic, below, is what the documents say of that.
LiveWorkKept ==
    \A e \in passClosed : /\ seen[e].listed \cap stayedOpen = {}
                          /\ (seen[e].listed = {} => e \in Aged)

\* A branch goes only when its issue was closed at some time in the pass, even
\* when the issue could not be read (branch_sweep.py "an open or unreadable
\* issue is preserved").
OpenKeepsBranch == [][\A i \in remote \ remote' : i \notin stayedOpen]_sweepVars

\* The worktree of a leased saga is not removed while every probe answers,
\* however the passes, the dispatches and the agents interleave
\* (worktree_sweep.py "NEVER removes ... a worktree backing a live lease").
LeasedNeverReaped == sweepFails = 0 => \A r \in reaped : ~r.leased

\* An orphan, neither leased nor locked nor young, does not stay.
OrphansAreReaped ==
    \A w \in Worktrees :
        []<>(w \notin present \/ w \in leased \/ mark[w] = "locked" \/ root[w] \in {"main", "off"}
             \/ (root[w] = "agent" /\ mark[w] = "none" /\ Young(w)))

\* An epic whose sub-issues are all closed does not stay open.
EpicsClose == \A e \in Epics : Subs[e] # {} => []<>(e \notin opened \/ Subs[e] \cap opened # {})

\* The shared checkout comes back to the base branch unless it is dirty,
\* whichever branch it was on and whatever the tick raised.
HeadComesHome == []<>(head = "base" \/ dirty)

\* epic_sweep.py:36 "An epic with >= 1 OPEN sub-issue is NEVER closed", and
\* gh_client.py:513-516, of a query that fails: "The epic sweep treats an empty
\* result as "no tracked sub-issues" and therefore NEVER closes the epic".  Since
\* #435 the sweep expires such an epic when it is old; and with more than FIRST
\* sub-issues it judges by the first.
OpenSubsKeepEpic == \A e \in passClosed : Subs[e] \cap stayedOpen = {}

\* runner/tick_checks.py:456-460, of an agent's worktree: "only reaped once it
\* has been idle on disk longer than this".  The time of the directory says
\* nothing of the files below it.
IdleOnlyReaped == \A r \in reaped : root[r.w] = "agent" => ~r.busy

\* runner/tick_checks.py:583-585: "never a leased/locked worktree, fail-safe
\* on unknown".  A store that does not answer is taken for an empty one.
FailSafeOnUnknown == \A r \in reaped : ~r.leased

\* runner/tick_checks.py:313-314: "for the shared checkout, ANY dirtiness is a
\* hands-off signal".  The finally of every tick does not ask.
HandsOffDirty == [][dirty /\ at \in {"restore", "switch"} /\ at' # at => head' = head]_sweepVars

\* The sweeps take nothing that is in use.
SweepsTakeWhatIsDone ==
    /\ [](SweepsTypeOK /\ LiveWorkKept /\ LeasedNeverReaped)
    /\ OpenKeepsBranch

\* In the end they take all that is left over.
LeftoversGo == OrphansAreReaped /\ EpicsClose /\ HeadComesHome
=============================================================================
