------------------------------ MODULE Pipeline ------------------------------
(***************************************************************************)
(* The configurable chain of roles: pipeline/loader.py reads               *)
(* .forge/pipeline.yaml, pipeline/dag.py resolves it to an order, boot     *)
(* validates it (runner/boot.py), and in a tick runner/_pipeline_driver.py *)
(* loads it again and pipeline/executor.py walks it once for every issue.  *)
(*                                                                         *)
(* A step of the file is a record: its role, the roles it comes after,     *)
(* whether it has an `on` trigger, its condition, and whether the loader   *)
(* accepts its shape.                                                      *)
(***************************************************************************)
EXTENDS Naturals, Sequences, FiniteSets, SequencesExt, Selection

CONSTANTS
    Files,          \* what .forge/pipeline.yaml may hold: sequences of steps; <<>> for no file
    Edits,          \* what the operator may put there later
    Labels,         \* labels an issue may have
    critic_enabled, \* cfg.critic.enabled
    Handled,        \* roles with a handler: po, worker, critic, and the operator's own
    NumIssues,      \* issues in the batch
    MaxFileEdits    \* bound: edits of the file after the boot

Steps == [role : STRING, after : SUBSET STRING, on : BOOLEAN, labels : SUBSET STRING,
          all_approve : BOOLEAN, ok : BOOLEAN]

ASSUME PipelineAssumption ==
    /\ Files \cup Edits \subseteq Seq(Steps)
    /\ NumIssues \in Nat \ {0} /\ MaxFileEdits \in Nat

VARIABLES
    file,       \* the file as it is
    stage,      \* "boot", "between", "tick", "done", "invalid", "raised"
    dag,        \* the order of the steps as the tick has resolved it
    current,    \* the issue, by its place in the batch
    pos,        \* the step, by its place in the order
    outcomes,   \* role |-> ok, failed, skipped, for the steps of this issue so far
    all_prior,  \* role |-> status, for the handlers that returned
    labels,     \* labels of this issue
    worker,     \* what the worker returned: "none", "open", "merged", "failed"
    verdict,    \* the critic's: "none", "approve", "request_changes"
    returned,   \* the outcomes the driver has so far
    merges,     \* history: [ran, verdict] whenever a step conditioned on all_approve ran
    fileEdits

pipeVars == <<file, stage, dag, current, pos, outcomes, all_prior, labels, worker, verdict, returned, merges,
              fileEdits>>

-----------------------------------------------------------------------------
(* Loading and resolving.                                                  *)

Roles(f) == {f[k].role : k \in DOMAIN f}
StepOf(f, r) == f[CHOOSE k \in DOMAIN f : f[k].role = r]

\* parse_pipeline: every step has its shape, no role comes twice.
parse_pipeline(f) == f # <<>> /\ \A k \in DOMAIN f : f[k].ok /\ \A l \in 1..(k - 1) : f[l].role # f[k].role

\* _resolve_edges: known roles only; who comes after nobody is the first step
\* or has a trigger.
_resolve_edges(f) ==
    \A k \in DOMAIN f :
        IF f[k].after # {} THEN f[k].after \subseteq Roles(f) ELSE f[k].on \/ k = 1

Children(f, r) == {c \in Roles(f) : r \in StepOf(f, c).after}

\* Roles in the order of the file.
InOrder(f, R) ==
    ElementsAt([k \in DOMAIN f |-> f[k].role], {k \in DOMAIN f : f[k].role \in R})

\* _detect_cycle, depth first: `path` is the stack of its calls (the roles that are
\* gray), `black` the roles it has returned from.
NoVisit == [path |-> <<>>, black |-> {}, cycle |-> FALSE]

\* A mutant: only from the first step.
ToVisitFirst(f, v) ==
    (IF v.path = <<>> THEN {f[1].role} ELSE Children(f, Last(v.path))) \ v.black

\* What the innermost call has yet to look at; outside of all calls, every role.
ToVisit(f, v) ==
    (IF v.path = <<>> THEN Roles(f) ELSE Children(f, Last(v.path))) \ v.black

\* The first of them is called, unless it is on the path and closes a cycle; a
\* call that has seen all of its children returns.
Visit(f, v) ==
    LET left == ToVisit(f, v)
        next == Head(InOrder(f, left))
    IN  CASE (left = {} /\ v.path = <<>>) \/ v.cycle -> v
          [] left = {} /\ v.path # <<>> /\ ~v.cycle ->
                [path |-> Front(v.path), black |-> v.black \cup {Last(v.path)}, cycle |-> FALSE]
          [] left # {} /\ next \in ToSet(v.path) /\ ~v.cycle ->
                [path |-> v.path, black |-> v.black, cycle |-> TRUE]
          [] left # {} /\ next \notin ToSet(v.path) /\ ~v.cycle ->
                [path |-> Append(v.path, next), black |-> v.black, cycle |-> FALSE]

\* Each role is called and returned from once.
_detect_cycle(f) ==
    LET visited[n \in 0..(2 * Len(f))] ==
          IF n = 0 THEN NoVisit ELSE Visit(f, visited[n - 1])
    IN  visited[2 * Len(f)].cycle

\* What the n-th role to leave the queue leaves without a parent in it.
Unblocked(f, line, n) ==
    {c \in Children(f, line[n]) : StepOf(f, c).after \subseteq {line[k] : k \in 1..n}}

\* A mutant: the order of the file.
TopoOrderFile(f) == [k \in DOMAIN f |-> f[k].role]

\* Kahn's algorithm.  The line is the queue, with all that has left it.
TopoOrder(f) ==
    LET line[n \in 0..Len(f)] ==
          IF n = 0 THEN InOrder(f, {r \in Roles(f) : StepOf(f, r).after = {}})
          ELSE IF n > Len(line[n - 1]) THEN line[n - 1]
          ELSE line[n - 1] \o InOrder(f, Unblocked(f, line[n - 1], n))
    IN  line[Len(f)]

\* The last check is the code's own, after the sort.
build_dag(f) ==
    /\ parse_pipeline(f) /\ _resolve_edges(f) /\ ~_detect_cycle(f)
    /\ Len(TopoOrder(f)) = Len(f)

-----------------------------------------------------------------------------
(* Boot.                                                                   *)

None == [r \in {} |-> ""]

PipeInit ==
    /\ file \in Files /\ stage = "boot" /\ dag = <<>> /\ current = 0 /\ pos = 0
    /\ outcomes = None /\ all_prior = None /\ labels = {} /\ worker = "none" /\ verdict = "none"
    /\ returned = <<>> /\ merges = {} /\ fileEdits = 0

\* An invalid file ends the boot; no file, and the chain is the built-in one.
_validate_pipeline_if_configured ==
    /\ stage = "boot"
    /\ stage' = IF file = <<>> \/ build_dag(file) THEN "between" ELSE "invalid"
    /\ UNCHANGED <<file, dag, current, pos, outcomes, all_prior, labels, worker, verdict, returned, merges,
                   fileEdits>>

OperatorEdits ==
    /\ stage \in {"between", "tick"} /\ fileEdits < MaxFileEdits /\ fileEdits' = fileEdits + 1
    /\ file' \in Edits \ {file}
    /\ UNCHANGED <<stage, dag, current, pos, outcomes, all_prior, labels, worker, verdict, returned, merges>>

-----------------------------------------------------------------------------
(* A tick.                                                                 *)

\* A mutant: the handlers of all issues share one table of outcomes.
BeginIssueShared(n) ==
    /\ current' = n /\ pos' = 1
    /\ outcomes' = None /\ UNCHANGED all_prior /\ worker' = "none" /\ verdict' = "none"
    /\ labels' \in SUBSET Labels

BeginIssue(n) ==
    /\ current' = n /\ pos' = 1
    /\ outcomes' = None /\ all_prior' = None /\ worker' = "none" /\ verdict' = "none"
    /\ labels' \in SUBSET Labels

\* The file is read again; what boot would refuse is raised out of the tick.
dispatch_via_pipeline ==
    /\ stage = "between" /\ file # <<>>
    /\ IF build_dag(file)
       THEN stage' = "tick" /\ dag' = [k \in DOMAIN file |-> StepOf(file, TopoOrder(file)[k])] /\ BeginIssue(1)
       ELSE stage' = "raised" /\ UNCHANGED <<dag, current, pos, outcomes, all_prior, labels, worker, verdict>>
    /\ UNCHANGED <<file, returned, merges, fileEdits>>

step == dag[pos]

\* A mutant: only the steps it comes after.
AllApproveParents ==
    LET ran == {r \in DOMAIN outcomes \cap step.after : outcomes[r] # "skipped"}
    IN  ran # {} /\ \A r \in ran : outcomes[r] = "ok"

\* Every step that ran is ok, and one ran.
AllApprove ==
    LET ran == {r \in DOMAIN outcomes : outcomes[r] # "skipped"}
    IN  ran # {} /\ \A r \in ran : outcomes[r] = "ok"

_evaluate_condition ==
    /\ step.labels = {} \/ step.labels \cap labels # {}
    /\ step.all_approve => AllApprove

Put_(f, r, v) == [x \in DOMAIN f \cup {r} |-> IF x = r THEN v ELSE f[x]]

InTick == stage = "tick" /\ pos <= Len(dag)

Ends(status) == outcomes' = Put_(outcomes, step.role, status) /\ pos' = pos + 1

Skip ==
    /\ InTick /\ ~_evaluate_condition
    /\ Ends("skipped")
    /\ UNCHANGED <<file, stage, dag, current, all_prior, labels, worker, verdict, returned, merges, fileEdits>>

NoHandler ==
    /\ InTick /\ _evaluate_condition /\ step.role \notin Handled
    /\ Ends("failed")
    /\ UNCHANGED <<file, stage, dag, current, all_prior, labels, worker, verdict, returned, merges, fileEdits>>

Handles(role) ==
    /\ InTick /\ _evaluate_condition /\ step.role = role /\ role \in Handled
    /\ merges' = IF step.all_approve
                 THEN merges \cup {[ran |-> outcomes, verdict |-> verdict]} ELSE merges
    /\ UNCHANGED <<file, stage, dag, current, labels, returned, fileEdits>>

\* The handler's outcome is ok or not; a handler that raises leaves no outcome
\* to the others.
Returns(status) == Ends(status) /\ all_prior' = Put_(all_prior, step.role, status)
Raises == Ends("failed") /\ UNCHANGED all_prior

po_handler == Handles("po") /\ Returns("ok") /\ UNCHANGED <<worker, verdict>>

worker_handler ==
    /\ Handles("worker") /\ UNCHANGED verdict
    /\ \/ worker' \in {"open", "merged"} /\ Returns("ok")
       \/ worker' = "failed" /\ Returns("failed")
       \/ UNCHANGED worker /\ Raises

\* A mutant: only if the worker is one of the steps it comes after.
SeesWorkerParents == "worker" \in step.after /\ "worker" \in DOMAIN all_prior

\* The worker, wherever it was in the chain.
SeesWorker == "worker" \in DOMAIN all_prior

\* The review counts as ok whatever its verdict; without a pull request, or
\* with the critic disabled, there is none.
critic_handler ==
    /\ Handles("critic") /\ UNCHANGED worker
    /\ IF critic_enabled /\ SeesWorker /\ worker \in {"open", "merged"}
       THEN \/ verdict' \in {"approve", "request_changes"} /\ Returns("ok")
            \/ UNCHANGED verdict /\ Returns("failed")
       ELSE UNCHANGED verdict /\ Returns("ok")

\* A handler the operator registered.
extra_handler ==
    /\ \E r \in Handled \ {"po", "worker", "critic"} : Handles(r)
    /\ UNCHANGED <<worker, verdict>>
    /\ Returns("ok") \/ Returns("failed") \/ Raises

\* A mutant: no outcome for an issue whose worker did not run.
IssueOutcomeOfRun == IF worker = "none" THEN <<>> ELSE <<[issue |-> current, status |-> worker]>>

\* What the worker returned, or a made-up no_pr.
IssueOutcome == <<[issue |-> current, status |-> IF worker = "none" THEN "no_pr" ELSE worker]>>

\* pipeline_run_done.
IssueDone ==
    /\ stage = "tick" /\ pos > Len(dag)
    /\ returned' = returned \o IssueOutcome
    /\ IF current < NumIssues THEN stage' = stage /\ BeginIssue(current + 1)
       ELSE stage' = "done" /\ UNCHANGED <<current, pos, outcomes, all_prior, labels, worker, verdict>>
    /\ UNCHANGED <<file, dag, merges, fileEdits>>

PipeNext ==
    \/ _validate_pipeline_if_configured \/ OperatorEdits \/ dispatch_via_pipeline
    \/ Skip \/ NoHandler \/ po_handler \/ worker_handler \/ critic_handler \/ extra_handler \/ IssueDone

PipeSpec == PipeInit /\ [][PipeNext]_pipeVars

-----------------------------------------------------------------------------
(* Properties.                                                             *)

\* There is a cycle, by definition and not by search: roles none of which can be
\* the first of them.
Cyclic(f) ==
    \E R \in SUBSET Roles(f) : R # {} /\ \A r \in R : StepOf(f, r).after \cap R # {}

\* The status of every step that is behind, in the order of the walk.
PipeTypeOK ==
    /\ stage \in {"boot", "between", "tick", "done", "invalid", "raised"}
    /\ stage = "tick" => DOMAIN outcomes = {dag[k].role : k \in 1..(pos - 1)}
    /\ \A r \in DOMAIN outcomes : outcomes[r] \in {"ok", "failed", "skipped"}
    /\ \A r \in DOMAIN all_prior : r \in DOMAIN outcomes /\ outcomes[r] = all_prior[r]

\* The search finds a cycle exactly when there is one; when it finds none, the
\* sort leaves no role out (dag.py "Should be caught by cycle check above").
CyclesRejected ==
    parse_pipeline(file) /\ _resolve_edges(file) =>
        IF _detect_cycle(file) THEN Cyclic(file)
        ELSE ~Cyclic(file) /\ Len(TopoOrder(file)) = Len(file)

\* The walk has every step of the file once, and none before all of its
\* ancestors.
OrderIsTopological ==
    stage = "tick" =>
        /\ IsInjective(dag)
        /\ \A k \in DOMAIN dag : dag[k].after \subseteq {dag[l].role : l \in 1..(k - 1)}
        /\ fileEdits = 0 => ToSet(dag) = ToSet(file)

\* A step on all_approve runs over no failure anywhere before it
\* (pipeline/executor.py "MUST block merge").
FailureBlocksMerge == \A m \in merges : \A r \in DOMAIN m.ran : m.ran[r] # "failed"

\* A critic that ran ok after a worker that opened a pull request reviewed it,
\* however many roles are between the two.
OpenedIsReviewed ==
    stage = "tick" /\ critic_enabled /\ {"worker", "critic"} \subseteq DOMAIN outcomes =>
        \/ outcomes["critic"] # "ok" \/ worker \notin {"open", "merged"}
        \/ verdict # "none"
        \/ \E k, l \in DOMAIN dag : dag[k].role = "critic" /\ dag[l].role = "worker" /\ k < l

\* One outcome per issue of the batch, in its order
\* (_pipeline_driver.py "One WorkerOutcome per input issue").
OneOutcomeEach ==
    /\ \A k \in DOMAIN returned : returned[k].issue = k
    /\ stage = "done" => Len(returned) = NumIssues

\* runner/boot.py:324-325: "operators should see this at startup, not mid-tick".
SeenAtStartup == stage # "raised"

\* The name of the condition: what merges was approved.  A critic that asks
\* for changes has approved, for this condition.
ApprovedMerges == \A m \in merges : m.verdict # "request_changes"

\* What a pipeline file that was accepted promises for every issue.
PipeInv ==
    /\ PipeTypeOK
    /\ CyclesRejected
    /\ OrderIsTopological
    /\ FailureBlocksMerge
    /\ OpenedIsReviewed
    /\ OneOutcomeEach
=============================================================================
