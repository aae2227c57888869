------------------------------ MODULE Conveyor ------------------------------
(***************************************************************************)
(* What one issue and its pull request live through across the ticks of    *)
(* the loop: runner/tick.py selects pull requests to repair, orphans to    *)
(* adopt and ready issues to dispatch; workers push; the critic reviews;   *)
(* the merge gates refuse; the conveyor lands.  The loop is one sequential *)
(* process whose only memory of the world is what a phase read; GitHub and *)
(* the operator act between any two of its steps.                          *)
(*                                                                         *)
(* A pull request is the newest one of the issue's loop/<n>-<slug> branch. *)
(* Labels nobody's code reads back (loop:needs-human, manifesto and rescue *)
(* labels) and comments are left out.                                      *)
(***************************************************************************)
EXTENDS Integers, FiniteSets

CONSTANTS
    Issues,         \* issue numbers; a smaller number is listed first
    Parallel,       \* cfg.parallel
    MaxIterations,  \* cfg.worker_max_iterations
    StuckThreshold, \* settings.maintenance.stuck_threshold_attempts
    BlockOnSev2,    \* cfg.critic.block_on_sev2
    MergeStates,    \* bound: the merge states GitHub computes
    Opinions,       \* bound: the critic's overall opinions
    Severities,     \* bound: the worst severities of its findings
    Faulty,         \* the kinds of call to GitHub or to the critic that may fail
    Acts            \* bound: how often the operator intervenes or the process dies

ASSUME IssuesAssumption == Issues \subseteq Nat /\ IsFiniteSet(Issues)
ASSUME BoundsAssumption ==
    /\ Parallel \in Nat \ {0} /\ MaxIterations \in Nat \ {0}
    /\ StuckThreshold \in Nat \ {0} /\ Acts \in Nat
ASSUME SettingsAssumption ==
    /\ BlockOnSev2 \in BOOLEAN
    /\ MergeStates \subseteq {"CLEAN", "BLOCKED", "DIRTY"}
    /\ Opinions \subseteq {"approve", "request_changes", "block"}
    /\ Severities \subseteq {"none", "sev3", "sev2", "sev1"}
    /\ Faulty \subseteq {"listing", "unlabel", "label", "disarm", "record",
                         "issue_state", "critic_error", "critic_raises"}

VARIABLES
    issue,     \* GitHub: [open, ready, gated] of each issue
    pr,        \* GitHub: its pull request, with the critic's opinion of its head
    attempt,   \* the newest attempt record that matches the issue's fingerprint
    exhausted, \* worker_iterations_exhausted events in the sweep's tail
    pc,        \* the phase of the tick
    kind,      \* what the current batch is: blocked, ready, adopt or fresh
    batch,     \* the issues of the batch
    todo,      \* those the phase has still to handle
    outcome,   \* their WorkerOutcome
    seen,      \* what the selection read: [gated, clean]
    backlog,   \* the candidates _select_candidates returned
    repaired,  \* a repair or adoption body ran earlier in this tick
    refused,   \* the list the merge gates return
    acts       \* interventions so far

github == <<issue, pr>>
ledger == <<attempt, exhausted>>
memory == <<kind, batch, outcome, seen, backlog, repaired, refused>>
vars == <<issue, pr, attempt, exhausted, pc, kind, batch, todo, outcome, seen,
          backlog, repaired, refused, acts>>

BlockLabels == {"critic:blocking", "critic:suspicious"}
PRLabels == BlockLabels \cup {"loop:adopted"}
RESERVED_NEW_WORK_SLOTS == 1

NoPR == [state |-> "none", labels |-> {}, armed |-> FALSE, merge |-> "BLOCKED",
         threads |-> {}, head |-> "unreviewed"]
NoOutcome == [status |-> "failed", url |-> FALSE, error |-> FALSE,
              verdict |-> "none", tree |-> "nothing", round |-> 1]

IssueFacts == [open : BOOLEAN, ready : BOOLEAN, gated : BOOLEAN]
Glimpses == [gated : BOOLEAN, clean : BOOLEAN]
PRs == [state : {"none", "open", "closed", "merged"}, labels : SUBSET PRLabels,
        armed : BOOLEAN, merge : {"CLEAN", "BLOCKED", "DIRTY"},
        threads : SUBSET {"critic", "human"},
        head : {"unreviewed", "approved", "rejected"}]
Outcomes == [status : {"open", "merged", "failed"}, url : BOOLEAN, error : BOOLEAN,
             verdict : {"none", "approved", "rejected", "error"},
             tree : {"nothing", "dirty"},
             round : 1..MaxIterations]

TypeOK ==
    /\ issue \in [Issues -> IssueFacts]
    /\ pr \in [Issues -> PRs]
    /\ attempt \in [Issues -> {"none", "open", "failed", "cooling"}]
    /\ exhausted \in [Issues -> 0..StuckThreshold]
    /\ pc \in {"idle", "select", "classify", "work", "iterate", "review", "gate",
               "land", "finish", "next"}
    /\ kind \in {"none", "blocked", "ready", "adopt", "fresh"}
    /\ batch \subseteq Issues /\ todo \subseteq batch
    /\ backlog \subseteq Issues /\ refused \subseteq batch
    /\ outcome \in [Issues -> Outcomes]
    /\ seen \in [Issues -> Glimpses]
    /\ repaired \in BOOLEAN
    /\ acts \in 0..Acts

Init ==
    /\ issue = [i \in Issues |-> [open |-> TRUE, ready |-> TRUE, gated |-> FALSE]]
    /\ pr = [i \in Issues |-> NoPR]
    /\ attempt = [i \in Issues |-> "none"]
    /\ exhausted = [i \in Issues |-> 0]
    /\ pc = "idle" /\ kind = "none"
    /\ batch = {} /\ todo = {} /\ backlog = {} /\ refused = {}
    /\ outcome = [i \in Issues |-> NoOutcome]
    /\ seen = [i \in Issues |-> [gated |-> FALSE, clean |-> FALSE]]
    /\ repaired = FALSE
    /\ acts = 0

-----------------------------------------------------------------------------
(* Reading GitHub.  A call that may fail does so in either way.            *)

Fails(call) == IF call \in Faulty THEN BOOLEAN ELSE {FALSE}

\* The first n of S in listing order.
First(S, n) == {i \in S : Cardinality({j \in S : j < i}) < n}
SmallerOf(m, n) == IF m < n THEN m ELSE n

Open(i) == pr[i].state = "open"
Blocked(i) == pr[i].labels \cap BlockLabels # {}

ApprovedMergeable(i) ==
    ~Blocked(i) /\ pr[i].merge = "CLEAN" /\ "human" \notin pr[i].threads

NeedsRepair(i) ==
    /\ Open(i)
    /\ \/ "critic:blocking" \in pr[i].labels
       \/ pr[i].merge = "DIRTY"
       \/ (pr[i].threads # {} /\ ~ApprovedMergeable(i))

Orphaned(i) ==
    /\ Open(i) /\ ~Blocked(i) /\ "loop:adopted" \notin pr[i].labels
    /\ issue[i].open /\ ~issue[i].gated

Listed == {i \in Issues : issue[i].open /\ issue[i].ready}

-----------------------------------------------------------------------------
(* Changing GitHub and the memory of the tick.                             *)

Unready(i, fails) == IF fails THEN issue[i] ELSE [issue[i] EXCEPT !.ready = FALSE]
OnOpen(i, p) == IF Open(i) THEN [pr EXCEPT ![i] = p] ELSE pr
Disarmed(p, fails) == IF fails THEN p ELSE [p EXCEPT !.armed = FALSE]

\* A merge closes the issue: the body of a loop pull request says "Fixes #n".
Merged(i) ==
    /\ pr' = [pr EXCEPT ![i] = [NoPR EXCEPT !.state = "merged"]]
    /\ issue' = [issue EXCEPT ![i].open = FALSE]

\* New commits on the branch of i: GitHub opens a pull request or moves the head of
\* the open one, which keeps its labels and stays armed.
PushedHead(i, m) ==
    IF Open(i) THEN [pr[i] EXCEPT !.head = "unreviewed", !.merge = m]
    ELSE [NoPR EXCEPT !.state = "open", !.merge = m]

Phase(p, b) == pc' = p /\ batch' = b /\ todo' = b

Forget ==
    /\ Phase("idle", {}) /\ kind' = "none" /\ backlog' = {} /\ refused' = {}
    /\ outcome' = [i \in Issues |-> NoOutcome]
    /\ seen' = [i \in Issues |-> [gated |-> FALSE, clean |-> FALSE]]
    /\ repaired' = FALSE

\* The phases a batch goes through, and what follows its last one.
AfterWork == IF kind = "fresh" /\ MaxIterations > 1 THEN "iterate" ELSE "review"
Following ==
    CASE pc = "work"    -> AfterWork
      [] pc = "iterate" -> "review"
      [] pc = "review"  -> "gate"
      [] pc = "gate"    -> "land"
      [] pc = "land"    -> "finish"
      [] pc = "finish"  -> "next"

\* Outside the worker pool a phase handles its outcomes one after the other, in order.
Upnext(i) == i \in todo /\ \A j \in todo : i <= j

Done(i) ==
    /\ IF todo = {i} THEN Phase(Following, batch)
       ELSE todo' = todo \ {i} /\ UNCHANGED <<pc, batch>>
    /\ UNCHANGED <<kind, seen, backlog, repaired, acts>>

-----------------------------------------------------------------------------
(* The selections of a tick.                                               *)

\* Each tick first demotes the issues the iteration loop has given up on too often.
Stuck == {i \in Issues : exhausted[i] >= StuckThreshold /\ issue[i].ready}
Demotable == IF "unlabel" \in Faulty THEN SUBSET Stuck ELSE {Stuck}
Demoted(S) == [i \in Issues |-> IF i \in S THEN Unready(i, FALSE) ELSE issue[i]]

\* A selection lists the pull requests, then fetches the issue of each: with the
\* listing it loses all, with a fetch that one.
Lost == IF "listing" \in Faulty THEN SUBSET Issues ELSE {{}}
RepairsSeen ==
    LET repairs == {i \in Issues : NeedsRepair(i)}
        cut == SmallerOf(Parallel, Cardinality(repairs))
    IN  {first \ lost : first \in {b \in SUBSET repairs : Cardinality(b) = cut}, lost \in Lost}

\* Adoption that only looks at what could merge at once.
OrphansSeenClean ==
    {{i \in Issues : Orphaned(i) /\ pr[i].merge = "CLEAN"} \ lost : lost \in Lost}

OrphansSeen == {{i \in Issues : Orphaned(i)} \ lost : lost \in Lost}

\* What a batch remembers of the listing it came from: the merge state of an orphan,
\* the risk gate of a candidate.
Begin(k, p, b) ==
    /\ kind' = k /\ Phase(p, b)
    /\ seen' = [i \in Issues |->
         [gated |-> pc = "select" /\ issue[i].gated,
          clean |-> k = "adopt" /\ i \in b /\ pr[i].merge = "CLEAN"]]

\* _run_pre_dispatch_repairs: blocking pull requests are repaired; only when there are
\* none are orphans adopted; only when there are neither does the tick go on.
StartTick ==
    /\ pc = "idle"
    /\ \E S \in Demotable : issue' = Demoted(S)
    /\ \E repairs \in RepairsSeen, orphans \in OrphansSeen :
        \/ /\ repairs # {}
           /\ Begin("blocked", "work", repairs)
           /\ UNCHANGED outcome
        \/ /\ repairs = {} /\ orphans # {}
           /\ Begin("adopt", "review", orphans)
           /\ outcome' = [i \in Issues |->
                IF i \in orphans THEN [NoOutcome EXCEPT !.status = "open", !.url = TRUE]
                ELSE NoOutcome]
        \/ /\ repairs = {} /\ orphans = {}
           /\ Begin("none", "select", {})
           /\ UNCHANGED outcome
    /\ UNCHANGED <<pr, ledger, backlog, repaired, refused, acts>>

EndTick ==
    /\ Forget
    /\ UNCHANGED <<github, ledger, acts>>

\* _select_candidates, then _run_ready_issue_repairs: a ready issue that has an open
\* pull request is repaired before anything new is dispatched.
Select ==
    /\ pc = "select"
    /\ \/ /\ Listed = {} \/ "listing" \in Faulty
          /\ EndTick
       \/ /\ Listed # {}
          /\ backlog' = First(Listed, Parallel)
          /\ \E empty \in Fails("listing") :
               LET withPR == IF empty THEN {} ELSE {i \in backlog' : Open(i)}
               IN  IF withPR = {} THEN Begin("none", "classify", {})
                   ELSE Begin("ready", "work", withPR)
          /\ UNCHANGED <<github, ledger, outcome, repaired, refused, acts>>

\* _select_dispatch_set over the candidates listed before the ready repairs ran: an
\* in-flight issue loses its label, a recent failure cools down, the rest is
\* dispatched, one slot of it when a repair already ran in this tick.
InFlight == {i \in backlog : attempt[i] = "open"}
CoolingDown == {i \in backlog : attempt[i] \in {"failed", "cooling"}}
Dispatchable == backlog \ (InFlight \cup CoolingDown)
Reserved == SmallerOf(RESERVED_NEW_WORK_SLOTS, Parallel - 1)
DispatchSet == IF repaired THEN First(Dispatchable, Reserved) ELSE Dispatchable

Classify ==
    /\ pc = "classify"
    /\ \E kept \in IF "unlabel" \in Faulty THEN SUBSET InFlight ELSE {{}} :
         issue' = [i \in Issues |-> Unready(i, i \notin InFlight \ kept)]
    /\ attempt' = [i \in Issues |-> IF i \in CoolingDown THEN "cooling" ELSE attempt[i]]
    /\ IF DispatchSet = {} THEN Forget
       ELSE /\ kind' = "fresh" /\ Phase("work", DispatchSet)
            /\ outcome' = [i \in Issues |-> NoOutcome]
            /\ refused' = {}
            /\ UNCHANGED <<seen, backlog, repaired>>
    /\ UNCHANGED <<pr, exhausted, acts>>

-----------------------------------------------------------------------------
(* Workers.  A session ends with an open pull request, with one it opened   *)
(* before its deadline struck, or without one.                              *)

Opened(i) ==
    /\ \E m \in MergeStates \ {"DIRTY"}, timedOut, unsaved \in BOOLEAN :
        /\ pr' = [pr EXCEPT ![i] = PushedHead(i, m)]
        /\ outcome' = [outcome EXCEPT ![i] =
             [@ EXCEPT !.status = IF timedOut THEN "failed" ELSE "open",
                       !.url = TRUE, !.error = timedOut,
                       !.tree = IF timedOut /\ unsaved THEN "dirty" ELSE "nothing"]]

LeftWork(i) ==
    /\ \E t \in {"nothing", "dirty"} :
         outcome' = [outcome EXCEPT ![i] =
           [@ EXCEPT !.status = "failed", !.url = FALSE, !.error = TRUE, !.tree = t]]
    /\ UNCHANGED pr

\* run_worker on a fresh worktree.
FreshWork(i) ==
    /\ pc = "work" /\ kind = "fresh" /\ i \in todo
    /\ Opened(i) \/ LeftWork(i)
    /\ Done(i)
    /\ UNCHANGED <<issue, ledger, refused>>

\* run_repair_worker on the branch of the pull request: what it pushes replaces the
\* head; it may resolve review threads; it may fail before or after it pushed.
RepairWork(i) ==
    /\ pc = "work" /\ kind \in {"blocked", "ready"} /\ i \in todo
    /\ \E failed \in BOOLEAN :
        /\ outcome' = [outcome EXCEPT ![i] =
             [@ EXCEPT !.status = IF failed THEN "failed" ELSE "open",
                       !.url = TRUE, !.error = failed]]
        /\ \/ failed /\ UNCHANGED pr
           \/ /\ Open(i)
              /\ \E m \in MergeStates \ {"DIRTY"}, left \in {{}, pr[i].threads} :
                   pr' = [pr EXCEPT ![i] = [PushedHead(i, m) EXCEPT !.threads = left]]
           \/ ~Open(i) /\ UNCHANGED pr
    /\ Done(i)
    /\ UNCHANGED <<issue, ledger, refused>>

-----------------------------------------------------------------------------
(* ensure_pr_merged: enable auto-merge, which GitHub refuses for a pull     *)
(* request that could merge at once; then merge directly; report which.     *)

EnsureMerged(i, how) ==
    \/ /\ how = "auto" /\ Open(i) /\ pr[i].merge # "CLEAN"
       /\ pr' = [pr EXCEPT ![i].armed = TRUE]
       /\ UNCHANGED issue
    \/ /\ how = "squash" /\ Open(i) /\ pr[i].merge = "CLEAN"
       /\ Merged(i)
    \/ /\ how = "none"
       /\ UNCHANGED github

(* The iteration loop: probe, then a focused follow-up session, until the   *)
(* pull request is healthy or the attempts run out.                         *)

Settled(i) == outcome[i].status = "merged" \/ (outcome[i].status = "open" /\ outcome[i].url)
Iterating(i) == pc = "iterate" /\ Upnext(i)
\* One session more than the setting allows.
ProbingOneMore(i) ==
    /\ Iterating(i) /\ outcome[i].round <= MaxIterations
    /\ outcome[i].round = 1 => ~Settled(i)

Probing(i) ==
    /\ Iterating(i) /\ outcome[i].round < MaxIterations
    /\ outcome[i].round = 1 => ~Settled(i)
Healthy(i) == Open(i) /\ outcome[i].tree # "dirty" /\ pr[i].merge = "CLEAN"

SkipIteration(i) ==
    /\ Iterating(i) /\ outcome[i].round = 1 /\ Settled(i)
    /\ Done(i)
    /\ UNCHANGED <<github, ledger, outcome, refused>>

\* A stop or a pause file keeps the whole batch from its follow-up sessions.
IterationsOff ==
    /\ pc = "iterate" /\ todo = batch /\ \A i \in batch : outcome[i].round = 1
    /\ Phase("review", batch)
    /\ UNCHANGED <<github, ledger, kind, outcome, seen, backlog, repaired, refused, acts>>

\* DONE_MERGED stops; CLOSED_PR_ABANDONED escalates to a human and stops.
StopIteration(i) ==
    /\ Probing(i) /\ pr[i].state \in {"merged", "closed"}
    /\ \E fails \in Fails("unlabel") :
         issue' = [issue EXCEPT ![i] = Unready(i, fails \/ pr[i].state = "merged")]
    /\ Done(i)
    /\ UNCHANGED <<pr, ledger, outcome, refused>>

\* PR_OPEN_HEALTHY lands without another session.
LandHealthy(i) ==
    /\ Probing(i) /\ Healthy(i)
    /\ \E how \in {"auto", "squash", "none"} :
        /\ EnsureMerged(i, how)
        /\ outcome' = IF how = "none" THEN outcome
                      ELSE [outcome EXCEPT ![i].status = "open", ![i].url = TRUE]
    /\ Done(i)
    /\ UNCHANGED <<ledger, refused>>

\* The briefs for unpushed or uncommitted work and for a missing pull request end with
\* `gh pr merge --squash --auto`; the briefs that fix an open pull request do not.
BriefArms(i) == ~Open(i) \/ outcome[i].tree = "dirty"

FollowUp(i) ==
    /\ Probing(i) /\ pr[i].state \notin {"merged", "closed"} /\ ~Healthy(i)
    /\ \/ \E m \in MergeStates \ {"DIRTY"}, timedOut, arms \in BOOLEAN :
            /\ arms => BriefArms(i)
            /\ pr' = [pr EXCEPT ![i] = [PushedHead(i, m) EXCEPT !.armed = @ \/ arms]]
            /\ outcome' = [outcome EXCEPT ![i] =
                 [NoOutcome EXCEPT !.status = IF timedOut THEN "failed" ELSE "open",
                    !.url = TRUE, !.error = timedOut,
                    !.round = outcome[i].round + 1]]
       \/ /\ \E t \in {outcome[i].tree, "dirty"} :
               outcome' = [outcome EXCEPT ![i] =
                 [NoOutcome EXCEPT !.error = TRUE, !.tree = t, !.round = outcome[i].round + 1]]
          /\ UNCHANGED pr
    /\ UNCHANGED <<issue, ledger, refused, pc, kind, batch, todo, seen, backlog, repaired, acts>>

\* worker_iterations_exhausted, and escalate_to_human.
Exhaust(i) ==
    /\ Iterating(i) /\ outcome[i].round = MaxIterations
    /\ exhausted' = [exhausted EXCEPT ![i] = SmallerOf(StuckThreshold, @ + 1)]
    /\ \E fails \in Fails("unlabel") : issue' = [issue EXCEPT ![i] = Unready(i, fails)]
    /\ Done(i)
    /\ UNCHANGED <<pr, attempt, outcome, refused>>

-----------------------------------------------------------------------------
(* The critic.  A report has an overall opinion and its worst finding;      *)
(* rubber: approved without a finding, a large diff without tests.          *)

Reports == {r \in [overall : Opinions, worst : Severities, rubber : BOOLEAN] :
              r.rubber => r.overall = "approve" /\ r.worst = "none"}

\* plan_actions
Blocking(r) ==
    \/ r.overall = "block" \/ r.worst = "sev1"
    \/ r.overall = "request_changes" /\ r.worst = "sev2"
    \/ BlockOnSev2 /\ r.worst = "sev2"
Suspicious(r) == r.rubber
BlockMerge(r) == Blocking(r) \/ Suspicious(r)
PlanLabels(r) == (IF Blocking(r) THEN {"critic:blocking"} ELSE {})
                 \cup (IF Suspicious(r) THEN {"critic:suspicious"} ELSE {})
Verdict(r) == IF r.overall = "approve" THEN "approved" ELSE "rejected"

Reviewable(i) == outcome[i].status \in {"open", "merged"} /\ outcome[i].url
Reviewing(i) == pc = "review" /\ Upnext(i)

SkipReview(i) ==
    /\ Reviewing(i) /\ ~Reviewable(i)
    /\ Done(i)
    /\ UNCHANGED <<github, ledger, outcome, refused>>

\* A report that blocks: disarm, label, hold the outcome back; a suspicious approval
\* also takes the issue out of the backlog.
ReviewBlocks(i, r) ==
    /\ BlockMerge(r)
    /\ \E armedStays \in Fails("disarm"), labelFails \in Fails("label"), readyStays \in Fails("unlabel"),
         inline \in BOOLEAN :
        /\ pr' = OnOpen(i,
             [Disarmed(pr[i], armedStays) EXCEPT
                !.labels = IF labelFails THEN @ ELSE @ \cup PlanLabels(r),
                !.threads = IF inline /\ r.worst # "none" THEN @ \cup {"critic"} ELSE @,
                !.head = "rejected"])
        /\ issue' = [issue EXCEPT ![i] = Unready(i, readyStays \/ ~Suspicious(r))]
    /\ outcome' = [outcome EXCEPT ![i].status = "open", ![i].error = TRUE,
                                  ![i].verdict = Verdict(r)]

\* A report that does not block clears the labels of earlier rounds.
ReviewPasses(i, r) ==
    /\ ~BlockMerge(r)
    /\ \E labelsStay \in Fails("unlabel"), inline \in BOOLEAN :
        pr' = OnOpen(i, [pr[i] EXCEPT
             !.labels = IF labelsStay THEN @ ELSE @ \ BlockLabels,
             !.threads = IF inline /\ r.worst # "none" THEN @ \cup {"critic"} ELSE @,
             !.head = Verdict(r)])
    /\ outcome' = [outcome EXCEPT ![i].verdict = Verdict(r)]
    /\ UNCHANGED issue

\* verdict=error is no opinion, and clears the labels of earlier rounds all the same; an
\* exception out of the review is logged and leaves no verdict at all.
ReviewFails(i) ==
    \E how \in Faulty \cap {"critic_error", "critic_raises"}, labelsStay \in Fails("unlabel") :
        /\ pr' = IF labelsStay \/ how = "critic_raises" THEN pr
                 ELSE OnOpen(i, [pr[i] EXCEPT !.labels = @ \ BlockLabels])
        /\ outcome' = IF how = "critic_raises" THEN outcome
                      ELSE [outcome EXCEPT ![i].status = "open", ![i].verdict = "error"]
        /\ UNCHANGED issue

Review(i) ==
    /\ Reviewing(i) /\ Reviewable(i)
    /\ \/ \E r \in Reports : ReviewBlocks(i, r) \/ ReviewPasses(i, r)
       \/ ReviewFails(i)
    /\ Done(i)
    /\ UNCHANGED <<ledger, refused>>

-----------------------------------------------------------------------------
(* The merge gates, run over every outcome before anything lands.           *)

Gating(i) == pc = "gate" /\ Upnext(i)

\* What the issue and the pull request become when a gate refuses i.
Refuse(i) ==
    /\ refused' = refused \cup {i}
    /\ \E fails \in Fails("disarm") : pr' = [pr EXCEPT ![i] = Disarmed(@, fails)]
    /\ outcome' = [outcome EXCEPT ![i].status = IF @ = "merged" THEN "open" ELSE @]

\* _run_merge_gate drops the ready label; every kind of batch runs the issue-closed
\* gate, which refuses when it cannot tell; fresh work also runs the write-root gate.
Gate(i) ==
    /\ Gating(i)
    /\ \E fails \in Fails("unlabel") :
         issue' = [issue EXCEPT ![i] = Unready(i, fails \/ kind # "fresh" \/ ~Reviewable(i))]
    /\ \E unknown \in Fails("issue_state"), escaped \in BOOLEAN :
        IF /\ outcome[i].url
           /\ unknown \/ ~issue[i].open \/ (escaped /\ kind = "fresh")
        THEN Refuse(i)
        ELSE UNCHANGED <<pr, outcome, refused>>
    /\ Done(i)
    /\ UNCHANGED ledger

(* The three paths on which a reviewed pull request lands.                  *)

\* The deny-list of before #267: a review that crashed is no block.
VerdictNotRejected(i) == outcome[i].verdict # "rejected"

VerdictAllows(i) == outcome[i].verdict \in {"none", "approved"}

\* _enable_automerge_for_reviewed_outcomes
LandsFresh(i) ==
    /\ outcome[i].status = "open" /\ outcome[i].url
    /\ ~seen[i].gated /\ i \notin refused
    /\ ~outcome[i].error /\ VerdictAllows(i)

\* _enable_automerge_for_adopted_prs
LandsAdopted(i) ==
    /\ outcome[i].status = "open" /\ outcome[i].url
    /\ i \notin refused /\ ~outcome[i].error /\ VerdictAllows(i)
    /\ seen[i].clean /\ "human" \notin pr[i].threads
    /\ ~issue[i].gated

\* A repaired pull request that the critic has just blocked lands all the same.
LandsRepairedBlocked(i) == Reviewable(i) /\ VerdictAllows(i) /\ "human" \notin pr[i].threads

\* enable_automerge_for_repaired_prs, which drops the list the gate returned
LandsRepaired(i) ==
    /\ Reviewable(i) /\ ~outcome[i].error /\ VerdictAllows(i)
    /\ "human" \notin pr[i].threads

Landable(i) ==
    CASE kind = "fresh" -> LandsFresh(i)
      [] kind = "adopt" -> LandsAdopted(i)
      [] OTHER -> LandsRepaired(i)

Land(i) ==
    /\ pc = "land" /\ Upnext(i)
    /\ \/ /\ Landable(i)
          /\ \E how \in {"auto", "squash", "none"} :
               /\ EnsureMerged(i, how)
               /\ outcome' = IF how = "none" THEN outcome
                             ELSE [outcome EXCEPT ![i].status = "merged"]
       \/ /\ ~Landable(i)
          /\ UNCHANGED <<github, outcome>>
    /\ Done(i)
    /\ UNCHANGED <<ledger, refused>>

-----------------------------------------------------------------------------
(* The end of a batch.                                                      *)

Finishing(i) == pc = "finish" /\ Upnext(i)

\* An attempt recorded as merged holds nothing back: classify_skip treats it as none.
Recorded(status) == IF status = "merged" THEN "none" ELSE status

\* _finalize_tick: record the attempt, then rescue what a failed worker left behind:
\* commit, push, open a pull request, arm it when the diff has tests and the issue is
\* not gated.
FinishFresh(i) ==
    /\ Finishing(i) /\ kind = "fresh"
    /\ \E lost \in Fails("record") :
         attempt' = [attempt EXCEPT ![i] = IF lost THEN @ ELSE Recorded(outcome[i].status)]
    /\ \/ UNCHANGED pr
       \/ /\ outcome[i].status = "failed" /\ outcome[i].tree = "dirty"
          /\ \E m \in MergeStates \ {"DIRTY"}, tests \in BOOLEAN :
               pr' = [pr EXCEPT ![i] =
                 IF Open(i) THEN PushedHead(i, m)
                 ELSE [PushedHead(i, m) EXCEPT !.armed = tests /\ ~issue[i].gated]]
    /\ UNCHANGED <<issue, exhausted>>

\* _run_adoption_tick stamps what reached a terminal outcome.
FinishAdopted(i) ==
    /\ Finishing(i) /\ kind = "adopt"
    /\ \E fails \in Fails("label") :
        pr' = IF /\ outcome[i].status = "merged" \/ outcome[i].error
                 /\ i \notin refused /\ Open(i) /\ ~fails
              THEN [pr EXCEPT ![i].labels = @ \cup {"loop:adopted"}]
              ELSE pr
    /\ UNCHANGED <<issue, ledger>>

\* _run_repair_tick drops the ready label of ready-issue repairs.
FinishRepaired(i) ==
    /\ Finishing(i) /\ kind \in {"blocked", "ready"}
    /\ \E fails \in Fails("unlabel") :
        issue' = [issue EXCEPT ![i] =
          Unready(i, fails \/ kind = "blocked" \/ outcome[i].status = "failed")]
    /\ UNCHANGED <<pr, ledger>>

Finish(i) ==
    /\ FinishFresh(i) \/ FinishAdopted(i) \/ FinishRepaired(i)
    /\ Done(i)
    /\ UNCHANGED <<outcome, refused>>

\* The tick of before #262, which ended with its repairs.
NextBatchNone ==
    /\ pc = "next"
    /\ Forget
    /\ UNCHANGED <<github, ledger, acts>>

\* After a repair or an adoption the tick goes on to new work, if a slot can be spared.
NextBatch ==
    /\ pc = "next"
    /\ IF kind = "fresh" \/ Parallel < 2 THEN Forget
       ELSE /\ Phase(IF kind = "ready" THEN "classify" ELSE "select", {})
            /\ kind' = "none" /\ refused' = {} /\ repaired' = TRUE
            /\ outcome' = [i \in Issues |-> NoOutcome]
            /\ UNCHANGED <<seen, backlog>>
    /\ UNCHANGED <<github, ledger, acts>>

LoopStep ==
    \/ StartTick \/ Select \/ Classify \/ IterationsOff \/ NextBatch
    \/ \E i \in Issues :
        \/ FreshWork(i) \/ RepairWork(i)
        \/ SkipIteration(i) \/ StopIteration(i) \/ LandHealthy(i) \/ FollowUp(i) \/ Exhaust(i)
        \/ SkipReview(i) \/ Review(i) \/ Gate(i) \/ Land(i) \/ Finish(i)

-----------------------------------------------------------------------------
(* GitHub, time, the operator and crashes, between any two steps.           *)

Elsewhere == UNCHANGED <<exhausted, pc, todo, memory>>

AutoMergeFires(i) ==
    /\ Open(i) /\ pr[i].armed /\ pr[i].merge = "CLEAN"
    /\ Merged(i)
    /\ UNCHANGED <<attempt, acts>> /\ Elsewhere

\* Checks finish or are required anew; another merge makes the branch conflict.
MergeStateMoves(i) ==
    /\ Open(i) /\ pr[i].merge # "DIRTY"
    /\ \E m \in MergeStates \ {pr[i].merge} :
         pr' = [pr EXCEPT ![i].merge = m]
    /\ UNCHANGED <<issue, attempt, acts>> /\ Elsewhere

\* The cooldown is longer than a tick: it ends after the issue was skipped once.
CooldownEnds(i) ==
    /\ attempt[i] = "cooling"
    /\ attempt' = [attempt EXCEPT ![i] = "none"]
    /\ UNCHANGED <<github, acts>> /\ Elsewhere

\* The exhausted events leave the tail of the log the sweep reads, or an event of a
\* success wipes the count.
EventsAge(i) ==
    /\ exhausted[i] > 0
    /\ exhausted' = [exhausted EXCEPT ![i] = 0]
    /\ UNCHANGED <<github, attempt, pc, todo, memory, acts>>

OperatorActs(i) ==
    /\ acts < Acts /\ acts' = acts + 1
    /\ \/ /\ issue' = [issue EXCEPT ![i].open = ~@ /\ pr[i].state # "merged"]
          /\ UNCHANGED <<pr, attempt>>
       \/ /\ issue' = [issue EXCEPT ![i].ready = ~@]
          /\ UNCHANGED <<pr, attempt>>
       \/ /\ issue' = [issue EXCEPT ![i].gated = ~@]
          /\ UNCHANGED <<pr, attempt>>
       \/ /\ Open(i)
          /\ pr' = [pr EXCEPT ![i].threads = @ \cup {"human"}]
          /\ UNCHANGED <<issue, attempt>>
       \/ /\ Open(i)
          /\ pr' = [pr EXCEPT ![i] = [NoPR EXCEPT !.state = "closed"]]
          /\ UNCHANGED <<issue, attempt>>
       \/ /\ attempt[i] # "none" /\ pc = "idle"
          /\ attempt' = [attempt EXCEPT ![i] = "none"]
          /\ UNCHANGED github
    /\ Elsewhere

\* A worker's exception ends the process as a crash does: the tick's memory is lost,
\* and boot reaps the worktrees.
Crash ==
    /\ pc # "idle" /\ acts < Acts /\ acts' = acts + 1
    /\ Forget
    /\ UNCHANGED <<github, ledger>>

Environment ==
    \/ Crash
    \/ \E i \in Issues : AutoMergeFires(i) \/ MergeStateMoves(i) \/ CooldownEnds(i)
                         \/ EventsAge(i) \/ OperatorActs(i)

Next == LoopStep \/ Environment
Spec == Init /\ [][Next]_vars

\* The loop keeps running; nothing is asked of GitHub or of the operator.
FairSpec == Spec /\ WF_vars(LoopStep)

-----------------------------------------------------------------------------
(* Properties.                                                              *)

\* The merge phase of the loop lands i in this step: merges it, or arms auto-merge.
LoopLands(i) ==
    /\ pc = "land" /\ Upnext(i) /\ outcome'[i].status = "merged"
    /\ outcome[i].status # "merged"
    /\ pr'[i].armed \/ pr'[i].state = "merged"

\* The head a merge phase lands is one the critic approved: whatever was pushed, errored
\* or blocked since the batch was selected (#267, tick.py `_automerge_withheld_reason`).
\* One kind of failure gets past it: an exception out of the review leaves no verdict.
LandsWhatWasApproved ==
    [][\A i \in Issues : LoopLands(i) =>
          \/ pr[i].head = "approved"
          \/ outcome[i].verdict = "none" /\ "critic_raises" \in Faulty]_vars

ArmedBlocked(i) == "critic:blocking" \in pr[i].labels /\ pr[i].armed

\* A pull request that carries critic:blocking cannot merge by itself
\* (critic_actions.py `apply_critic_report`).  Four steps get it armed, and no other: a
\* follow-up session whose brief arms it; a block whose call to disarm failed; the
\* landing of a head the critic approved while the label stayed, because the call to
\* remove it failed; and the landing of one whose review raised.
BlockedNotArmed ==
    [][\A i \in Issues : ArmedBlocked(i)' /\ ~ArmedBlocked(i) =>
          \/ FollowUp(i)
          \/ Review(i) /\ pr[i].armed /\ "disarm" \in Faulty
          \/ Land(i) /\ pr[i].head = "approved" /\ "unlabel" \in Faulty
          \/ Land(i) /\ outcome[i].verdict = "none" /\ "critic_raises" \in Faulty]_vars

\* Anti-starvation (#262): with a slot to spare, a ready issue that does not cool down is
\* taken up, whatever happens to the repairs of other issues.
ReadyServed == \A i \in Issues : i \in Listed /\ attempt[i] = "none" ~> i \in batch \/ i \notin Listed

\* Adoption (#213): an orphaned pull request is reviewed, unless repairs take its turn.
Unreviewed(i) == Orphaned(i) /\ pr[i].head = "unreviewed"
SomeRepair == \E j \in Issues : NeedsRepair(j)
OrphanReviewed == \A i \in Issues : Unreviewed(i) ~> ~Unreviewed(i) \/ SomeRepair

\* What competes for the slots of a tick has its turn.
EachHasItsTurn == ReadyServed /\ OrphanReviewed

\* What the documents say, which the code does not keep.

\* A pull request the issue-closed gate refused does not land later in the same batch.
RefusedStaysOut == [][\A i \in Issues : LoopLands(i) => i \notin refused]_vars

\* A crashed review never falls through to a landing (dispatch.py, where the verdict is
\* recorded on the outcome).
NeverLandsUnapproved == [][\A i \in Issues : LoopLands(i) => pr[i].head = "approved"]_vars

\* Nothing merges, by the loop or by GitHub, whose head the critic has not approved.
MergesApproved ==
    [][\A i \in Issues : pr'[i].state = "merged" /\ Open(i) => pr[i].head = "approved"]_vars
=============================================================================
