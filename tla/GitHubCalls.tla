---------------------------- MODULE GitHubCalls ----------------------------
(* gh_client.py and gh_issues.py: the methods of the GitHub client that     *)
(* take several calls, each of which may fail, or lose the answer to what   *)
(* it did, while GitHub and people go on.                                   *)
(*                                                                          *)
(* Three of them: prs_requiring_repair (a listing, its review threads in    *)
(* batches, one by one where a batch fails), ensure_pr_merged (auto-merge,  *)
(* else a direct merge and the branch's deletion) and post_review_comment   *)
(* (a finding in its line, else without).  A pull request is what the loop  *)
(* reads of it.  A listing is the set of what is in it: it is sorted by the *)
(* last update, so that where it is cut any of it may come first.           *)
EXTENDS Naturals, FiniteSets

CONSTANTS
    Pulls,      \* the pull requests, numbers
    BATCH_CHUNK,  \* _REVIEW_THREADS_BATCH_CHUNK
    RepairLimit,  \* what a caller asks for
    ListedMost,    \* what it lists for that, max(limit, 50)
    Starts,       \* what the pull requests may be at first
    MaxGhFaults,  \* bound on calls that fail or lose their answer
    MaxGhMoves,   \* bound on what GitHub and people do meanwhile
    MaxMethods    \* bound on the methods called

\* A pull request: its state, its branch, whether auto-merge is armed, the
\* critic's label, the merge state and whose review threads are unresolved.
Pr == [state : {"open", "merged", "closed"}, branch : BOOLEAN, armed : BOOLEAN,
       label : {"none", "critic:blocking", "critic:suspicious"},
       merge : {"clean", "dirty", "blocked"}, threads : SUBSET {"critic", "human"}]

\* A repository has finitely many pull requests; what is not merged has its branch.
ASSUME GitHubAssumption ==
    /\ Pulls \subseteq Nat \ {0} /\ IsFiniteSet(Pulls) /\ BATCH_CHUNK \in Nat \ {0}
    /\ {RepairLimit, ListedMost, MaxGhFaults, MaxGhMoves, MaxMethods} \subseteq Nat
    /\ Starts \subseteq [Pulls -> Pr]
    /\ \A start \in Starts : \A n \in Pulls : start[n].branch \/ start[n].state = "merged"

VARIABLES
    gh,        \* GitHub: each pull request
    method,    \* the method under way, with what it has read
    answer,    \* what the last one returned
    held,      \* history: who, of those listed, had a human's thread open all through it
    ready,     \* history: who was approved and clean all through it
    posted,    \* history: how often the finding it posts was posted
    ghFaults, ghMoves, methods

githubVars == <<gh, method, answer, held, ready, posted, ghFaults, ghMoves, methods>>

\* The method that is called for when none is.
NoMethod == [name |-> "none", pr |-> 0, at |-> "", before |-> 0, todo |-> {}, single |-> {},
             listed |-> [n \in {} |-> 0], threads |-> [n \in {} |-> {}]]
Untold == [name |-> "none", pr |-> 0, ok |-> FALSE, how |-> "", prs |-> {}, skips |-> {},
           faults |-> 0]

GhOpen == {n \in Pulls : gh[n].state = "open"}

\* _pr_label_names and _thread_is_critic stand behind `label` and `threads`.
human_unresolved_threads(threads) == threads \cap {"human"}

\* A mutant: the threads are not looked at.
is_approved_mergeableByState(pr, threads) == pr.label = "none" /\ pr.merge = "clean"

is_approved_mergeable(pr, threads) ==
    pr.label = "none" /\ pr.merge = "clean" /\ human_unresolved_threads(threads) = {}

\* Why prs_requiring_repair would return a pull request.
Reasons(pr, threads) ==
    {r \in {"critic:blocking", "merge_state", "unresolved_review_threads"} :
        \/ r = "critic:blocking" /\ pr.label = r
        \/ r = "merge_state" /\ pr.merge = "dirty"
        \/ r = "unresolved_review_threads" /\ threads # {} /\ ~is_approved_mergeable(pr, threads)}

\* What the histories keep when a step takes GitHub from gh to gh'.
HumanHolds(g) == {n \in Pulls : g[n].state = "open" /\ "human" \in g[n].threads}
IsReady(g) == {n \in Pulls : g[n].state = "open" /\ is_approved_mergeable(g[n], g[n].threads)}
Remembers == held' = held \cap HumanHolds(gh') /\ ready' = ready \cap IsReady(gh')

GitHubInit ==
    /\ gh \in Starts
    /\ method = NoMethod /\ answer = Untold /\ held = {} /\ ready = {} /\ posted = 0
    /\ ghFaults = 0 /\ ghMoves = 0 /\ methods = 0

\* A call of the client: it does what it does and says so, it fails, or its
\* answer is lost.
Fault == ghFaults < MaxGhFaults /\ ghFaults' = ghFaults + 1
NoFault == UNCHANGED ghFaults
Calm == answer' = Untold
Goes(m) == method' = m /\ Calm
Returns(t) == method' = NoMethod /\ answer' = [t EXCEPT !.faults = ghFaults' - method.before]
Quiet == UNCHANGED <<posted, ghMoves, methods>>

Call(name, n, at) ==
    /\ method = NoMethod /\ methods < MaxMethods
    /\ methods' = methods + 1
    /\ method' = [NoMethod EXCEPT !.name = name, !.pr = n, !.at = at, !.before = ghFaults]
    /\ posted' = 0 /\ answer' = Untold
    /\ held' = HumanHolds(gh) /\ ready' = IsReady(gh)
    /\ UNCHANGED <<gh, ghFaults, ghMoves>>

-----------------------------------------------------------------------------
(* prs_requiring_repair                                                     *)

\* What may come first in a listing.
Firsts(ns, limit) ==
    {first \in SUBSET ns :
        Cardinality(first) = IF Cardinality(ns) < limit THEN Cardinality(ns) ELSE limit}

\* list_open_prs: [] on failure.
list_open_prs ==
    /\ method.at = "list" /\ UNCHANGED gh
    /\ \/ /\ NoFault
          /\ \E prs \in Firsts(GhOpen, ListedMost) :
                /\ IF prs = {} THEN Returns([Untold EXCEPT !.name = "repair", !.ok = TRUE])
                   ELSE Goes([method EXCEPT !.at = "threads", !.todo = prs,
                                            !.listed = [n \in prs |-> gh[n]]])
                /\ held' = held \cap prs \cap HumanHolds(gh) /\ ready' = ready \cap IsReady(gh)
       \/ Fault /\ Returns([Untold EXCEPT !.name = "repair"]) /\ Remembers
    /\ Quiet

With(m, ns) == [m EXCEPT !.threads = [n \in DOMAIN @ \cup ns |->
                                          IF n \in ns THEN gh[n].threads ELSE @[n]]]
Without(m, ns) == [m EXCEPT !.threads = [n \in DOMAIN @ \cup ns |->
                                             IF n \in ns THEN {} ELSE @[n]]]

\* A mutant: nobody in a batch that fails has threads.
ChunkFailsWhole(m, chunk) == Without(m, chunk)

\* A batch that fails is fetched pull request by pull request.
ChunkFails(m, chunk) == [m EXCEPT !.single = chunk]

\* review_threads_batch, a chunk of it.
_review_threads_chunk ==
    /\ method.at = "threads" /\ method.single = {} /\ method.todo # {}
    /\ \E chunk \in Firsts(method.todo, BATCH_CHUNK) :
          LET m == [method EXCEPT !.todo = @ \ chunk]
          IN \/ NoFault /\ Goes(With(m, chunk))
             \/ Fault /\ Goes(ChunkFails(m, chunk))
    /\ UNCHANGED gh /\ Remembers /\ Quiet

\* review_threads: [] on failure, as if the pull request had none.
review_threads ==
    /\ method.at = "threads"
    /\ \E n \in method.single :
          LET m == [method EXCEPT !.single = @ \ {n}]
          IN \/ NoFault /\ Goes(With(m, {n}))
             \/ Fault /\ Goes(Without(m, {n}))
    /\ UNCHANGED gh /\ Remembers /\ Quiet

Repairs(m) == {n \in DOMAIN m.listed : Reasons(m.listed[n], m.threads[n]) # {}}
Skips(m) == {n \in DOMAIN m.listed \ Repairs(m) :
                m.threads[n] # {} /\ is_approved_mergeable(m.listed[n], m.threads[n])}

prs_requiring_repair ==
    /\ method.at = "threads" /\ method.single = {} /\ method.todo = {}
    /\ NoFault
    /\ \E prs \in Firsts(Repairs(method), RepairLimit) :
          Returns([Untold EXCEPT !.name = "repair", !.ok = TRUE, !.skips = Skips(method), !.prs = prs])
    /\ UNCHANGED gh /\ Remembers /\ Quiet

-----------------------------------------------------------------------------
(* ensure_pr_merged                                                         *)

Merged(n, ok, how) == [Untold EXCEPT !.name = "merge", !.pr = n, !.ok = ok, !.how = how]
GoesOn(at) == Goes([method EXCEPT !.at = at])

\* enablePullRequestAutoMerge, after the node's id: GitHub refuses it for what
\* is clean, or where the repository does not allow it.
enable_pr_auto_merge ==
    /\ method.at = "enable"
    /\ LET n == method.pr
           armed == [gh EXCEPT ![n].armed = TRUE]
           may == gh[n].state = "open" /\ gh[n].merge # "clean"
       IN \/ may /\ gh' = armed /\ NoFault /\ Returns(Merged(n, TRUE, "auto"))
          \/ may /\ gh' = armed /\ Fault /\ GoesOn("merge")
          \/ NoFault /\ GoesOn("merge") /\ UNCHANGED gh
    /\ Remembers /\ Quiet

\* A mutant: the branch goes though the merge failed.
AfterRefusalGoesOn(n) == GoesOn("head")
AfterRefusal(n) == Returns(Merged(n, FALSE, "none"))

\* pulls.merge: GitHub refuses what cannot be merged.
merge_pull_request ==
    /\ method.at = "merge"
    /\ LET n == method.pr
           merged == [gh EXCEPT ![n].state = "merged", ![n].armed = FALSE]
           may == gh[n].state = "open" /\ gh[n].merge = "clean"
       IN \/ may /\ gh' = merged /\ NoFault /\ GoesOn("head")
          \/ may /\ gh' = merged /\ Fault /\ AfterRefusal(n)
          \/ ~may /\ NoFault /\ AfterRefusal(n) /\ UNCHANGED gh
          \/ Fault /\ AfterRefusal(n) /\ UNCHANGED gh
    /\ Remembers /\ Quiet

\* The branch's name is read again; without it nothing is deleted.
ReadHead ==
    /\ method.at = "head"
    /\ \/ NoFault /\ GoesOn("delete")
       \/ Fault /\ Returns(Merged(method.pr, TRUE, "squash"))
    /\ UNCHANGED gh /\ Remembers /\ Quiet

\* An open pull request whose branch goes is closed by GitHub.
Unbranched(n) == [gh EXCEPT ![n].branch = FALSE,
                            ![n].state = IF @ = "open" THEN "closed" ELSE @]

delete_branch ==
    /\ method.at = "delete"
    /\ \/ gh' = Unbranched(method.pr) /\ (NoFault \/ Fault)
       \/ UNCHANGED gh /\ Fault
    /\ Returns(Merged(method.pr, TRUE, "squash"))
    /\ Remembers /\ Quiet

-----------------------------------------------------------------------------
(* post_review_comment                                                      *)

Posted(n, ok) == [Untold EXCEPT !.name = "post", !.pr = n, !.ok = ok]

\* A mutant: a finding outside the diff is dropped.
InlineFailsDropped(n) == Returns(Posted(n, TRUE))
InlineFails(n) == GoesOn("plain")

\* In its line: GitHub refuses a line that is not in the diff.
PostInline ==
    /\ method.at = "inline"
    /\ LET n == method.pr IN
       \/ posted' = posted + 1 /\ NoFault /\ Returns(Posted(n, TRUE))
       \/ posted' = posted + 1 /\ Fault /\ InlineFails(n)
       \/ UNCHANGED posted /\ (NoFault \/ Fault) /\ InlineFails(n)
    /\ UNCHANGED <<gh, ghMoves, methods>> /\ Remembers

\* Without a line.
PostPlain ==
    /\ method.at = "plain"
    /\ LET n == method.pr IN
       \/ posted' = posted + 1 /\ NoFault /\ Returns(Posted(n, TRUE))
       \/ posted' = posted + 1 /\ Fault /\ Returns(Posted(n, FALSE))
       \/ UNCHANGED posted /\ Fault /\ Returns(Posted(n, FALSE))
    /\ UNCHANGED <<gh, ghMoves, methods>> /\ Remembers

-----------------------------------------------------------------------------
\* Auto-merge fires; checks and conflicts come and go; threads are opened and
\* resolved; the critic labels; a person closes.
GitHubMoves ==
    /\ ghMoves < MaxGhMoves /\ ghMoves' = ghMoves + 1
    /\ \E n \in GhOpen :
          \/ /\ gh[n].armed /\ gh[n].merge = "clean"
             /\ gh' = [gh EXCEPT ![n].state = "merged", ![n].armed = FALSE]
          \/ \E s \in {"clean", "dirty"} : gh' = [gh EXCEPT ![n].merge = s]
          \/ \E t \in SUBSET {"critic", "human"} : gh' = [gh EXCEPT ![n].threads = t]
          \/ \E b \in {"none", "critic:blocking"} : gh' = [gh EXCEPT ![n].label = b]
          \/ gh' = [gh EXCEPT ![n].state = "closed", ![n].armed = FALSE]
    /\ Remembers /\ UNCHANGED <<method, answer, posted, ghFaults, methods>>

GitHubNext ==
    \/ Call("repair", 0, "list")
    \/ \E n \in Pulls : \/ Call("merge", n, "enable")
                       \/ \E at \in {"inline", "plain"} : Call("post", n, at)
    \/ list_open_prs \/ _review_threads_chunk \/ review_threads \/ prs_requiring_repair
    \/ enable_pr_auto_merge \/ merge_pull_request \/ ReadHead \/ delete_branch
    \/ PostInline \/ PostPlain
    \/ GitHubMoves

GitHubSpec == GitHubInit /\ [][GitHubNext]_githubVars

-----------------------------------------------------------------------------
GitHubTypeOK ==
    /\ gh \in [Pulls -> Pr] /\ held \subseteq Pulls /\ ready \subseteq Pulls
    /\ answer.how = "squash" => answer.name = "merge" /\ answer.ok
    /\ method.name = "none" => method = NoMethod
    /\ posted \in 0..2 /\ ghFaults \in 0..MaxGhFaults
    /\ ghMoves \in 0..MaxGhMoves /\ methods \in 0..MaxMethods

(* A pull request of the listing that a human's thread holds back all the   *)
(* time is repaired, however its batch went: of the calls that fail the     *)
(* first costs nobody (review_threads_batch's "one failed batch never       *)
(* silently degrades every PR") and each later one a single pull request.   *)
HumanHeldBack ==
    answer.name = "repair" /\ answer.ok =>
        \/ Cardinality(answer.prs) = RepairLimit
        \/ Cardinality(held \ answer.prs) <= IF answer.faults = 0 THEN 0 ELSE answer.faults - 1

(* A pull request that was approved and clean all through is left to the    *)
(* merge, with the critic's leftover threads and without (issue 230).       *)
ApprovedLeftAlone == answer.name = "repair" => ready \cap answer.prs = {}

(* What was said to be merged by squash is; no branch goes before the merge *)
(* of its pull request, whatever was refused, lost or done by a person.     *)
MergedIsTrue ==
    /\ answer.how = "squash" => gh[answer.pr].state = "merged"
    /\ \A n \in Pulls : ~gh[n].branch => gh[n].state = "merged"

(* A finding said to be posted is on the pull request; it is there once if  *)
(* no answer was lost, in the diff or not (post_review_comment's contract). *)
FindingLands ==
    answer.name = "post" =>
        /\ answer.ok => posted >= 1
        /\ answer.faults = 0 => answer.ok /\ posted = 1

GitHubInv ==
    GitHubTypeOK /\ HumanHeldBack /\ ApprovedLeftAlone /\ MergedIsTrue /\ FindingLands

(* repairs.py:27 leaves what is labelled critic:suspicious to the repair    *)
(* loop; prs_requiring_repair takes it for its threads only.                *)
SuspiciousIsRepaired ==
    answer.name = "repair" /\ answer.ok /\ Cardinality(answer.prs) < RepairLimit =>
        \A n \in GhOpen : gh[n].label = "critic:suspicious" => n \in answer.prs

(* MergeOutcome.merged tells whether the pull request landed: the answer of *)
(* a merge that went through may be lost, and then its branch stays too.    *)
RefusalIsTrue == answer.name = "merge" /\ answer.how = "none" => gh[answer.pr].state # "merged"

(* post_review_comment says a finding ALWAYS lands: if an answer is lost it *)
(* lands twice.                                                             *)
LandsOnce == posted <= 1
=============================================================================
