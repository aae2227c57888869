----------------------------- MODULE MCRecords ------------------------------
(* What the loop writes down, files and asks of GitHub, each component on a *)
(* small instance: `part` says which one a behaviour exercises, the others  *)
(* rest.                                                                    *)
EXTENDS RunnerFiles, EventMirror, Knowledge, Audit, MCBacklog, GitHubCalls, OperatorAsk

VARIABLE part

\* Records of the NDJSON file, as the runner writes them.
R == [kind |-> "", ticked |-> FALSE, by |-> "none", issue |-> 0, issues |-> <<>>, status |-> "",
      pr |-> "", stage |-> "", old |-> "", new |-> "", verdict |-> "", attempt |-> 0,
      outcomes |-> <<>>]
Out(status, pr) == <<[issue |-> 1, status |-> status, pr |-> pr]>>
TickRecord(kind)   == [R EXCEPT !.kind = kind, !.ticked = TRUE]
WorkerRecord(kind) == [TickRecord(kind) EXCEPT !.by = "log", !.issue = 1]
RunnerSaid ==
    {[TickRecord("tick_start") EXCEPT !.issues = <<1>>],
     [TickRecord("tick_done") EXCEPT !.outcomes = Out("failed", "")],
     [TickRecord("tick_done") EXCEPT !.outcomes = Out("merged", "p")],
     WorkerRecord("worker_start"),
     [WorkerRecord("worker_done") EXCEPT !.status = "open", !.pr = "p"],
     [R EXCEPT !.kind = "worker_session_transition", !.by = "session", !.issue = 1,
               !.old = "running", !.new = "abandoned"],
     [R EXCEPT !.kind = "critic_done", !.issue = 1, !.pr = "p", !.verdict = "request_changes"],
     [R EXCEPT !.kind = "worker_work_rescued", !.issue = 1, !.pr = "p"],
     [TickRecord("stage_timeout") EXCEPT !.issue = 1, !.stage = "worker"]}

\* Two lessons of one area of which one names a signal, and one of another.
CardsOf == {[area |-> <<"a", "b", "c">>, signal |-> "s", target |-> <<"f">>],
            [area |-> <<"a", "b", "d">>, signal |-> "", target |-> <<"a", "b">>],
            [area |-> <<"a", "e">>, signal |-> "", target |-> <<"f">>]}

\* Two functions have one qualified name.
U(probe, target, nth) == [probe |-> probe, target |-> target, nth |-> nth]
UnitsOf == {U("file", "m", 1), U("func", "m.f", 1), U("func", "m.x", 1), U("func", "m.x", 2)}
\* Grown to twice its cap only by a commit; of two of one name, the second the larger.
Startable(sizes) ==
    /\ \A u \in UnitsOf : sizes[u] < 4
    /\ sizes[U("func", "m.x", 1)] <= sizes[U("func", "m.x", 2)]
CapOf == "file" :> 2 @@ "func" :> 2
ProbesOf == <<"file", "func">>

\* Two pull requests approved, one over a human's thread, and one blocked.
Clean(by) == [state |-> "open", branch |-> TRUE, armed |-> FALSE, label |-> "none",
              merge |-> "clean", threads |-> {by}]
BlockedPull == [Clean("critic") EXCEPT !.label = "critic:blocking", !.merge = "blocked"]
StartsOf == {<<Clean("human"), Clean("critic"), BlockedPull>>}

\* The loop's clock is behind GitHub's, right or ahead.
SkewsOf == {-2, 0, 1}

Init == /\ FilesInit /\ MirrorInit /\ KnowledgeInit /\ BacklogInit /\ AuditInit
        /\ GitHubInit /\ AskInit
        /\ part \in {"files", "mirror", "knowledge", "backlog", "audit", "github", "ask"}
        /\ IF part = "audit"
           THEN Startable(size)
           ELSE \A u \in Units : size[u] = 2
        /\ part # "ask" => skew = 0

Rest1 == <<filesVars, mirrorVars>>
Rest2 == <<backlogVars, auditVars>>
Rest3 == <<githubVars, askVars>>

Files == part = "files" /\ FilesNext /\ UNCHANGED <<mirrorVars, knowledgeVars, Rest2, Rest3>>
Mirror == part = "mirror" /\ MirrorNext /\ UNCHANGED <<filesVars, knowledgeVars, Rest2, Rest3>>
Knows == part = "knowledge" /\ KnowledgeNext /\ UNCHANGED <<Rest1, Rest2, Rest3>>
Backlog_ == part = "backlog" /\ BacklogNext /\ UNCHANGED <<Rest1, knowledgeVars, auditVars, Rest3>>
Audits == part = "audit" /\ AuditNext /\ UNCHANGED <<Rest1, knowledgeVars, backlogVars, Rest3>>
GitHub == part = "github" /\ GitHubNext /\ UNCHANGED <<Rest1, knowledgeVars, Rest2, askVars>>
Asks == part = "ask" /\ AskNext /\ UNCHANGED <<Rest1, knowledgeVars, Rest2, githubVars>>

Next == (Files \/ Mirror \/ Knows \/ Backlog_ \/ Audits \/ GitHub \/ Asks) /\ UNCHANGED part

Spec == Init /\ [][Next]_<<Rest1, knowledgeVars, Rest2, Rest3, part>>
=============================================================================
