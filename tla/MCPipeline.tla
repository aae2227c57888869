----------------------------- MODULE MCPipeline -----------------------------
(* How work passes through stages and queues, each component on a small     *)
(* instance: `part` says which one a behaviour exercises, the others rest.  *)
EXTENDS AsyncPipeline, TaskQueue, Pipeline

VARIABLE part

\* A step of a pipeline file: its handler, what it waits for, the label it
\* waits for, and whether every step before it must approve.
S(r, after, on) ==
    [role |-> r, after |-> after, on |-> on, labels |-> {}, all_approve |-> FALSE, ok |-> TRUE]
Free(r, others) == {S(r, a, FALSE) : a \in SUBSET others} \cup {S(r, {}, TRUE)}
W == S("worker", {}, FALSE)
Approved(s) == [s EXCEPT !.all_approve = TRUE]

\* The chain with a label and a gate, the invalid files of the tests, and
\* every graph over three steps in two orders of the file.
AllFiles ==
    {<<>>, <<W, S("docs", {"worker"}, FALSE)>>, <<[W EXCEPT !.ok = FALSE]>>, <<W, W>>,
     <<W, S("critic", {"nobody"}, FALSE)>>,
     <<S("po", {}, TRUE), S("worker", {"po"}, FALSE),
       [S("sec", {"worker"}, FALSE) EXCEPT !.labels = {"l"}], S("critic", {"sec"}, FALSE),
       Approved(S("merge", {"critic"}, FALSE))>>,
     <<W, Approved(S("sec", {"worker"}, FALSE)), S("critic", {"worker"}, FALSE),
       Approved(S("merge", {"critic"}, FALSE))>>}
    \cup UNION {{<<x, y, z>> : x \in Free(o[1], {o[2], o[3]}),
                               y \in Free(o[2], {"worker", "critic", "merge"}),
                               z \in Free(o[3], {o[1], o[2]})} :
                o \in {<<"worker", "critic", "merge">>, <<"merge", "worker", "critic">>}}

\* What the file becomes when somebody edits it under a running loop.
Later == {<<W, S("critic", {"nobody"}, FALSE)>>, <<W, S("critic", {"worker"}, FALSE)>>}

Init == /\ AsyncInit /\ QueueInit /\ PipeInit /\ part \in {"async", "queue", "pipe"}
        /\ part # "queue" => backend = "memory"
        /\ part # "pipe" => file = <<>>

Next == \/ part = "async" /\ AsyncNext /\ UNCHANGED <<queueVars, pipeVars, part>>
        \/ part = "queue" /\ QueueNext /\ UNCHANGED <<asyncVars, pipeVars, part>>
        \/ part = "pipe" /\ PipeNext /\ UNCHANGED <<asyncVars, queueVars, part>>

\* The fairness of AsyncPipeline, in the behaviours that exercise it.
FairAsync == /\ WF_asyncVars(part = "async" /\ MainLoop)
             /\ WF_asyncVars(part = "async" /\ Take)
             /\ \A s \in PoSlots : WF_asyncVars(part = "async" /\ _po_worker(s))
             /\ \A s \in WorkerSlots : WF_asyncVars(part = "async" /\ _worker_worker(s))
             /\ \A s \in CriticSlots : WF_asyncVars(part = "async" /\ _critic_worker(s))
             /\ \A i \in Ready : WF_asyncVars(part = "async" /\ OrphanEnds(i))

Spec == Init /\ [][Next]_<<asyncVars, queueVars, pipeVars, part>> /\ FairAsync
=============================================================================
