------------------------------ MODULE MCAgents ------------------------------
(* What the agents of the loop go through, each on a small instance: `part` *)
(* says which component a behaviour exercises, the others rest.             *)
EXTENDS WorkerSession, CriticReview, SdkRun, TLC

VARIABLE part

Obj(clean, overall, findings, manifesto) ==
    [clean |-> clean, overall |-> overall, findings |-> findings, manifesto |-> manifesto,
     path |-> TRUE]

SaidTexts ==
    {<<Obj(TRUE, "junk", {}, {})>>, <<Obj(TRUE, "approve", {"sev3"}, {"sev1"})>>,
     <<Obj(TRUE, "approve", {"sev1"}, {})>>, <<Obj(TRUE, "request_changes", {"sev3"}, {})>>,
     <<Obj(TRUE, "request_changes", {"sev2", "sev3"}, {"junk"})>>,
     <<Obj(TRUE, "request_changes", {"sev3"}, {"sev2"})>>,
     <<Obj(TRUE, "block", {"sev1", "sev3"}, {}), Obj(FALSE, "approve", {}, {})>>,
     <<Obj(FALSE, "request_changes", {"sev3"}, {}), Obj(FALSE, "approve", {"junk"}, {})>>}

SeenFacts == {{}, {"no_verify"}, {"body_no_verify", "justified"},
              {"worker_log", "editable", "packaging"}, {"worker_log", "packaging"}}

\* A system tree without the checker, and the venv that has it.
HasTools == "sys" :> {"python"} @@ "venv" :> {"python", "pyright"}
PathsOf == {<<"sys">>, <<"sys", "venv">>}
DeclaredOf == {<<>>, <<"venv">>}

Init == /\ SessionInit /\ CriticInit /\ SdkInit
        /\ part \in {"session", "critic", "sdk"}

Next == \/ part = "session" /\ SessionNext /\ UNCHANGED <<criticVars, sdkVars, part>>
        \/ part = "critic" /\ CriticNext /\ UNCHANGED <<sessionVars, sdkVars, part>>
        \/ part = "sdk" /\ SdkNext /\ UNCHANGED <<sessionVars, criticVars, part>>

\* The fairness of each component, in the behaviours that exercise it.
FairSession == /\ WF_sessionVars(part = "session" /\ LoopStep)
               /\ \A i \in Issues : WF_sessionVars(part = "session" /\ WorkerStep(i))
FairSdk == WF_sdkVars(part = "sdk" /\ ClockTicks) /\ WF_sdkVars(part = "sdk" /\ Run)

Spec == /\ Init /\ [][Next]_<<sessionVars, criticVars, sdkVars, part>>
        /\ FairSession /\ FairSdk

\* A slot taken comes back, and what no worker holds any more is not shown.
AgentsLeave == SlotsComeBack /\ GhostsLeave
=============================================================================
