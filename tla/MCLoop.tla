------------------------------- MODULE MCLoop -------------------------------
(* What the loop does around its tick, each component on a small instance:  *)
(* `part` says which one a behaviour exercises, the other one rests.        *)
EXTENDS Supervision, Sweeps, TLC

VARIABLE part

OperatorSites ==
    {{[place |-> "purelib", art |-> "checkout_link"]},
     {[place |-> "purelib", art |-> "root_pointer"]}}

SubsOf == "e1" :> {"e2", "i1"} @@ "e2" :> {}
RootOf == "t1" :> "task" @@ "a1" :> "agent"

Init == /\ SuperInit /\ SweepsInit /\ part \in {"super", "sweeps"}
        /\ part # "super" => site = {[place |-> "purelib", art |-> "root_pointer"]}
        /\ part # "sweeps" => opened = Issues /\ leased = {"t1"}

Next == \/ part = "super" /\ SuperNext /\ UNCHANGED <<sweepVars, part>>
        \/ part = "sweeps" /\ SweepsNext /\ UNCHANGED <<superVars, part>>

\* The fairness of each component, in the behaviours that exercise it.
FairSuper  == WF_superVars(part = "super" /\ Loop)
FairSweeps == /\ WF_sweepVars(part = "sweeps" /\ (TheLoop \/ DispatchBody))
              /\ SF_sweepVars(part = "sweeps" /\ BeginMaintenance)

Spec == Init /\ [][Next]_<<superVars, sweepVars, part>> /\ FairSuper /\ FairSweeps

\* What has been asked of the loop, or left over by it, is dealt with in the end:
\* a stop is seen; orphaned worktrees, finished epics and a moved HEAD go.
LoopSettles == StopIsSeen /\ LeftoversGo
=============================================================================
