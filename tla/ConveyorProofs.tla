--------------------------- MODULE ConveyorProofs ---------------------------
(***************************************************************************)
(* Proofs about Conveyor, for every set of issues, every number of slots,  *)
(* sessions, acts and every choice of what may fail.                       *)
(*                                                                         *)
(* ClearedInv says what holds between the critic's pass over a batch and   *)
(* its landing: an outcome no check holds back belongs to a head approved  *)
(* in this batch, or its review raised and left no verdict, which is what  *)
(* UnheardInv makes sure of.                                               *)
(***************************************************************************)
EXTENDS Conveyor, TLAPS

-----------------------------------------------------------------------------
(* The inductive invariants. *)

(* The tick's memory, and the world: GitHub, the ledger and the outcomes. *)
Control ==
    /\ pc \in {"idle", "select", "classify", "work", "iterate", "review", "gate",
               "land", "finish", "next"}
    /\ kind \in {"none", "blocked", "ready", "adopt", "fresh"}
    /\ batch \subseteq Issues /\ todo \subseteq batch
    /\ backlog \subseteq Issues /\ refused \subseteq batch
    /\ seen \in [Issues -> Glimpses]
    /\ repaired \in BOOLEAN
    /\ acts \in 0..Acts
    /\ pc \in {"idle", "select", "classify"} => refused = {}
    /\ MaxIterations = 1 => pc # "iterate"

World ==
    /\ issue \in [Issues -> IssueFacts]
    /\ pr \in [Issues -> PRs]
    /\ attempt \in [Issues -> {"none", "open", "failed", "cooling"}]
    /\ exhausted \in [Issues -> 0..StuckThreshold]
    /\ outcome \in [Issues -> Outcomes]

ConveyorInv == Control /\ World

(* Nothing but the phases after the review holds the landing of i back. *)
Presentable(i) == Reviewable(i) /\ ~outcome[i].error /\ VerdictAllows(i)

Cleared(i) ==
    Presentable(i) /\ Open(i) =>
        \/ /\ pr[i].head = "approved"
           /\ "unlabel" \in Faulty \/ "critic:blocking" \notin pr[i].labels
        \/ outcome[i].verdict = "none" /\ "critic_raises" \in Faulty

(* No verdict of an earlier batch reaches the critic's pass. *)
UnheardInv ==
    /\ pc \in {"idle", "select", "classify", "work", "iterate"} =>
          \A i \in Issues : outcome[i].verdict = "none"
    /\ pc = "review" => \A i \in todo : outcome[i].verdict = "none"

ClearedInv ==
    /\ pc = "review" => \A i \in batch \ todo : Cleared(i)
    /\ pc \in {"gate", "land"} => \A i \in batch : Cleared(i)

-----------------------------------------------------------------------------
(* What the helpers return, and what a phase does to the tick's memory. *)

LEMMA SomeFails == ASSUME NEW call PROVE Fails(call) \subseteq BOOLEAN
  BY DEF Fails

LEMMA Constants ==
    /\ StuckThreshold \in Nat \ {0} /\ MaxIterations \in Nat \ {0} /\ Acts \in Nat
    /\ MergeStates \subseteq {"CLEAN", "BLOCKED", "DIRTY"}
  BY BoundsAssumption, SettingsAssumption

LEMMA UnreadyTyped ==
    ASSUME issue \in [Issues -> IssueFacts], NEW i \in Issues, NEW fails \in BOOLEAN
    PROVE  Unready(i, fails) \in IssueFacts
  BY DEF Unready, IssueFacts

LEMMA IssueTyped ==
    ASSUME issue \in [Issues -> IssueFacts], NEW i \in Issues, NEW f \in IssueFacts,
           issue' = [issue EXCEPT ![i] = f]
    PROVE  issue' \in [Issues -> IssueFacts]
  OBVIOUS

(* A step on i gives i a pull request, and leaves those of the others. *)
LEMMA PRMoves ==
    ASSUME pr \in [Issues -> PRs], NEW i \in Issues, NEW p \in PRs, pr' = [pr EXCEPT ![i] = p]
    PROVE  /\ pr' \in [Issues -> PRs] /\ pr'[i] = p
           /\ \A j \in Issues \ {i} : pr'[j] = pr[j]
  OBVIOUS

LEMMA OutcomeMoves ==
    ASSUME outcome \in [Issues -> Outcomes], NEW i \in Issues, NEW o \in Outcomes,
           outcome' = [outcome EXCEPT ![i] = o]
    PROVE  /\ outcome' \in [Issues -> Outcomes] /\ outcome'[i] = o
           /\ \A j \in Issues \ {i} : outcome'[j] = outcome[j]
  OBVIOUS

LEMMA NoPRTyped == NoPR \in PRs /\ [NoPR EXCEPT !.state = "merged"] \in PRs
                   /\ [NoPR EXCEPT !.state = "closed"] \in PRs
  BY DEF NoPR, PRs

LEMMA NoOutcomeTyped == NoOutcome \in Outcomes
  BY Constants DEF NoOutcome, Outcomes

(* New commits keep the labels and the arming of an open pull request. *)
LEMMA PushedShape ==
    ASSUME pr \in [Issues -> PRs], NEW i \in Issues, NEW m \in MergeStates
    PROVE  /\ PushedHead(i, m) \in PRs
           /\ IF Open(i) THEN /\ PushedHead(i, m).labels = pr[i].labels
                              /\ PushedHead(i, m).armed = pr[i].armed
                         ELSE PushedHead(i, m).labels = {} /\ ~PushedHead(i, m).armed
<1>1. m \in {"CLEAN", "BLOCKED", "DIRTY"}
  BY Constants
<1>2. CASE Open(i)
  <2>1. PushedHead(i, m) = [pr[i] EXCEPT !.head = "unreviewed", !.merge = m] /\ pr[i] \in PRs
    BY <1>2 DEF PushedHead
  <2> QED BY <1>1, <1>2, <2>1 DEF PRs
<1>3. CASE ~Open(i)
  <2>1. PushedHead(i, m) = [NoPR EXCEPT !.state = "open", !.merge = m]
    BY <1>3 DEF PushedHead
  <2> QED BY <1>1, <1>3, <2>1 DEF NoPR, PRs
<1> QED BY <1>2, <1>3

(* A phase that is done with i goes on to the next outcome or the next phase. *)
LEMMA DoneControl ==
    ASSUME Control, pc \in {"work", "iterate", "review", "gate", "land", "finish"},
           NEW i \in Issues, i \in todo, Done(i), refused' \subseteq batch
    PROVE  /\ Control' /\ batch' = batch
           /\ \/ pc' = pc /\ todo' = todo \ {i}
              \/ todo = {i} /\ pc' = Following /\ todo' = batch
  BY DEF Control, Done, Phase, Following, AfterWork

LEMMA ForgetControl ==
    ASSUME Control, Forget, acts' \in 0..Acts
    PROVE  Control'
  BY DEF Control, Forget, Phase, Glimpses

LEMMA ForgetOutcome == ASSUME Forget PROVE outcome' \in [Issues -> Outcomes]
  BY NoOutcomeTyped DEF Forget

(* A new batch, and what it remembers of the listing. *)
LEMMA BeginControl ==
    ASSUME Control, refused = {}, NEW k \in {"none", "blocked", "ready", "adopt"},
           NEW p \in {"select", "classify", "work", "review"}, NEW b \in SUBSET Issues,
           Begin(k, p, b), issue \in [Issues -> IssueFacts],
           backlog' \subseteq Issues, UNCHANGED <<repaired, refused, acts>>
    PROVE  Control' /\ pc' = p /\ batch' = b /\ todo' = b /\ kind' = k
<1>1. seen' \in [Issues -> Glimpses]
  BY DEF Begin, Glimpses, IssueFacts
<1> QED BY <1>1 DEF Control, Begin, Phase

-----------------------------------------------------------------------------
(* The steps of the loop on one issue. *)

(* ensure_pr_merged merges or arms an open pull request, or does nothing. *)
LEMMA EnsureShape ==
    ASSUME World, NEW i \in Issues, NEW how \in {"auto", "squash", "none"}, EnsureMerged(i, how)
    PROVE  /\ issue' \in [Issues -> IssueFacts] /\ pr' \in [Issues -> PRs]
           /\ \A j \in Issues \ {i} : pr'[j] = pr[j]
           /\ how # "none" => Open(i)
           /\ \/ pr'[i] = [pr[i] EXCEPT !.armed = TRUE]
              \/ pr'[i] = [NoPR EXCEPT !.state = "merged"]
              \/ pr'[i] = pr[i]
<1>0. issue \in [Issues -> IssueFacts] /\ pr \in [Issues -> PRs]
  BY DEF World
<1>1. CASE how = "auto"
  <2>1. [pr[i] EXCEPT !.armed = TRUE] \in PRs
    BY <1>0 DEF PRs
  <2> QED BY <1>0, <1>1, <2>1, PRMoves DEF EnsureMerged
<1>2. CASE how = "squash"
  <2>1. Merged(i) /\ Open(i)
    BY <1>2 DEF EnsureMerged
  <2>2. issue' \in [Issues -> IssueFacts]
    BY <1>0, <2>1 DEF Merged, IssueFacts
  <2> QED BY <1>0, <2>1, <2>2, PRMoves, NoPRTyped DEF Merged
<1>3. CASE how = "none"
  BY <1>0, <1>3 DEF EnsureMerged, github
<1> QED BY <1>1, <1>2, <1>3

(* A worker's session or a repair, one push or none. *)
LEMMA WorkWorld ==
    ASSUME Control, World, NEW i \in Issues, FreshWork(i) \/ RepairWork(i)
    PROVE  World'
<1>0. /\ issue \in [Issues -> IssueFacts] /\ pr \in [Issues -> PRs]
      /\ outcome \in [Issues -> Outcomes] /\ outcome[i] \in Outcomes /\ pr[i] \in PRs
  BY DEF World
<1>1. UNCHANGED <<issue, ledger>>
  BY DEF FreshWork, RepairWork
<1>2. pr' \in [Issues -> PRs]
  <2>1. CASE pr' = pr
    BY <1>0, <2>1
  <2>2. CASE \E m \in MergeStates : pr' = [pr EXCEPT ![i] = PushedHead(i, m)]
    BY <1>0, <2>2, PushedShape, PRMoves
  <2>3. ASSUME NEW m \in MergeStates, NEW left \in {{}, pr[i].threads},
               pr' = [pr EXCEPT ![i] = [PushedHead(i, m) EXCEPT !.threads = left]]
        PROVE  pr' \in [Issues -> PRs]
    <3>1. [PushedHead(i, m) EXCEPT !.threads = left] \in PRs
      <4>1. PICK p \in PRs : p = PushedHead(i, m)
        BY <1>0, PushedShape
      <4>2. left \in SUBSET {"critic", "human"}
        BY <1>0, <2>3 DEF PRs
      <4>3. [p EXCEPT !.threads = left] \in PRs
        BY <4>2 DEF PRs
      <4> QED BY <4>1, <4>3
    <3> QED BY <1>0, <2>3, <3>1, PRMoves
  <2> QED BY <2>1, <2>2, <2>3 DEF FreshWork, Opened, LeftWork, RepairWork
<1>3. outcome' \in [Issues -> Outcomes]
  <2>1. ASSUME NEW s \in {"open", "failed"}, NEW u \in BOOLEAN, NEW e \in BOOLEAN,
               NEW t \in {"nothing", "dirty"}
        PROVE  /\ [outcome[i] EXCEPT !.status = s, !.url = u, !.error = e, !.tree = t] \in Outcomes
               /\ [outcome[i] EXCEPT !.status = s, !.url = u, !.error = e] \in Outcomes
    BY <1>0 DEF Outcomes
  <2>2. CASE Opened(i)
    <3>1. PICK timedOut \in BOOLEAN, unsaved \in BOOLEAN :
             outcome' = [outcome EXCEPT ![i] =
               [@ EXCEPT !.status = IF timedOut THEN "failed" ELSE "open",
                         !.url = TRUE, !.error = timedOut,
                         !.tree = IF timedOut /\ unsaved THEN "dirty" ELSE "nothing"]]
      BY <2>2 DEF Opened
    <3> DEFINE s == IF timedOut THEN "failed" ELSE "open"
               t == IF timedOut /\ unsaved THEN "dirty" ELSE "nothing"
    <3>2. s \in {"open", "failed"} /\ t \in {"nothing", "dirty"}
      OBVIOUS
    <3>3. [outcome[i] EXCEPT !.status = s, !.url = TRUE, !.error = timedOut, !.tree = t] \in Outcomes
      BY <2>1, <3>2
    <3> QED BY <1>0, <3>1, <3>3, OutcomeMoves
  <2>3. CASE LeftWork(i)
    BY <1>0, <2>1, <2>3, OutcomeMoves DEF LeftWork
  <2>4. CASE RepairWork(i)
    <3>1. PICK failed \in BOOLEAN :
             outcome' = [outcome EXCEPT ![i] =
               [@ EXCEPT !.status = IF failed THEN "failed" ELSE "open",
                         !.url = TRUE, !.error = failed]]
      BY <2>4 DEF RepairWork
    <3> DEFINE s == IF failed THEN "failed" ELSE "open"
    <3>2. s \in {"open", "failed"}
      OBVIOUS
    <3>3. [outcome[i] EXCEPT !.status = s, !.url = TRUE, !.error = failed] \in Outcomes
      BY <2>1, <3>2
    <3> QED BY <1>0, <3>1, <3>3, OutcomeMoves
  <2> QED BY <2>2, <2>3, <2>4 DEF FreshWork
<1> QED BY <1>1, <1>2, <1>3 DEF World, ledger

(* A follow-up session. *)
LEMMA FollowUpWorld ==
    ASSUME Control, World, NEW i \in Issues, FollowUp(i)
    PROVE  World' /\ Control' /\ UNCHANGED pc
<1>0. /\ pr \in [Issues -> PRs] /\ pr[i] \in PRs
      /\ outcome \in [Issues -> Outcomes] /\ outcome[i] \in Outcomes
  BY DEF World
<1>1. outcome[i].round + 1 \in 1..MaxIterations
  <2>1. outcome[i].round < MaxIterations
    BY DEF FollowUp, Probing
  <2>2. outcome[i].round \in 1..MaxIterations
    BY <1>0 DEF Outcomes
  <2> QED BY <2>1, <2>2, Constants
<1>2. pr' \in [Issues -> PRs]
  <2>1. ASSUME NEW m \in MergeStates, NEW arms \in BOOLEAN,
               pr' = [pr EXCEPT ![i] = [PushedHead(i, m) EXCEPT !.armed = @ \/ arms]]
        PROVE  pr' \in [Issues -> PRs]
    <3>1. [PushedHead(i, m) EXCEPT !.armed = @ \/ arms] \in PRs
      BY <1>0, PushedShape DEF PRs
    <3> QED BY <1>0, <2>1, <3>1, PRMoves
  <2> QED BY <1>0, <2>1 DEF FollowUp
<1>3. outcome' \in [Issues -> Outcomes]
  <2>1. ASSUME NEW s \in {"open", "failed"}, NEW e \in BOOLEAN
        PROVE  [NoOutcome EXCEPT !.status = s, !.url = TRUE, !.error = e,
                                 !.round = outcome[i].round + 1] \in Outcomes
    BY <1>1 DEF NoOutcome, Outcomes
  <2>2. ASSUME NEW timedOut \in BOOLEAN,
               outcome' = [outcome EXCEPT ![i] =
                 [NoOutcome EXCEPT !.status = IF timedOut THEN "failed" ELSE "open",
                    !.url = TRUE, !.error = timedOut,
                    !.round = outcome[i].round + 1]]
        PROVE  outcome' \in [Issues -> Outcomes]
    <3> DEFINE s == IF timedOut THEN "failed" ELSE "open"
    <3>1. s \in {"open", "failed"}
      OBVIOUS
    <3>2. [NoOutcome EXCEPT !.status = s, !.url = TRUE, !.error = timedOut,
                            !.round = outcome[i].round + 1] \in Outcomes
      BY <2>1, <3>1
    <3> QED BY <1>0, <2>2, <3>2, OutcomeMoves
  <2>3. ASSUME NEW t \in {outcome[i].tree, "dirty"},
               outcome' = [outcome EXCEPT ![i] =
                 [NoOutcome EXCEPT !.error = TRUE, !.tree = t, !.round = outcome[i].round + 1]]
        PROVE  outcome' \in [Issues -> Outcomes]
    <3>1. t \in {"nothing", "dirty"}
      BY <1>0 DEF Outcomes
    <3>2. [NoOutcome EXCEPT !.error = TRUE, !.tree = t, !.round = outcome[i].round + 1] \in Outcomes
      BY <1>1, <3>1 DEF NoOutcome, Outcomes
    <3> QED BY <1>0, <2>3, <3>2, OutcomeMoves
  <2> QED BY <2>2, <2>3 DEF FollowUp
<1> QED BY <1>2, <1>3 DEF FollowUp, World, Control, ledger

(* The other steps of the iteration loop. *)
LEMMA IterationWorld ==
    ASSUME Control, World, NEW i \in Issues,
           SkipIteration(i) \/ StopIteration(i) \/ LandHealthy(i) \/ Exhaust(i)
    PROVE  World'
<1>0. /\ issue \in [Issues -> IssueFacts] /\ pr \in [Issues -> PRs]
      /\ outcome \in [Issues -> Outcomes] /\ outcome[i] \in Outcomes
      /\ exhausted \in [Issues -> 0..StuckThreshold]
  BY DEF World
<1>1. CASE SkipIteration(i)
  BY <1>1 DEF SkipIteration, World, github, ledger
<1>2. CASE StopIteration(i)
  <2>1. PICK fails \in BOOLEAN : issue' = [issue EXCEPT ![i] = Unready(i, fails)]
    BY <1>2, SomeFails DEF StopIteration
  <2> QED BY <1>0, <1>2, <2>1, UnreadyTyped DEF StopIteration, World, ledger
<1>3. CASE LandHealthy(i)
  <2>1. PICK how \in {"auto", "squash", "none"} :
          /\ EnsureMerged(i, how)
          /\ outcome' = IF how = "none" THEN outcome
                        ELSE [outcome EXCEPT ![i].status = "open", ![i].url = TRUE]
    BY <1>3 DEF LandHealthy
  <2>2. outcome' \in [Issues -> Outcomes]
    BY <1>0, <2>1 DEF Outcomes
  <2> QED BY <1>3, <2>1, <2>2, EnsureShape DEF LandHealthy, World, ledger
<1>4. CASE Exhaust(i)
  <2>1. PICK fails \in BOOLEAN : issue' = [issue EXCEPT ![i] = Unready(i, fails)]
    BY <1>4, SomeFails DEF Exhaust
  <2>2. exhausted' \in [Issues -> 0..StuckThreshold]
    BY <1>0, <1>4, Constants DEF Exhaust, SmallerOf
  <2> QED BY <1>0, <1>4, <2>1, <2>2, UnreadyTyped DEF Exhaust, World
<1> QED BY <1>1, <1>2, <1>3, <1>4

-----------------------------------------------------------------------------
(* The critic, the gates and the landing. *)

(* What a blocking label has to do with auto-merge. *)
Harmless(i) == "critic:blocking" \in pr[i].labels => ~pr[i].armed

(* A report that blocks marks the head rejected and withholds the outcome. *)
LEMMA BlocksShape ==
    ASSUME World, NEW i \in Issues, NEW r \in Reports, ReviewBlocks(i, r), UNCHANGED ledger
    PROVE  /\ World'
           /\ \A j \in Issues \ {i} : pr'[j] = pr[j] /\ outcome'[j] = outcome[j]
           /\ outcome'[i].error
           /\ Harmless(i) => Harmless(i)' \/ (pr[i].armed /\ "disarm" \in Faulty)
<1>0. /\ issue \in [Issues -> IssueFacts] /\ pr \in [Issues -> PRs] /\ pr[i] \in PRs
      /\ outcome \in [Issues -> Outcomes] /\ outcome[i] \in Outcomes
  BY DEF World
<1>1. PICK armedStays \in Fails("disarm"), labelFails \in Fails("label"),
           readyStays \in Fails("unlabel"), inline \in BOOLEAN :
        /\ pr' = OnOpen(i,
             [Disarmed(pr[i], armedStays) EXCEPT
                !.labels = IF labelFails THEN @ ELSE @ \cup PlanLabels(r),
                !.threads = IF inline /\ r.worst # "none" THEN @ \cup {"critic"} ELSE @,
                !.head = "rejected"])
        /\ issue' = [issue EXCEPT ![i] = Unready(i, readyStays \/ ~Suspicious(r))]
  BY DEF ReviewBlocks
<1> DEFINE d == Disarmed(pr[i], armedStays)
           labels == IF labelFails THEN d.labels ELSE d.labels \cup PlanLabels(r)
           threads == IF inline /\ r.worst # "none" THEN d.threads \cup {"critic"} ELSE d.threads
           p == [d EXCEPT !.labels = labels, !.threads = threads, !.head = "rejected"]
<1>2. d \in PRs /\ (d.armed => pr[i].armed /\ "disarm" \in Faulty)
  BY <1>0 DEF Disarmed, PRs, Fails
<1>3. labels \in SUBSET PRLabels /\ threads \in SUBSET {"critic", "human"}
  BY <1>2 DEF PRs, PlanLabels, PRLabels, BlockLabels
<1>4. p \in PRs /\ p.armed = d.armed
  <2> HIDE DEF d, labels, threads
  <2> QED BY <1>2, <1>3 DEF PRs
<1>5. /\ pr' \in [Issues -> PRs] /\ \A j \in Issues \ {i} : pr'[j] = pr[j]
      /\ pr'[i] = p \/ pr'[i] = pr[i]
  BY <1>0, <1>1, <1>4, PRMoves DEF OnOpen
<1>6. issue' \in [Issues -> IssueFacts]
  <2>1. (readyStays \/ ~Suspicious(r)) \in BOOLEAN
    OBVIOUS
  <2> QED BY <1>0, <1>1, <2>1, UnreadyTyped, IssueTyped
<1>7. /\ outcome' \in [Issues -> Outcomes] /\ outcome'[i].error
      /\ \A j \in Issues \ {i} : outcome'[j] = outcome[j]
  <2>1. Verdict(r) \in {"approved", "rejected"}
    BY DEF Verdict
  <2>2. [outcome[i] EXCEPT !.status = "open", !.error = TRUE, !.verdict = Verdict(r)] \in Outcomes
    BY <1>0, <2>1 DEF Outcomes
  <2>3. outcome' = [outcome EXCEPT ![i] =
                      [outcome[i] EXCEPT !.status = "open", !.error = TRUE, !.verdict = Verdict(r)]]
    BY <1>0 DEF ReviewBlocks
  <2>4. outcome'[i] = [outcome[i] EXCEPT !.status = "open", !.error = TRUE, !.verdict = Verdict(r)]
    BY <1>0, <2>2, <2>3, OutcomeMoves
  <2>5. outcome'[i].error
    BY <1>0, <2>4 DEF Outcomes
  <2> QED BY <1>0, <2>2, <2>3, <2>5, OutcomeMoves
<1>8. Harmless(i) => Harmless(i)' \/ (pr[i].armed /\ "disarm" \in Faulty)
  BY <1>2, <1>4, <1>5 DEF Harmless
<1>9. World'
  BY <1>5, <1>6, <1>7 DEF World, ledger
<1> QED BY <1>5, <1>7, <1>8, <1>9

(* A report that does not block gives the head its verdict and, if that call *)
(* is made, clears the labels of earlier rounds.                             *)
LEMMA PassesShape ==
    ASSUME World, NEW i \in Issues, NEW r \in Reports, ReviewPasses(i, r), UNCHANGED ledger
    PROVE  /\ World'
           /\ \A j \in Issues \ {i} : pr'[j] = pr[j] /\ outcome'[j] = outcome[j]
           /\ Cleared(i)'
           /\ Harmless(i) => Harmless(i)'
<1>0. /\ pr \in [Issues -> PRs] /\ pr[i] \in PRs
      /\ outcome \in [Issues -> Outcomes] /\ outcome[i] \in Outcomes
  BY DEF World
<1>1. PICK labelsStay \in Fails("unlabel"), inline \in BOOLEAN :
        pr' = OnOpen(i, [pr[i] EXCEPT
             !.labels = IF labelsStay THEN @ ELSE @ \ BlockLabels,
             !.threads = IF inline /\ r.worst # "none" THEN @ \cup {"critic"} ELSE @,
             !.head = Verdict(r)])
  BY DEF ReviewPasses
<1> DEFINE labels == IF labelsStay THEN pr[i].labels ELSE pr[i].labels \ BlockLabels
           threads == IF inline /\ r.worst # "none" THEN pr[i].threads \cup {"critic"} ELSE pr[i].threads
           p == [pr[i] EXCEPT !.labels = labels, !.threads = threads, !.head = Verdict(r)]
<1>2. Verdict(r) \in {"approved", "rejected"}
  BY DEF Verdict
<1>3. /\ labels \in SUBSET PRLabels /\ threads \in SUBSET {"critic", "human"}
      /\ labels \subseteq pr[i].labels
      /\ "unlabel" \in Faulty \/ "critic:blocking" \notin labels
  BY <1>0 DEF PRs, BlockLabels, Fails
<1>4. p \in PRs /\ p.armed = pr[i].armed /\ p.labels = labels /\ p.head = Verdict(r) /\ p.state = pr[i].state
  <2> HIDE DEF labels, threads
  <2> QED BY <1>0, <1>2, <1>3 DEF PRs
<1>5. /\ pr' \in [Issues -> PRs] /\ \A j \in Issues \ {i} : pr'[j] = pr[j]
      /\ IF Open(i) THEN pr'[i] = p ELSE pr'[i] = pr[i]
  BY <1>0, <1>1, <1>4, PRMoves DEF OnOpen
<1>6. /\ outcome' \in [Issues -> Outcomes] /\ outcome'[i].verdict = Verdict(r)
      /\ \A j \in Issues \ {i} : outcome'[j] = outcome[j]
  <2>1. [outcome[i] EXCEPT !.verdict = Verdict(r)] \in Outcomes
    BY <1>0, <1>2 DEF Outcomes
  <2>2. outcome' = [outcome EXCEPT ![i] = [outcome[i] EXCEPT !.verdict = Verdict(r)]]
    BY <1>0 DEF ReviewPasses
  <2>3. [outcome[i] EXCEPT !.verdict = Verdict(r)].verdict = Verdict(r)
    BY <1>0 DEF Outcomes
  <2> QED BY <1>0, <2>1, <2>2, <2>3, OutcomeMoves
<1>7. Cleared(i)'
  <2>1. Presentable(i)' => outcome'[i].verdict \in {"none", "approved"}
    BY DEF Presentable, VerdictAllows
  <2>2. Open(i)' => pr'[i] = p
    BY <1>4, <1>5 DEF Open
  <2> HIDE DEF p
  <2>3. Presentable(i)' /\ Open(i)' =>
          pr'[i].head = "approved" /\ ("unlabel" \in Faulty \/ "critic:blocking" \notin pr'[i].labels)
    BY <1>2, <1>3, <1>4, <1>6, <2>1, <2>2
  <2> QED BY <2>3 DEF Cleared
<1>8. Harmless(i) => Harmless(i)'
  BY <1>3, <1>4, <1>5 DEF Harmless
<1>9. World'
  BY <1>5, <1>6 DEF World, ledger, ReviewPasses
<1> QED BY <1>5, <1>6, <1>7, <1>8, <1>9

(* A review without a report leaves an outcome that may not land, or, by an  *)
(* exception, one without a verdict.                                         *)
LEMMA FailsShape ==
    ASSUME World, NEW i \in Issues, ReviewFails(i), UNCHANGED ledger
    PROVE  /\ World'
           /\ \A j \in Issues \ {i} : pr'[j] = pr[j] /\ outcome'[j] = outcome[j]
           /\ outcome[i].verdict = "none" => Cleared(i)'
           /\ Harmless(i) => Harmless(i)'
<1>0. /\ pr \in [Issues -> PRs] /\ pr[i] \in PRs
      /\ outcome \in [Issues -> Outcomes] /\ outcome[i] \in Outcomes
  BY DEF World
<1>1. PICK how \in Faulty \cap {"critic_error", "critic_raises"}, labelsStay \in Fails("unlabel") :
        /\ pr' = IF labelsStay \/ how = "critic_raises" THEN pr
                 ELSE OnOpen(i, [pr[i] EXCEPT !.labels = @ \ BlockLabels])
        /\ outcome' = IF how = "critic_raises" THEN outcome
                      ELSE [outcome EXCEPT ![i].status = "open", ![i].verdict = "error"]
        /\ UNCHANGED issue
  BY DEF ReviewFails
<1> DEFINE p == [pr[i] EXCEPT !.labels = @ \ BlockLabels]
<1>2. p \in PRs /\ p.armed = pr[i].armed /\ p.labels \subseteq pr[i].labels
  BY <1>0 DEF PRs
<1>3. /\ pr' \in [Issues -> PRs] /\ \A j \in Issues \ {i} : pr'[j] = pr[j]
      /\ pr'[i] = p \/ pr'[i] = pr[i]
  BY <1>0, <1>1, <1>2, PRMoves DEF OnOpen
<1>4. /\ outcome' \in [Issues -> Outcomes]
      /\ (how = "critic_raises" /\ outcome' = outcome) \/ outcome'[i].verdict = "error"
      /\ \A j \in Issues \ {i} : outcome'[j] = outcome[j]
  <2>1. [outcome[i] EXCEPT !.status = "open", !.verdict = "error"] \in Outcomes
    BY <1>0 DEF Outcomes
  <2>2. [outcome[i] EXCEPT !.status = "open", !.verdict = "error"].verdict = "error"
    BY <1>0 DEF Outcomes
  <2>3. CASE outcome' = [outcome EXCEPT ![i].status = "open", ![i].verdict = "error"]
    <3>1. outcome' = [outcome EXCEPT ![i] = [outcome[i] EXCEPT !.status = "open", !.verdict = "error"]]
      BY <1>0, <2>3
    <3> QED BY <1>0, <2>1, <2>2, <3>1, OutcomeMoves
  <2> QED BY <1>0, <1>1, <2>3
<1>5. outcome[i].verdict = "none" => Cleared(i)'
  BY <1>1, <1>4 DEF Cleared, Presentable, VerdictAllows
<1>6. Harmless(i) => Harmless(i)'
  BY <1>2, <1>3 DEF Harmless
<1>7. World'
  BY <1>1, <1>3, <1>4 DEF World, ledger
<1> QED BY <1>3, <1>4, <1>5, <1>6, <1>7

(* The critic's turn on i. *)
LEMMA ReviewShape ==
    ASSUME World, NEW i \in Issues, SkipReview(i) \/ Review(i)
    PROVE  /\ World'
           /\ \A j \in Issues \ {i} : pr'[j] = pr[j] /\ outcome'[j] = outcome[j]
           /\ outcome[i].verdict = "none" => Cleared(i)'
           /\ Harmless(i) => Harmless(i)' \/ (Review(i) /\ pr[i].armed /\ "disarm" \in Faulty)
<1>1. CASE SkipReview(i)
  BY <1>1 DEF SkipReview, World, github, ledger, Cleared, Presentable, Reviewable, Harmless
<1>2. CASE Review(i)
  <2>0. UNCHANGED ledger
    BY <1>2 DEF Review
  <2>1. ASSUME NEW r \in Reports, ReviewBlocks(i, r) PROVE Cleared(i)'
    BY <2>0, <2>1, BlocksShape DEF Cleared, Presentable
  <2>2. CASE \E r \in Reports : ReviewBlocks(i, r)
    BY <1>2, <2>0, <2>1, <2>2, BlocksShape
  <2>3. CASE \E r \in Reports : ReviewPasses(i, r)
    BY <2>0, <2>3, PassesShape
  <2>4. CASE ReviewFails(i)
    BY <2>0, <2>4, FailsShape
  <2> QED BY <1>2, <2>2, <2>3, <2>4 DEF Review
<1> QED BY <1>1, <1>2

(* A gate's turn on i. *)
LEMMA GateShape ==
    ASSUME Control, World, NEW i \in Issues, Gate(i)
    PROVE  /\ World' /\ refused' \subseteq batch
           /\ \A j \in Issues \ {i} : pr'[j] = pr[j] /\ outcome'[j] = outcome[j]
           /\ Cleared(i) => Cleared(i)'
           /\ Harmless(i) => Harmless(i)'
<1>0. /\ issue \in [Issues -> IssueFacts] /\ pr \in [Issues -> PRs] /\ pr[i] \in PRs
      /\ outcome \in [Issues -> Outcomes] /\ outcome[i] \in Outcomes
  BY DEF World
<1>1. issue' \in [Issues -> IssueFacts] /\ UNCHANGED ledger
  <2>1. PICK fails \in BOOLEAN :
           issue' = [issue EXCEPT ![i] = Unready(i, fails \/ kind # "fresh" \/ ~Reviewable(i))]
    BY SomeFails DEF Gate
  <2>2. (fails \/ kind # "fresh" \/ ~Reviewable(i)) \in BOOLEAN
    OBVIOUS
  <2> QED BY <1>0, <2>1, <2>2, UnreadyTyped, IssueTyped DEF Gate
<1>2. CASE UNCHANGED <<pr, outcome, refused>>
  BY <1>0, <1>1, <1>2 DEF World, ledger, Control, Cleared, Presentable, Reviewable, VerdictAllows,
                          Open, Harmless
<1>3. CASE Refuse(i)
  <2>1. PICK fails \in BOOLEAN : pr' = [pr EXCEPT ![i] = Disarmed(@, fails)]
    BY <1>3, SomeFails DEF Refuse
  <2>2. Disarmed(pr[i], fails) \in PRs
    BY <1>0 DEF Disarmed, PRs
  <2>3. /\ Disarmed(pr[i], fails).labels = pr[i].labels /\ Disarmed(pr[i], fails).head = pr[i].head
        /\ Disarmed(pr[i], fails).state = pr[i].state
        /\ Disarmed(pr[i], fails).armed => pr[i].armed
    BY <1>0 DEF Disarmed, PRs
  <2>4. /\ pr' \in [Issues -> PRs] /\ (\A j \in Issues \ {i} : pr'[j] = pr[j])
        /\ pr'[i] = Disarmed(pr[i], fails)
    BY <1>0, <2>1, <2>2, PRMoves
  <2> DEFINE s == IF outcome[i].status = "merged" THEN "open" ELSE outcome[i].status
             o == [outcome[i] EXCEPT !.status = s]
  <2>5. s \in {"open", "merged", "failed"} /\ (s \in {"open", "merged"} => outcome[i].status \in {"open", "merged"})
    BY <1>0 DEF Outcomes
  <2>6. /\ o \in Outcomes /\ o.status = s /\ o.url = outcome[i].url /\ o.error = outcome[i].error
        /\ o.verdict = outcome[i].verdict
    <3> HIDE DEF s
    <3> QED BY <1>0, <2>5 DEF Outcomes
  <2>7. outcome' = [outcome EXCEPT ![i] = o]
    BY <1>0, <1>3 DEF Refuse
  <2>8. /\ outcome' \in [Issues -> Outcomes] /\ (\A j \in Issues \ {i} : outcome'[j] = outcome[j])
        /\ outcome'[i] = o
    <3> HIDE DEF o
    <3> QED BY <1>0, <2>6, <2>7, OutcomeMoves
  <2>9. World' /\ refused' \subseteq batch
    BY <1>1, <1>3, <2>4, <2>8 DEF World, ledger, Refuse, Gate, Gating, Upnext, Control
  <2>10. Cleared(i) => Cleared(i)'
    <3> HIDE DEF o, s
    <3> QED BY <2>3, <2>4, <2>5, <2>6, <2>8 DEF Cleared, Presentable, Reviewable, VerdictAllows, Open
  <2> QED BY <2>3, <2>4, <2>8, <2>9, <2>10 DEF Harmless
<1> QED BY <1>2, <1>3 DEF Gate

(* A pull request the landing finds open and with the label on. *)
Labelled(i) == Open(i) /\ Presentable(i) /\ "critic:blocking" \in pr[i].labels

(* The landing's turn on i. *)
LEMMA LandShape ==
    ASSUME World, NEW i \in Issues, Land(i)
    PROVE  /\ World'
           /\ \A j \in Issues \ {i} : pr'[j] = pr[j] /\ outcome'[j] = outcome[j]
           /\ pr'[i] # pr[i] \/ outcome'[i] # outcome[i] => Open(i) /\ Presentable(i)
           /\ Cleared(i) => Cleared(i)'
           /\ Harmless(i) => Harmless(i)' \/ Labelled(i)
<1>0. /\ issue \in [Issues -> IssueFacts] /\ pr \in [Issues -> PRs] /\ pr[i] \in PRs
      /\ outcome \in [Issues -> Outcomes] /\ outcome[i] \in Outcomes
  BY DEF World
<1>1. CASE UNCHANGED <<github, outcome>>
  BY <1>0, <1>1 DEF Land, World, ledger, github, Cleared, Presentable, Reviewable, VerdictAllows,
                    Open, Harmless
<1>2. ASSUME Landable(i), NEW how \in {"auto", "squash", "none"}, EnsureMerged(i, how),
             outcome' = IF how = "none" THEN outcome
                        ELSE [outcome EXCEPT ![i].status = "merged"]
      PROVE  /\ World'
             /\ \A j \in Issues \ {i} : pr'[j] = pr[j] /\ outcome'[j] = outcome[j]
             /\ pr'[i] # pr[i] \/ outcome'[i] # outcome[i] => Open(i) /\ Presentable(i)
             /\ Cleared(i) => Cleared(i)'
             /\ Harmless(i) => Harmless(i)' \/ Labelled(i)
  <2>1. Presentable(i)
    BY <1>2 DEF Landable, LandsFresh, LandsAdopted, LandsRepaired, Presentable, Reviewable
  <2>2. CASE how = "none"
    BY <1>1, <1>2, <2>2 DEF EnsureMerged
  <2>3. CASE how # "none"
    <3>1. Open(i) /\ issue' \in [Issues -> IssueFacts] /\ pr' \in [Issues -> PRs]
          /\ (\A j \in Issues \ {i} : pr'[j] = pr[j])
          /\ \/ pr'[i] = [pr[i] EXCEPT !.armed = TRUE]
             \/ pr'[i] = [NoPR EXCEPT !.state = "merged"]
             \/ pr'[i] = pr[i]
      BY <1>2, <2>3, EnsureShape
    <3> DEFINE o == [outcome[i] EXCEPT !.status = "merged"]
    <3>2. o \in Outcomes
      BY <1>0 DEF Outcomes
    <3>3. outcome' = [outcome EXCEPT ![i] = o]
      BY <1>0, <1>2, <2>3
    <3>4. /\ outcome' \in [Issues -> Outcomes] /\ (\A j \in Issues \ {i} : outcome'[j] = outcome[j])
          /\ outcome'[i].verdict = outcome[i].verdict
      <4>1. o.verdict = outcome[i].verdict
        BY <1>0 DEF Outcomes
      <4>2. outcome' \in [Issues -> Outcomes] /\ outcome'[i] = o
            /\ (\A j \in Issues \ {i} : outcome'[j] = outcome[j])
        <5> HIDE DEF o
        <5> QED BY <1>0, <3>2, <3>3, OutcomeMoves
      <4> QED BY <4>1, <4>2
    <3>5. World'
      BY <3>1, <3>4 DEF World, Land, ledger
    <3>6. CASE pr'[i] = [NoPR EXCEPT !.state = "merged"]
      <4>1. pr'[i].state = "merged" /\ pr'[i].labels = {}
        BY <3>6 DEF NoPR
      <4> QED BY <2>1, <3>1, <3>4, <3>5, <4>1 DEF Cleared, Open, Harmless, Labelled
    <3>7. CASE pr'[i] = [pr[i] EXCEPT !.armed = TRUE] \/ pr'[i] = pr[i]
      <4>1. pr'[i].head = pr[i].head /\ pr'[i].labels = pr[i].labels /\ pr'[i].state = pr[i].state
        BY <1>0, <3>7 DEF PRs
      <4> QED BY <2>1, <3>1, <3>4, <3>5, <4>1 DEF Cleared, Open, Harmless, Labelled
    <3> QED BY <3>1, <3>6, <3>7
  <2> QED BY <2>2, <2>3
<1>3. UNCHANGED <<github, outcome>> \/ \E how \in {"auto", "squash", "none"} :
         /\ Landable(i) /\ EnsureMerged(i, how)
         /\ outcome' = IF how = "none" THEN outcome
                       ELSE [outcome EXCEPT ![i].status = "merged"]
  BY DEF Land
<1> QED BY <1>1, <1>2, <1>3

(* The end of a batch: the attempt, the rescue of unpushed work, the labels. *)
LEMMA FinishShape ==
    ASSUME World, NEW i \in Issues, Finish(i)
    PROVE  /\ World' /\ \A j \in Issues \ {i} : pr'[j] = pr[j]
           /\ Harmless(i) => Harmless(i)'
<1>0. /\ issue \in [Issues -> IssueFacts] /\ pr \in [Issues -> PRs] /\ pr[i] \in PRs
      /\ outcome \in [Issues -> Outcomes] /\ outcome[i] \in Outcomes /\ outcome' = outcome
      /\ attempt \in [Issues -> {"none", "open", "failed", "cooling"}]
  BY DEF World, Finish
<1>1. CASE FinishFresh(i)
  <2>1. attempt' \in [Issues -> {"none", "open", "failed", "cooling"}]
    <3>1. Recorded(outcome[i].status) \in {"none", "open", "failed", "cooling"}
      BY <1>0 DEF Recorded, Outcomes
    <3> QED BY <1>0, <1>1, <3>1 DEF FinishFresh
  <2>2. CASE pr' = pr
    BY <1>0, <1>1, <2>1, <2>2 DEF FinishFresh, World, Harmless
  <2>3. ASSUME NEW m \in MergeStates, NEW tests \in BOOLEAN,
               pr' = [pr EXCEPT ![i] =
                 IF Open(i) THEN PushedHead(i, m)
                 ELSE [PushedHead(i, m) EXCEPT !.armed = tests /\ ~issue[i].gated]]
        PROVE  pr' \in [Issues -> PRs] /\ (\A j \in Issues \ {i} : pr'[j] = pr[j])
               /\ (Harmless(i) => Harmless(i)')
    <3>1. CASE Open(i)
      BY <1>0, <2>3, <3>1, PushedShape, PRMoves DEF Harmless
    <3>2. CASE ~Open(i)
      <4> DEFINE p == [PushedHead(i, m) EXCEPT !.armed = tests /\ ~issue[i].gated]
      <4>1. p \in PRs /\ p.labels = {}
        BY <1>0, <3>2, PushedShape DEF PRs
      <4>2. pr' = [pr EXCEPT ![i] = p]
        BY <2>3, <3>2
      <4>3. pr' \in [Issues -> PRs] /\ pr'[i] = p /\ \A j \in Issues \ {i} : pr'[j] = pr[j]
        <5> HIDE DEF p
        <5> QED BY <1>0, <4>1, <4>2, PRMoves
      <4> QED BY <4>1, <4>3 DEF Harmless
    <3> QED BY <3>1, <3>2
  <2> QED BY <1>0, <1>1, <2>1, <2>2, <2>3 DEF FinishFresh, World
<1>2. CASE FinishAdopted(i)
  <2> DEFINE p == [pr[i] EXCEPT !.labels = @ \cup {"loop:adopted"}]
  <2>1. p \in PRs /\ p.armed = pr[i].armed
        /\ ("critic:blocking" \in p.labels => "critic:blocking" \in pr[i].labels)
    BY <1>0 DEF PRs, PRLabels
  <2>2. pr' = pr \/ pr' = [pr EXCEPT ![i] = p]
    BY <1>0, <1>2 DEF FinishAdopted
  <2>3. pr' \in [Issues -> PRs] /\ (pr'[i] = p \/ pr'[i] = pr[i]) /\ \A j \in Issues \ {i} : pr'[j] = pr[j]
    <3> HIDE DEF p
    <3> QED BY <1>0, <2>1, <2>2, PRMoves
  <2> QED BY <1>0, <1>2, <2>1, <2>3 DEF FinishAdopted, World, ledger, Harmless
<1>3. CASE FinishRepaired(i)
  <2>1. PICK fails \in BOOLEAN : issue' = [issue EXCEPT ![i] =
                   Unready(i, fails \/ kind = "blocked" \/ outcome[i].status = "failed")]
    BY <1>3, SomeFails DEF FinishRepaired
  <2>2. (fails \/ kind = "blocked" \/ outcome[i].status = "failed") \in BOOLEAN
    OBVIOUS
  <2>3. issue' \in [Issues -> IssueFacts]
    BY <1>0, <2>1, <2>2, UnreadyTyped, IssueTyped
  <2> QED BY <1>0, <1>3, <2>3 DEF FinishRepaired, World, ledger, Harmless
<1> QED BY <1>1, <1>2, <1>3 DEF Finish

(* A session or a repair arms nothing; it moves the head of i only. *)
LEMMA WorkHarmless ==
    ASSUME World, NEW i \in Issues, FreshWork(i) \/ RepairWork(i)
    PROVE  /\ \A j \in Issues \ {i} : pr'[j] = pr[j]
           /\ Harmless(i) => Harmless(i)'
<1>0. pr \in [Issues -> PRs] /\ pr[i] \in PRs
  BY DEF World
<1>1. CASE pr' = pr
  BY <1>1 DEF Harmless
<1>2. CASE \E m \in MergeStates : pr' = [pr EXCEPT ![i] = PushedHead(i, m)]
  BY <1>0, <1>2, PushedShape, PRMoves DEF Harmless
<1>3. ASSUME NEW m \in MergeStates, NEW left \in {{}, pr[i].threads},
             pr' = [pr EXCEPT ![i] = [PushedHead(i, m) EXCEPT !.threads = left]]
      PROVE  /\ \A j \in Issues \ {i} : pr'[j] = pr[j]
             /\ Harmless(i) => Harmless(i)'
  <2> DEFINE p == [PushedHead(i, m) EXCEPT !.threads = left]
  <2>1. p \in PRs /\ p.labels = PushedHead(i, m).labels /\ p.armed = PushedHead(i, m).armed
    BY <1>0, PushedShape DEF PRs
  <2>2. pr' = [pr EXCEPT ![i] = p]
    BY <1>3
  <2>3. pr'[i] = p /\ \A j \in Issues \ {i} : pr'[j] = pr[j]
    <3> HIDE DEF p
    <3> QED BY <1>0, <2>1, <2>2, PRMoves
  <2> QED BY <1>0, <2>1, <2>3, PushedShape DEF Harmless
<1> QED BY <1>1, <1>2, <1>3 DEF FreshWork, Opened, LeftWork, RepairWork

-----------------------------------------------------------------------------
(* The selections of a tick, and its ends. *)

LEMMA StartControl ==
    ASSUME ConveyorInv, StartTick
    PROVE  ConveyorInv' /\ pr' = pr /\ (pc' = "review" => todo' = batch')
           /\ pc' \in {"work", "review", "select"} /\ (UnheardInv => UnheardInv')
<1>0. /\ issue \in [Issues -> IssueFacts] /\ pr \in [Issues -> PRs] /\ Control
      /\ outcome \in [Issues -> Outcomes] /\ refused = {} /\ backlog \subseteq Issues
  BY DEF ConveyorInv, Control, World, StartTick
<1>1. issue' \in [Issues -> IssueFacts]
  <2>1. PICK S : issue' = Demoted(S)
    BY DEF StartTick
  <2> QED BY <1>0, <2>1, UnreadyTyped DEF Demoted
<1>2. PICK repairs \in RepairsSeen, orphans \in OrphansSeen :
        \/ /\ repairs # {}
           /\ Begin("blocked", "work", repairs)
           /\ UNCHANGED outcome
        \/ /\ repairs = {} /\ orphans # {}
           /\ Begin("adopt", "review", orphans)
           /\ outcome' = [i \in Issues |->
                IF i \in orphans THEN [NoOutcome EXCEPT !.status = "open", !.url = TRUE]
                ELSE NoOutcome]
        \/ /\ repairs = {} /\ orphans = {}
           /\ Begin("none", "select", {})
           /\ UNCHANGED outcome
  BY DEF StartTick
<1>3. repairs \subseteq Issues /\ orphans \subseteq Issues
  <2>1. PICK first \in {b \in SUBSET {i \in Issues : NeedsRepair(i)} :
                          Cardinality(b) = SmallerOf(Parallel, Cardinality({i \in Issues : NeedsRepair(i)}))},
             lost \in Lost : repairs = first \ lost
    BY DEF RepairsSeen
  <2>2. PICK unlisted \in Lost : orphans = {i \in Issues : Orphaned(i)} \ unlisted
    BY DEF OrphansSeen
  <2> QED BY <2>1, <2>2
<1>4. [NoOutcome EXCEPT !.status = "open", !.url = TRUE] \in Outcomes /\ NoOutcome \in Outcomes
  BY NoOutcomeTyped DEF Outcomes
<1>5. outcome' \in [Issues -> Outcomes]
  BY <1>0, <1>2, <1>4
<1>6. World'
  BY <1>1, <1>5 DEF ConveyorInv, World, StartTick, ledger
<1>7. UNCHANGED <<pr, backlog, repaired, refused, acts>>
  BY DEF StartTick
<1>8. \E k \in {"none", "blocked", "adopt"}, p \in {"work", "review", "select"},
         b \in SUBSET Issues : Begin(k, p, b)
  BY <1>2, <1>3
<1>9. UnheardInv => UnheardInv'
  <2>1. pc = "idle" /\ NoOutcome.verdict = "none"
        /\ [NoOutcome EXCEPT !.status = "open", !.url = TRUE].verdict = "none"
    BY DEF StartTick, NoOutcome
  <2>2. UnheardInv => \A i \in Issues : outcome'[i].verdict = "none"
    BY <1>2, <2>1 DEF UnheardInv
  <2> QED BY <1>0, <1>3, <1>6, <1>7, <1>8, <2>2, BeginControl DEF UnheardInv
<1> QED BY <1>0, <1>6, <1>7, <1>8, <1>9, BeginControl DEF ConveyorInv

LEMMA SelectControl ==
    ASSUME ConveyorInv, Select
    PROVE  ConveyorInv' /\ pr' = pr /\ pc' \in {"idle", "classify", "work"}
           /\ (UnheardInv => UnheardInv')
<1>0. World /\ Control /\ refused = {} /\ issue \in [Issues -> IssueFacts]
  BY DEF ConveyorInv, Control, Select, World
<1>1. CASE EndTick
  BY <1>0, <1>1, ForgetControl, ForgetOutcome
     DEF EndTick, Forget, Phase, github, ledger, World, ConveyorInv, Control, UnheardInv, NoOutcome
<1>2. CASE ~EndTick
  <2>1. UNCHANGED <<github, ledger, outcome, repaired, refused, acts>>
        /\ backlog' = First(Listed, Parallel)
    BY <1>2 DEF Select
  <2>2. backlog' \subseteq Issues
    BY <2>1 DEF First, Listed
  <2>3. \E b \in SUBSET Issues : Begin("none", "classify", {}) \/ Begin("ready", "work", b)
    BY <1>2, <2>2 DEF Select
  <2>4. World'
    BY <1>0, <2>1 DEF World, github, ledger
  <2>5. ConveyorInv' /\ pr' = pr /\ pc' \in {"idle", "classify", "work"}
    BY <1>0, <2>1, <2>2, <2>3, <2>4, BeginControl DEF ConveyorInv, github
  <2>6. UnheardInv => UnheardInv'
    BY <2>1, <2>5 DEF UnheardInv, Select
  <2> QED BY <2>5, <2>6
<1> QED BY <1>1, <1>2

LEMMA ClassifyControl ==
    ASSUME ConveyorInv, Classify
    PROVE  ConveyorInv' /\ pr' = pr /\ pc' \in {"idle", "work"} /\ UnheardInv'
<1>0. /\ World /\ Control /\ issue \in [Issues -> IssueFacts]
      /\ attempt \in [Issues -> {"none", "open", "failed", "cooling"}]
  BY DEF ConveyorInv, World
<1>1. issue' \in [Issues -> IssueFacts]
  <2>1. PICK kept : issue' = [i \in Issues |-> Unready(i, i \notin InFlight \ kept)]
    BY DEF Classify
  <2>2. \A i \in Issues : (i \notin InFlight \ kept) \in BOOLEAN
    OBVIOUS
  <2> QED BY <1>0, <2>1, <2>2, UnreadyTyped
<1>2. attempt' \in [Issues -> {"none", "open", "failed", "cooling"}]
  BY <1>0 DEF Classify
<1>3. CASE Forget
  BY <1>0, <1>1, <1>2, <1>3, ForgetControl, ForgetOutcome
     DEF Classify, Forget, Phase, World, ConveyorInv, Control, UnheardInv, NoOutcome
<1>4. CASE ~Forget
  <2>1. DispatchSet \subseteq Issues
    BY <1>0 DEF DispatchSet, Dispatchable, First, Control
  <2>2. /\ kind' = "fresh" /\ pc' = "work" /\ batch' = DispatchSet /\ todo' = DispatchSet
        /\ outcome' = [i \in Issues |-> NoOutcome] /\ refused' = {}
        /\ UNCHANGED <<seen, backlog, repaired, acts, pr, exhausted>>
    BY <1>4 DEF Classify, Phase
  <2>3. Control'
    BY <1>0, <2>1, <2>2 DEF Control
  <2>4. World'
    BY <1>0, <1>1, <1>2, <2>2, NoOutcomeTyped DEF World
  <2> QED BY <2>2, <2>3, <2>4 DEF ConveyorInv, UnheardInv, NoOutcome
<1> QED BY <1>3, <1>4

LEMMA NextBatchControl ==
    ASSUME ConveyorInv, NextBatch \/ Crash
    PROVE  ConveyorInv' /\ pr' = pr /\ pc' \in {"idle", "classify", "select"} /\ UnheardInv'
<1>0. World /\ Control /\ acts \in 0..Acts
  BY DEF ConveyorInv, Control
<1>1. UNCHANGED <<github, ledger>> /\ acts' \in 0..Acts
  BY <1>0, Constants DEF NextBatch, Crash
<1>2. CASE Forget
  BY <1>0, <1>1, <1>2, ForgetControl, ForgetOutcome
     DEF Forget, Phase, World, github, ledger, ConveyorInv, UnheardInv, NoOutcome
<1>3. CASE ~Forget
  <2>1. /\ pc' \in {"classify", "select"} /\ batch' = {} /\ todo' = {}
        /\ kind' = "none" /\ refused' = {} /\ repaired' = TRUE
        /\ outcome' = [i \in Issues |-> NoOutcome]
        /\ UNCHANGED <<seen, backlog, acts>>
    BY <1>3 DEF NextBatch, Crash, Phase
  <2>2. Control'
    BY <1>0, <2>1 DEF Control
  <2>3. World'
    BY <1>0, <1>1, <2>1, NoOutcomeTyped DEF World, github, ledger
  <2> QED BY <1>1, <2>1, <2>2, <2>3 DEF ConveyorInv, github, UnheardInv, NoOutcome
<1> QED BY <1>2, <1>3

LEMMA IterationsOffControl ==
    ASSUME ConveyorInv, IterationsOff
    PROVE  ConveyorInv' /\ pr' = pr /\ pc' = "review" /\ todo' = batch'
           /\ (UnheardInv => UnheardInv')
<1>1. Control'
  BY DEF ConveyorInv, Control, IterationsOff, Phase
<1>2. UnheardInv => UnheardInv'
  BY DEF ConveyorInv, Control, IterationsOff, Phase, UnheardInv
<1> QED BY <1>1, <1>2 DEF ConveyorInv, World, IterationsOff, Phase, github, ledger

-----------------------------------------------------------------------------
(* GitHub, time and the operator: they approve, label and arm nothing. *)

GoesOrStays(j) ==
    \/ pr'[j] = pr[j]
    \/ pr'[j].state \in {"merged", "closed"} /\ pr'[j].labels = {}
    \/ /\ pr'[j].labels = pr[j].labels /\ pr'[j].head = pr[j].head
       /\ pr'[j].armed = pr[j].armed /\ pr'[j].state = pr[j].state

LEMMA ElsewhereShape ==
    ASSUME ConveyorInv, NEW i \in Issues,
           AutoMergeFires(i) \/ MergeStateMoves(i) \/ CooldownEnds(i) \/ EventsAge(i) \/ OperatorActs(i)
    PROVE  /\ ConveyorInv' /\ UNCHANGED <<pc, todo, memory>>
           /\ \A j \in Issues : GoesOrStays(j)
<1>0. /\ World /\ Control /\ issue \in [Issues -> IssueFacts]
      /\ pr \in [Issues -> PRs] /\ pr[i] \in PRs
      /\ attempt \in [Issues -> {"none", "open", "failed", "cooling"}]
      /\ exhausted \in [Issues -> 0..StuckThreshold] /\ acts \in 0..Acts
  BY DEF ConveyorInv, World, Control
<1>1. UNCHANGED <<pc, todo, memory>>
  BY DEF AutoMergeFires, MergeStateMoves, CooldownEnds, EventsAge, OperatorActs, Elsewhere
<1>2. acts' \in 0..Acts
  BY <1>0, Constants DEF AutoMergeFires, MergeStateMoves, CooldownEnds, EventsAge, OperatorActs
<1>3. Control'
  BY <1>0, <1>1, <1>2 DEF Control, memory
<1>4. issue' \in [Issues -> IssueFacts]
  <2>1. CASE AutoMergeFires(i)
    BY <1>0, <2>1 DEF AutoMergeFires, Merged, IssueFacts
  <2>2. CASE OperatorActs(i)
    <3>1. issue[i] \in IssueFacts
      BY <1>0
    <3>2. ASSUME NEW b \in BOOLEAN
          PROVE  /\ [issue[i] EXCEPT !.open = b] \in IssueFacts
                 /\ [issue[i] EXCEPT !.ready = b] \in IssueFacts
                 /\ [issue[i] EXCEPT !.gated = b] \in IssueFacts
      BY <3>1 DEF IssueFacts
    <3>3. \/ issue' = issue
          \/ issue' = [issue EXCEPT ![i] = [issue[i] EXCEPT !.open = ~@ /\ pr[i].state # "merged"]]
          \/ issue' = [issue EXCEPT ![i] = [issue[i] EXCEPT !.ready = ~@]]
          \/ issue' = [issue EXCEPT ![i] = [issue[i] EXCEPT !.gated = ~@]]
      BY <1>0, <2>2 DEF OperatorActs, github
    <3>4. /\ (~issue[i].open /\ pr[i].state # "merged") \in BOOLEAN
          /\ (~issue[i].ready) \in BOOLEAN /\ (~issue[i].gated) \in BOOLEAN
      OBVIOUS
    <3> QED BY <1>0, <3>2, <3>3, <3>4, IssueTyped
  <2> QED BY <1>0, <2>1, <2>2 DEF MergeStateMoves, CooldownEnds, EventsAge, github
<1>5. attempt' \in [Issues -> {"none", "open", "failed", "cooling"}]
  BY <1>0 DEF AutoMergeFires, MergeStateMoves, CooldownEnds, EventsAge, OperatorActs
<1>6. exhausted' \in [Issues -> 0..StuckThreshold]
  BY <1>0, Constants DEF AutoMergeFires, MergeStateMoves, CooldownEnds, EventsAge, OperatorActs, Elsewhere
<1>7. outcome' = outcome
  BY <1>1 DEF memory
<1>8. \/ pr' = pr
      \/ \E st \in {"merged", "closed"} : pr' = [pr EXCEPT ![i] = [NoPR EXCEPT !.state = st]]
      \/ \E m \in MergeStates : pr' = [pr EXCEPT ![i].merge = m]
      \/ pr' = [pr EXCEPT ![i].threads = @ \cup {"human"}]
  BY DEF AutoMergeFires, Merged, MergeStateMoves, CooldownEnds, EventsAge, OperatorActs, github
<1>9. /\ pr' \in [Issues -> PRs]
      /\ \A j \in Issues : GoesOrStays(j)
  <2>1. CASE pr' = pr
    BY <1>0, <2>1 DEF GoesOrStays
  <2>2. ASSUME NEW st \in {"merged", "closed"}, pr' = [pr EXCEPT ![i] = [NoPR EXCEPT !.state = st]]
        PROVE  <1>9!1 /\ <1>9!2
    <3>1. [NoPR EXCEPT !.state = st] \in PRs /\ [NoPR EXCEPT !.state = st].state = st
          /\ [NoPR EXCEPT !.state = st].labels = {}
      BY DEF NoPR, PRs
    <3> QED BY <1>0, <2>2, <3>1, PRMoves DEF GoesOrStays
  <2>3. ASSUME NEW p \in PRs, p.labels = pr[i].labels, p.head = pr[i].head,
               p.armed = pr[i].armed, p.state = pr[i].state, pr' = [pr EXCEPT ![i] = p]
        PROVE  <1>9!1 /\ <1>9!2
    BY <1>0, <2>3, PRMoves DEF GoesOrStays
  <2>4. ASSUME NEW m \in MergeStates
        PROVE  LET p == [pr[i] EXCEPT !.merge = m] IN
               p \in PRs /\ p.labels = pr[i].labels /\ p.head = pr[i].head
               /\ p.armed = pr[i].armed /\ p.state = pr[i].state
    BY <1>0, Constants DEF PRs
  <2>5. LET p == [pr[i] EXCEPT !.threads = @ \cup {"human"}] IN
        p \in PRs /\ p.labels = pr[i].labels /\ p.head = pr[i].head
        /\ p.armed = pr[i].armed /\ p.state = pr[i].state
    BY <1>0 DEF PRs
  <2>6. ASSUME NEW m \in MergeStates, pr' = [pr EXCEPT ![i].merge = m]
        PROVE  <1>9!1 /\ <1>9!2
    <3>1. pr' = [pr EXCEPT ![i] = [pr[i] EXCEPT !.merge = m]]
      BY <1>0, <2>6
    <3> QED BY <2>3, <2>4, <3>1
  <2>7. ASSUME pr' = [pr EXCEPT ![i].threads = @ \cup {"human"}]
        PROVE  <1>9!1 /\ <1>9!2
    <3>1. pr' = [pr EXCEPT ![i] = [pr[i] EXCEPT !.threads = @ \cup {"human"}]]
      BY <1>0, <2>7
    <3> QED BY <2>3, <2>5, <3>1
  <2> QED BY <1>8, <2>1, <2>2, <2>6, <2>7
<1>10. World'
  BY <1>0, <1>4, <1>5, <1>6, <1>7, <1>9 DEF World
<1> QED BY <1>1, <1>3, <1>9, <1>10 DEF ConveyorInv

-----------------------------------------------------------------------------
(* The types and the tick's memory, after any step. *)

(* The steps of a phase on one outcome. *)
IssueStep(i) ==
    \/ FreshWork(i) \/ RepairWork(i)
    \/ SkipIteration(i) \/ StopIteration(i) \/ LandHealthy(i) \/ Exhaust(i)
    \/ SkipReview(i) \/ Review(i) \/ Gate(i) \/ Land(i) \/ Finish(i)

LEMMA IssueStepDone ==
    ASSUME Control, NEW i \in Issues, IssueStep(i)
    PROVE  /\ pc \in {"work", "iterate", "review", "gate", "land", "finish"}
           /\ i \in todo /\ Done(i) /\ (refused' = refused \/ Gate(i))
<1>1. CASE FreshWork(i) \/ RepairWork(i)
  BY <1>1 DEF FreshWork, RepairWork
<1>2. CASE SkipIteration(i) \/ StopIteration(i) \/ LandHealthy(i) \/ Exhaust(i)
  BY <1>2 DEF SkipIteration, StopIteration, LandHealthy, Exhaust, Iterating, Probing, Upnext
<1>3. CASE SkipReview(i) \/ Review(i)
  BY <1>3 DEF SkipReview, Review, Reviewing, Upnext
<1>4. CASE Gate(i)
  BY <1>4 DEF Gate, Gating, Upnext
<1>5. CASE Land(i)
  BY <1>5 DEF Land, Upnext
<1>6. CASE Finish(i)
  BY <1>6 DEF Finish, FinishFresh, FinishAdopted, FinishRepaired, Finishing, Upnext
<1> QED BY <1>1, <1>2, <1>3, <1>4, <1>5, <1>6 DEF IssueStep

LEMMA IssueStepInv == ASSUME ConveyorInv, NEW i \in Issues, IssueStep(i) PROVE ConveyorInv'
<1>0. Control /\ World /\ refused \subseteq batch
  BY DEF ConveyorInv, Control
<1>1. World'
  BY <1>0, WorkWorld, IterationWorld, ReviewShape, GateShape, LandShape, FinishShape DEF IssueStep
<1>2. Control'
  BY <1>0, IssueStepDone, GateShape, DoneControl
<1> QED BY <1>1, <1>2 DEF ConveyorInv

LEMMA InitConveyorInv == Init => ConveyorInv
<1> SUFFICES ASSUME Init PROVE ConveyorInv
  OBVIOUS
<1>1. Control
  <2>1. seen \in [Issues -> Glimpses]
    BY DEF Init, Glimpses
  <2>2. acts \in 0..Acts
    BY Constants DEF Init
  <2> QED BY <2>1, <2>2 DEF Init, Control
<1>2. World
  BY Constants, NoPRTyped, NoOutcomeTyped DEF Init, World, IssueFacts
<1> QED BY <1>1, <1>2 DEF ConveyorInv

LEMMA NextCases ==
    ASSUME Next
    PROVE  \/ StartTick \/ Select \/ Classify \/ IterationsOff \/ NextBatch \/ Crash
           \/ \E i \in Issues :
                  \/ IssueStep(i) \/ FollowUp(i)
                  \/ AutoMergeFires(i) \/ MergeStateMoves(i) \/ CooldownEnds(i) \/ EventsAge(i)
                  \/ OperatorActs(i)
  BY DEF Next, LoopStep, Environment, IssueStep

LEMMA StutterInv == ASSUME ConveyorInv, UNCHANGED vars PROVE ConveyorInv'
  BY DEF ConveyorInv, Control, World, vars

LEMMA NextConveyorInv == ConveyorInv /\ [Next]_vars => ConveyorInv'
<1> SUFFICES ASSUME ConveyorInv, [Next]_vars PROVE ConveyorInv'
  OBVIOUS
<1>1. ASSUME NEW i \in Issues, FollowUp(i) PROVE ConveyorInv'
  BY <1>1, FollowUpWorld DEF ConveyorInv
<1> QED BY <1>1, NextCases, StartControl, SelectControl, ClassifyControl, IterationsOffControl,
           NextBatchControl, IssueStepInv, ElsewhereShape, StutterInv

-----------------------------------------------------------------------------
(* What is cleared for landing. *)

(* Which step of a phase is taken in which phase. *)
LEMMA StepOfPhase ==
    ASSUME NEW i \in Issues, IssueStep(i)
    PROVE  /\ pc = "work" => FreshWork(i) \/ RepairWork(i)
           /\ pc = "iterate" => SkipIteration(i) \/ StopIteration(i) \/ LandHealthy(i) \/ Exhaust(i)
           /\ pc = "review" => SkipReview(i) \/ Review(i)
           /\ pc = "gate" => Gate(i)
           /\ pc = "land" => Land(i)
  BY DEF IssueStep, FreshWork, RepairWork, SkipIteration, StopIteration, LandHealthy, Exhaust,
         Iterating, Probing, SkipReview, Review, Reviewing, Gate, Gating, Land, Finish, FinishFresh,
         FinishAdopted, FinishRepaired, Finishing

(* A session or a repair gives no verdict, nor does the iteration loop. *)
LEMMA WorkIsUnheard ==
    ASSUME ConveyorInv, UnheardInv, NEW i \in Issues,
           \/ IssueStep(i) /\ pc \in {"work", "iterate"}
           \/ FollowUp(i)
    PROVE  \A j \in Issues : outcome'[j].verdict = "none"
<1>0. /\ outcome \in [Issues -> Outcomes] /\ outcome[i] \in Outcomes
      /\ \A j \in Issues : outcome[j].verdict = "none"
  BY StepOfPhase DEF ConveyorInv, World, UnheardInv, FollowUp, Probing, Iterating
<1>1. ASSUME NEW o, outcome' = [outcome EXCEPT ![i] = o], o.verdict = "none"
      PROVE  \A j \in Issues : outcome'[j].verdict = "none"
  BY <1>0, <1>1
<1>2. CASE FreshWork(i) \/ RepairWork(i)
  <2>2. CASE Opened(i)
    <3>1. PICK timedOut \in BOOLEAN, unsaved \in BOOLEAN :
             outcome' = [outcome EXCEPT ![i] =
               [outcome[i] EXCEPT !.status = IF timedOut THEN "failed" ELSE "open",
                         !.url = TRUE, !.error = timedOut,
                         !.tree = IF timedOut /\ unsaved THEN "dirty" ELSE "nothing"]]
      BY <1>0, <2>2 DEF Opened
    <3> DEFINE s == IF timedOut THEN "failed" ELSE "open"
               t == IF timedOut /\ unsaved THEN "dirty" ELSE "nothing"
               o == [outcome[i] EXCEPT !.status = s, !.url = TRUE, !.error = timedOut, !.tree = t]
    <3>2. outcome' = [outcome EXCEPT ![i] = o]
      BY <3>1
    <3> HIDE DEF s, t
    <3>3. o.verdict = "none"
      BY <1>0 DEF Outcomes
    <3> HIDE DEF o
    <3> QED BY <1>1, <3>2, <3>3
  <2>3. CASE LeftWork(i)
    <3>1. PICK t : outcome' = [outcome EXCEPT ![i] =
                     [outcome[i] EXCEPT !.status = "failed", !.url = FALSE, !.error = TRUE, !.tree = t]]
      BY <1>0, <2>3 DEF LeftWork
    <3> DEFINE o == [outcome[i] EXCEPT !.status = "failed", !.url = FALSE, !.error = TRUE, !.tree = t]
    <3>2. outcome' = [outcome EXCEPT ![i] = o]
      BY <3>1
    <3>3. o.verdict = "none"
      BY <1>0 DEF Outcomes
    <3> HIDE DEF o
    <3> QED BY <1>1, <3>2, <3>3
  <2>4. CASE RepairWork(i)
    <3>1. PICK failed \in BOOLEAN :
             outcome' = [outcome EXCEPT ![i] =
               [outcome[i] EXCEPT !.status = IF failed THEN "failed" ELSE "open",
                         !.url = TRUE, !.error = failed]]
      BY <1>0, <2>4 DEF RepairWork
    <3> DEFINE s == IF failed THEN "failed" ELSE "open"
               o == [outcome[i] EXCEPT !.status = s, !.url = TRUE, !.error = failed]
    <3>2. outcome' = [outcome EXCEPT ![i] = o]
      BY <3>1
    <3> HIDE DEF s
    <3>3. o.verdict = "none"
      BY <1>0 DEF Outcomes
    <3> HIDE DEF o
    <3> QED BY <1>1, <3>2, <3>3
  <2> QED BY <1>2, <2>2, <2>3, <2>4 DEF FreshWork
<1>3. CASE SkipIteration(i) \/ StopIteration(i) \/ Exhaust(i)
  BY <1>0, <1>3 DEF SkipIteration, StopIteration, Exhaust
<1>4. CASE LandHealthy(i)
  <2>1. \/ outcome' = outcome
        \/ outcome' = [outcome EXCEPT ![i] = [outcome[i] EXCEPT !.status = "open", !.url = TRUE]]
    BY <1>0, <1>4 DEF LandHealthy
  <2>2. [outcome[i] EXCEPT !.status = "open", !.url = TRUE].verdict = "none"
    BY <1>0 DEF Outcomes
  <2> QED BY <1>0, <1>1, <2>1, <2>2
<1>5. CASE FollowUp(i)
  <2> DEFINE n == outcome[i].round + 1
  <2>1. \/ \E timedOut \in BOOLEAN :
              outcome' = [outcome EXCEPT ![i] =
                 [NoOutcome EXCEPT !.status = IF timedOut THEN "failed" ELSE "open",
                    !.url = TRUE, !.error = timedOut, !.round = n]]
        \/ \E t \in {outcome[i].tree, "dirty"} :
              outcome' = [outcome EXCEPT ![i] =
                 [NoOutcome EXCEPT !.error = TRUE, !.tree = t, !.round = n]]
    BY <1>5 DEF FollowUp
  <2> HIDE DEF n
  <2>2. ASSUME NEW timedOut \in BOOLEAN,
               outcome' = [outcome EXCEPT ![i] =
                 [NoOutcome EXCEPT !.status = IF timedOut THEN "failed" ELSE "open",
                    !.url = TRUE, !.error = timedOut, !.round = n]]
        PROVE  \A j \in Issues : outcome'[j].verdict = "none"
    <3> DEFINE s == IF timedOut THEN "failed" ELSE "open"
               o == [NoOutcome EXCEPT !.status = s, !.url = TRUE, !.error = timedOut, !.round = n]
    <3>2. outcome' = [outcome EXCEPT ![i] = o]
      BY <2>2
    <3> HIDE DEF s
    <3>3. o.verdict = "none"
      BY DEF NoOutcome
    <3> HIDE DEF o
    <3> QED BY <1>1, <3>2, <3>3
  <2>3. ASSUME NEW t,
               outcome' = [outcome EXCEPT ![i] = [NoOutcome EXCEPT !.error = TRUE, !.tree = t, !.round = n]]
        PROVE  \A j \in Issues : outcome'[j].verdict = "none"
    <3> DEFINE o == [NoOutcome EXCEPT !.error = TRUE, !.tree = t, !.round = n]
    <3>2. outcome' = [outcome EXCEPT ![i] = o]
      BY <2>3
    <3>3. o.verdict = "none"
      BY DEF NoOutcome
    <3> HIDE DEF o
    <3> QED BY <1>1, <3>2, <3>3
  <2> QED BY <2>1, <2>2, <2>3
<1> QED BY <1>2, <1>3, <1>4, <1>5, StepOfPhase

LEMMA NextUnheardInv == ConveyorInv /\ UnheardInv /\ [Next]_vars => UnheardInv'
<1> SUFFICES ASSUME ConveyorInv, UnheardInv, [Next]_vars PROVE UnheardInv'
  OBVIOUS
<1>0. Control /\ World
  BY DEF ConveyorInv
<1>1. CASE StartTick \/ Select \/ Classify \/ IterationsOff \/ NextBatch \/ Crash
  BY <1>1, StartControl, SelectControl, ClassifyControl, NextBatchControl, IterationsOffControl
<1>2. ASSUME NEW i \in Issues, IssueStep(i) PROVE UnheardInv'
  <2>1. /\ batch' = batch /\ batch \subseteq Issues /\ todo \subseteq batch
        /\ \/ pc' = pc /\ todo' = todo \ {i}
           \/ todo = {i} /\ pc' = Following /\ todo' = batch
    BY <1>0, <1>2, IssueStepDone, DoneControl, GateShape DEF Control
  <2>2. CASE pc \in {"work", "iterate"}
    <3>1. \A j \in Issues : outcome'[j].verdict = "none"
      BY <1>2, <2>2, WorkIsUnheard
    <3>2. todo' \subseteq Issues
      BY <2>1
    <3> QED BY <3>1, <3>2 DEF UnheardInv
  <2>3. CASE pc = "review"
    <3>1. \A j \in Issues \ {i} : outcome'[j] = outcome[j]
      BY <1>0, <1>2, <2>3, StepOfPhase, ReviewShape
    <3> QED BY <2>1, <2>3, <3>1 DEF UnheardInv, Following
  <2>4. CASE pc \in {"gate", "land", "finish"}
    BY <2>1, <2>4 DEF UnheardInv, Following
  <2> QED BY <1>0, <1>2, <2>2, <2>3, <2>4, IssueStepDone
<1>3. ASSUME NEW i \in Issues, FollowUp(i) PROVE UnheardInv'
  <2>1. \A j \in Issues : outcome'[j].verdict = "none"
    BY <1>3, WorkIsUnheard
  <2>2. pc' = "iterate"
    BY <1>3 DEF FollowUp, Probing, Iterating
  <2> QED BY <2>1, <2>2 DEF UnheardInv
<1>4. ASSUME NEW i \in Issues,
             AutoMergeFires(i) \/ MergeStateMoves(i) \/ CooldownEnds(i) \/ EventsAge(i) \/ OperatorActs(i)
      PROVE  UnheardInv'
  BY <1>4, ElsewhereShape DEF memory, UnheardInv
<1>5. CASE UNCHANGED vars
  BY <1>5 DEF vars, UnheardInv
<1> QED BY <1>1, <1>2, <1>3, <1>4, <1>5, NextCases

(* A phase whose outcomes are cleared one by one hands a cleared batch on. *)
LEMMA ClearedStep ==
    ASSUME ConveyorInv, ClearedInv, NEW i \in Issues, IssueStep(i),
           pc \in {"review", "gate", "land"}, Cleared(i)',
           \A j \in Issues \ {i} : pr'[j] = pr[j] /\ outcome'[j] = outcome[j]
    PROVE  ClearedInv'
<1>1. /\ Control /\ batch' = batch /\ batch \subseteq Issues /\ todo \subseteq batch /\ i \in todo
      /\ \/ pc' = pc /\ todo' = todo \ {i}
         \/ todo = {i} /\ pc' = Following /\ todo' = batch
  BY IssueStepDone, DoneControl, GateShape DEF ConveyorInv, Control
<1>2. \A j \in Issues \ {i} : Cleared(j) => Cleared(j)'
  BY DEF Cleared, Presentable, Reviewable, VerdictAllows, Open
<1> QED BY <1>1, <1>2 DEF ClearedInv, Following

(* The phases before the review, and after the landing, ask nothing. *)
LEMMA ClearedElsewhere ==
    ASSUME ConveyorInv, NEW i \in Issues, IssueStep(i), pc \in {"work", "iterate", "finish"}
    PROVE  ClearedInv'
<1>1. /\ batch' = batch
      /\ \/ pc' = pc /\ todo' = todo \ {i}
         \/ todo = {i} /\ pc' = Following /\ todo' = batch
  BY IssueStepDone, DoneControl, GateShape DEF ConveyorInv, Control
<1> QED BY <1>1 DEF ClearedInv, Following, AfterWork

LEMMA NextClearedInv == ConveyorInv /\ UnheardInv /\ ClearedInv /\ [Next]_vars => ClearedInv'
<1> SUFFICES ASSUME ConveyorInv, UnheardInv, ClearedInv, [Next]_vars PROVE ClearedInv'
  OBVIOUS
<1>0. Control /\ World
  BY DEF ConveyorInv
<1>1. CASE StartTick \/ Select \/ Classify \/ IterationsOff \/ NextBatch \/ Crash
  <2>1. pc' \notin {"gate", "land"} /\ (pc' = "review" => todo' = batch')
    BY <1>1, StartControl, SelectControl, ClassifyControl, NextBatchControl, IterationsOffControl
  <2> QED BY <2>1 DEF ClearedInv
<1>2. ASSUME NEW i \in Issues, IssueStep(i) PROVE ClearedInv'
  <2>0. i \in todo /\ i \in batch
    BY <1>0, <1>2, IssueStepDone DEF Control
  <2>1. CASE pc \in {"work", "iterate", "finish"}
    BY <1>2, <2>1, ClearedElsewhere
  <2>2. CASE pc = "review"
    <3>1. outcome[i].verdict = "none"
      BY <2>0, <2>2 DEF UnheardInv
    <3> QED BY <1>0, <1>2, <2>2, <3>1, StepOfPhase, ReviewShape, ClearedStep
  <2>3. CASE pc = "gate"
    <3>1. Gate(i) /\ Cleared(i)
      BY <1>2, <2>0, <2>3, StepOfPhase DEF ClearedInv
    <3> QED BY <1>0, <1>2, <2>3, <3>1, GateShape, ClearedStep
  <2>4. CASE pc = "land"
    <3>1. Land(i) /\ Cleared(i)
      BY <1>2, <2>0, <2>4, StepOfPhase DEF ClearedInv
    <3> QED BY <1>0, <1>2, <2>4, <3>1, LandShape, ClearedStep
  <2> QED BY <1>0, <1>2, <2>1, <2>2, <2>3, <2>4, IssueStepDone
<1>3. ASSUME NEW i \in Issues, FollowUp(i) PROVE ClearedInv'
  BY <1>0, <1>3, FollowUpWorld DEF FollowUp, Probing, Iterating, ClearedInv
<1>4. ASSUME NEW i \in Issues,
             AutoMergeFires(i) \/ MergeStateMoves(i) \/ CooldownEnds(i) \/ EventsAge(i) \/ OperatorActs(i)
      PROVE  ClearedInv'
  <2>1. UNCHANGED <<pc, todo, batch, outcome>> /\ batch \subseteq Issues
    BY <1>0, <1>4, ElsewhereShape DEF memory, Control
  <2>2. \A j \in Issues : Cleared(j) => Cleared(j)'
    <3> SUFFICES ASSUME NEW j \in Issues, Cleared(j), Presentable(j), Open(j)'
                 PROVE  \/ /\ pr'[j].head = "approved"
                           /\ "unlabel" \in Faulty \/ "critic:blocking" \notin pr'[j].labels
                        \/ outcome[j].verdict = "none" /\ "critic_raises" \in Faulty
      BY <2>1 DEF Cleared, Presentable, Reviewable, VerdictAllows
    <3> QED BY <1>4, ElsewhereShape DEF Open, Cleared, GoesOrStays
  <2> QED BY <2>1, <2>2 DEF ClearedInv
<1>5. CASE UNCHANGED vars
  BY <1>5 DEF vars, ClearedInv, Cleared, Presentable, Reviewable, VerdictAllows, Open
<1> QED BY <1>1, <1>2, <1>3, <1>4, <1>5, NextCases

-----------------------------------------------------------------------------
(* The theorems. *)

LEMMA ConveyorInvHolds == Spec => []ConveyorInv
  BY InitConveyorInv, NextConveyorInv, PTL DEF Spec

(* The tick's memory and the pull requests keep their types: a follow-up     *)
(* session past the setting's number, a phase with an outcome of another     *)
(* batch, a gate's refusal outside its batch do not occur.                   *)
THEOREM TypeCorrect == Spec => []TypeOK
<1>1. ConveyorInv => TypeOK
  BY DEF ConveyorInv, Control, World, TypeOK
<1> QED BY <1>1, ConveyorInvHolds, PTL

LEMMA ClearedInvHolds == Spec => [](UnheardInv /\ ClearedInv)
<1>1. Init => UnheardInv /\ ClearedInv
  BY DEF Init, UnheardInv, ClearedInv, NoOutcome
<1> QED BY <1>1, NextUnheardInv, NextClearedInv, ConveyorInvHolds, PTL DEF Spec

(* What a merge phase lands has a head the critic approved (#267), whatever  *)
(* fails on the way; or its review raised, which is logged and leaves        *)
(* verdict none, and tick.py `_automerge_withheld_reason` lets it through.   *)
THEOREM LandsApproved == Spec => LandsWhatWasApproved
<1> DEFINE Approved(i) == \/ pr[i].head = "approved"
                          \/ outcome[i].verdict = "none" /\ "critic_raises" \in Faulty
<1>1. ConveyorInv /\ ClearedInv /\ [Next]_vars =>
        [\A i \in Issues : LoopLands(i) => Approved(i)]_vars
  <2> SUFFICES ASSUME ConveyorInv, ClearedInv, Next, NEW i \in Issues, LoopLands(i)
               PROVE  Approved(i)
    OBVIOUS
  <2>0. Control /\ World /\ pc = "land" /\ outcome'[i].status = "merged" /\ outcome[i].status # "merged"
        /\ i \in batch
    BY DEF ConveyorInv, LoopLands, Upnext, Control
  <2>1. \E j \in Issues : Land(j)
    <3>1. outcome' # outcome /\ ~Forget
      BY <2>0 DEF Forget, NoOutcome
    <3> QED BY <2>0, <3>1 DEF Next, LoopStep, Environment, StartTick, Select, EndTick, Classify,
           IterationsOff, NextBatch, FreshWork, RepairWork, SkipIteration, StopIteration, LandHealthy,
           FollowUp, Exhaust, Iterating, Probing, SkipReview, Review, Reviewing, Finish, FinishFresh,
           FinishAdopted, FinishRepaired, Finishing, Gate, Gating, Crash, AutoMergeFires,
           MergeStateMoves, CooldownEnds, EventsAge, OperatorActs, Elsewhere, memory
  <2>2. Land(i)
    BY <2>0, <2>1, LandShape
  <2>3. Open(i) /\ Presentable(i)
    BY <2>0, <2>2, LandShape
  <2> QED BY <2>0, <2>3 DEF ClearedInv, Cleared
<1> QED BY <1>1, ConveyorInvHolds, ClearedInvHolds, PTL DEF Spec, LandsWhatWasApproved

-----------------------------------------------------------------------------
(* Blocked pull requests. *)

(* The four ways in which one that carries the label gets armed. *)
ArmedBy(i) ==
    \/ FollowUp(i)
    \/ Review(i) /\ pr[i].armed /\ "disarm" \in Faulty
    \/ Land(i) /\ pr[i].head = "approved" /\ "unlabel" \in Faulty
    \/ Land(i) /\ outcome[i].verdict = "none" /\ "critic_raises" \in Faulty

(* A healthy pull request is merged there and then: the iteration loop arms  *)
(* nothing itself.                                                           *)
LEMMA IterationHarmless ==
    ASSUME World, NEW i \in Issues,
           SkipIteration(i) \/ StopIteration(i) \/ LandHealthy(i) \/ Exhaust(i)
    PROVE  /\ \A j \in Issues \ {i} : pr'[j] = pr[j]
           /\ Harmless(i) => Harmless(i)'
<1>0. pr \in [Issues -> PRs]
  BY DEF World
<1>1. CASE pr' = pr
  BY <1>1 DEF Harmless
<1>2. CASE LandHealthy(i)
  <2>1. pr' = pr \/ pr' = [pr EXCEPT ![i] = [NoPR EXCEPT !.state = "merged"]]
    BY <1>2 DEF LandHealthy, Healthy, EnsureMerged, Merged, github
  <2>2. [NoPR EXCEPT !.state = "merged"].labels = {}
    BY DEF NoPR
  <2> QED BY <1>0, <1>1, <2>1, <2>2, NoPRTyped, PRMoves DEF Harmless
<1> QED BY <1>1, <1>2 DEF SkipIteration, StopIteration, Exhaust, github

LEMMA NextHarmless ==
    ASSUME ConveyorInv, ClearedInv, [Next]_vars, NEW i \in Issues, Harmless(i)
    PROVE  Harmless(i)' \/ ArmedBy(i)
<1>0. Control /\ World
  BY DEF ConveyorInv
<1>1. CASE pr'[i] = pr[i]
  BY <1>1 DEF Harmless
<1>2. ASSUME NEW j \in Issues, IssueStep(j) PROVE Harmless(i)' \/ ArmedBy(i)
  <2>1. CASE FreshWork(j) \/ RepairWork(j)
    BY <1>0, <1>1, <2>1, WorkHarmless
  <2>2. CASE SkipReview(j) \/ Review(j)
    BY <1>0, <1>1, <2>2, ReviewShape DEF ArmedBy
  <2>3. CASE Gate(j)
    BY <1>0, <1>1, <2>3, GateShape
  <2>4. CASE Land(j)
    <3>1. CASE j # i
      BY <1>0, <1>1, <2>4, <3>1, LandShape
    <3>2. CASE j = i
      <4>1. Cleared(i)
        BY <1>0, <2>4, <3>2 DEF Land, Upnext, ClearedInv, Control
      <4>2. Harmless(i)' \/ Labelled(i)
        BY <1>0, <2>4, <3>2, LandShape
      <4> QED BY <2>4, <3>2, <4>1, <4>2 DEF Labelled, Cleared, ArmedBy
    <3> QED BY <3>1, <3>2
  <2>5. CASE Finish(j)
    BY <1>0, <1>1, <2>5, FinishShape
  <2>6. CASE SkipIteration(j) \/ StopIteration(j) \/ LandHealthy(j) \/ Exhaust(j)
    BY <1>0, <1>1, <2>6, IterationHarmless
  <2> QED BY <1>2, <2>1, <2>2, <2>3, <2>4, <2>5, <2>6 DEF IssueStep
<1>3. ASSUME NEW j \in Issues, FollowUp(j) PROVE Harmless(i)' \/ ArmedBy(i)
  <2>1. CASE j = i
    BY <1>3, <2>1 DEF ArmedBy
  <2>2. CASE j # i
    <3>1. pr'[i] = pr[i]
      BY <1>0, <1>3, <2>2 DEF FollowUp, World
    <3> QED BY <1>1, <3>1
  <2> QED BY <2>1, <2>2
<1>4. ASSUME NEW j \in Issues,
             AutoMergeFires(j) \/ MergeStateMoves(j) \/ CooldownEnds(j) \/ EventsAge(j) \/ OperatorActs(j)
      PROVE  Harmless(i)'
  BY <1>4, ElsewhereShape DEF Harmless, GoesOrStays
<1>5. CASE StartTick \/ Select \/ Classify \/ IterationsOff \/ NextBatch \/ Crash
  BY <1>1, <1>5, StartControl, SelectControl, ClassifyControl, IterationsOffControl, NextBatchControl
<1>6. CASE UNCHANGED vars
  BY <1>1, <1>6 DEF vars
<1> QED BY <1>2, <1>3, <1>4, <1>5, <1>6, NextCases

(* A pull request that carries critic:blocking gets armed by a follow-up     *)
(* session, by a disarming or an unlabelling that failed, or by a review     *)
(* that raised, and by no other step: for any number of sessions, whatever   *)
(* fails, crashes and acts in between.                                       *)
THEOREM BlockedIsNotArmed == Spec => BlockedNotArmed
<1>1. ConveyorInv /\ ClearedInv /\ [Next]_vars =>
        [\A i \in Issues : ArmedBlocked(i)' /\ ~ArmedBlocked(i) =>
          \/ FollowUp(i)
          \/ Review(i) /\ pr[i].armed /\ "disarm" \in Faulty
          \/ Land(i) /\ pr[i].head = "approved" /\ "unlabel" \in Faulty
          \/ Land(i) /\ outcome[i].verdict = "none" /\ "critic_raises" \in Faulty]_vars
  <2> SUFFICES ASSUME ConveyorInv, ClearedInv, [Next]_vars, NEW i \in Issues,
                      ArmedBlocked(i)', ~ArmedBlocked(i)
               PROVE  ArmedBy(i)
    BY DEF ArmedBy
  <2>1. Harmless(i) /\ ~Harmless(i)'
    BY DEF Harmless, ArmedBlocked
  <2> QED BY <2>1, NextHarmless
<1> QED BY <1>1, ConveyorInvHolds, ClearedInvHolds, PTL DEF Spec, BlockedNotArmed
=============================================================================
