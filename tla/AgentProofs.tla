---------------------------- MODULE AgentProofs ----------------------------
(***************************************************************************)
(* Proofs about the agents of the loop.                                    *)
(*                                                                         *)
(* WorkerSession, for every set of issues, every cap and every number of   *)
(* sessions, deaths, faults and verdicts: RowInv says what each of the     *)
(* three that write a row (a worker, the critic's handler, the recovery    *)
(* walk) still knows of it between its read and its UPDATE.                *)
(*                                                                         *)
(* CriticReview, for whatever a critic may say, whatever the fixed rules   *)
(* may find and any threshold: an approval the critic did not give passes  *)
(* over nothing severe, a severe finding reaches the outcome, and the log  *)
(* files never undercount the reviews that were completed.                 *)
(***************************************************************************)
EXTENDS WorkerSession, CriticReview, SequenceTheorems, FiniteSetTheorems, WellFoundedInduction, TLAPS

-----------------------------------------------------------------------------
(* The inductive invariant. *)

HoldsRow == Running \cup {"mark", "marking"}

(* A worker has a row of its issue, in the state it saw. *)
RecordSound(rows, i, w) ==
    /\ w.pc \in HoldsRow => /\ w.sess \in DOMAIN rows
                            /\ rows[w.sess].issue = i
                            /\ rows[w.sess].state = w.saw
    /\ w.pc = "marking" => w.saw = "dispatched" /\ w.to = "running"
    /\ w.pc \in {"url", "recording", "closing"} => w.saw = "running"
    /\ w.pc = "url" => rows[w.sess].pr
    /\ w.pc \in {"recording", "closing"} =>
          \/ w.to = "abandoned"
          \/ w.to = "awaiting_critic" /\ rows[w.sess].pr

WorkerSound(i) == /\ worker[i].pc # "idle" => phase = "tick"
                  /\ RecordSound(session, i, worker[i])

(* The edge the critic or the recovery walk has checked is still there. *)
MoveSound ==
    move # NoMove =>
        /\ phase \in {"review", "recover"}
        /\ move.sess \in DOMAIN session
        /\ MayMove(move.sess, move.to) /\ move.to # "running"
        /\ move.to \in {"awaiting_critic", "revising", "merged"} => session[move.sess].pr
        /\ move.to = "revising" => revisions[move.sess] < session[move.sess].rounds

(* The rows the walk has still to handle are as it read them. *)
TodoSound ==
    /\ todo # {} => phase = "recover"
    /\ \A next \in todo : /\ next.sess \in DOMAIN session
                          /\ next.row = session[next.sess]
                          /\ next.sess # move.sess

(* Until the walk is through, it has every row a death left running. *)
WalkComplete ==
    phase = "recover" /\ ~skipped =>
        \A s \in DOMAIN session : session[s].state = "running" =>
            s = move.sess \/ \E next \in todo : next.sess = s

CountsSound ==
    /\ RevisionsAreCounted
    /\ \A s \in 1..MaxSessions : s \notin DOMAIN session => revisions[s] = 0 /\ uncapped[s] = 0

RowInv ==
    /\ SessionTypeOK
    /\ \A i \in Issues : WorkerSound(i)
    /\ MoveSound /\ TodoSound /\ WalkComplete /\ CountsSound
    /\ OneLiveSession /\ HandoffHasUrl /\ RunningIsRun

-----------------------------------------------------------------------------
(* The table and the workers' records. *)

LEMMA SetRow ==
    ASSUME session \in Seq(Rows), NEW s \in DOMAIN session, NEW r \in Rows,
           session' = [session EXCEPT ![s] = r]
    PROVE  /\ session' \in Seq(Rows) /\ Len(session') = Len(session)
           /\ DOMAIN session' = DOMAIN session /\ session'[s] = r
           /\ \A t \in DOMAIN session \ {s} : session'[t] = session[t]
  OBVIOUS

LEMMA AddRow ==
    ASSUME session \in Seq(Rows), NEW r \in Rows, session' = Append(session, r)
    PROVE  /\ session' \in Seq(Rows) /\ Len(session') = Len(session) + 1
           /\ DOMAIN session' = DOMAIN session \cup {Len(session) + 1}
           /\ Len(session) + 1 \notin DOMAIN session
           /\ session'[Len(session) + 1] = r
           /\ \A t \in DOMAIN session : session'[t] = session[t]
  OBVIOUS

LEMMA RowTyped ==
    ASSUME session \in Seq(Rows), NEW s \in DOMAIN session
    PROVE  session[s] \in Rows
  OBVIOUS

(* A transition changes the state of a row and nothing else. *)
LEMMA WriteRow ==
    ASSUME session \in Seq(Rows), NEW s \in DOMAIN session, NEW to \in Fsm!States, WriteState(s, to)
    PROVE  /\ session' \in Seq(Rows) /\ Len(session') = Len(session)
           /\ DOMAIN session' = DOMAIN session
           /\ session'[s] = [session[s] EXCEPT !.state = to]
           /\ session'[s].state = to /\ session'[s].issue = session[s].issue
           /\ session'[s].pr = session[s].pr /\ session'[s].rounds = session[s].rounds
           /\ \A t \in DOMAIN session \ {s} : session'[t] = session[t]
<1>0. session[s] \in Rows
  BY RowTyped
<1>1. [session[s] EXCEPT !.state = to] \in Rows
  BY <1>0 DEF Rows
<1>2. session' = [session EXCEPT ![s] = [session[s] EXCEPT !.state = to]]
  BY DEF WriteState
<1>3. [session[s] EXCEPT !.state = to].state = to
      /\ [session[s] EXCEPT !.state = to].issue = session[s].issue
      /\ [session[s] EXCEPT !.state = to].pr = session[s].pr
      /\ [session[s] EXCEPT !.state = to].rounds = session[s].rounds
  BY <1>0 DEF Rows
<1> QED BY <1>1, <1>2, <1>3, SetRow

LEMMA WorkerBecomes ==
    ASSUME worker \in [Issues -> Workers], NEW i \in Issues, NEW w \in Workers,
           worker' = [worker EXCEPT ![i] = w]
    PROVE  /\ worker' \in [Issues -> Workers] /\ worker'[i] = w
           /\ \A j \in Issues \ {i} : worker'[j] = worker[j]
  OBVIOUS

LEMMA IdleTyped == Idle \in Workers
  BY SessionAssumption DEF Idle, Workers, Working, Running, Fsm!States

LEMMA FaultTyped == ASSUME SessionTypeOK, Fault PROVE faults' \in 0..MaxFaults
  BY SessionAssumption DEF SessionTypeOK, Fault

(* In a tick, neither the critic nor the recovery walk is at a row. *)
LEMMA TickQuiet ==
    ASSUME RowInv, phase = "tick"
    PROVE  move = NoMove /\ todo = {}
  BY DEF RowInv, MoveSound, TodoSound

(* Out of a tick, no worker is. *)
LEMMA OutOfTick ==
    ASSUME RowInv, phase # "tick"
    PROVE  \A i \in Issues : worker[i].pc = "idle"
  BY DEF RowInv, WorkerSound

(* What the invariant says of a worker. *)
LEMMA WorkerNow ==
    ASSUME RowInv, NEW i \in Issues
    PROVE  /\ worker[i] \in Workers /\ worker \in [Issues -> Workers]
           /\ tree \in [Issues -> Trees] /\ pull \subseteq Issues /\ faults \in 0..MaxFaults
           /\ RecordSound(session, i, worker[i])
  BY DEF RowInv, SessionTypeOK, WorkerSound

-----------------------------------------------------------------------------
(* A step of a worker that writes no row. *)

KeepsTable ==
    /\ phase = "tick"
    /\ UNCHANGED <<session, revisions, uncapped, skipped, phase, todo, move, deaths, verdicts>>
    /\ tree' \in [Issues -> Trees] /\ pull' \subseteq Issues /\ faults' \in 0..MaxFaults

KeepsRun(i, w) ==
    worker[i].pc \in Running /\ worker[i].saw = "running" =>
        w.pc \in Running /\ w.sess = worker[i].sess

LEMMA WorkerTurns ==
    ASSUME RowInv, NEW i \in Issues, NEW w \in Workers, worker' = [worker EXCEPT ![i] = w],
           KeepsTable, RecordSound(session, i, w), KeepsRun(i, w)
    PROVE  RowInv'
<1>1. worker' \in [Issues -> Workers] /\ worker'[i] = w
      /\ \A j \in Issues \ {i} : worker'[j] = worker[j]
  BY WorkerBecomes DEF RowInv, SessionTypeOK
<1>2. SessionTypeOK'
  BY <1>1 DEF RowInv, SessionTypeOK, KeepsTable
<1>3. \A j \in Issues : WorkerSound(j)'
  BY <1>1 DEF RowInv, WorkerSound, RecordSound, KeepsTable
<1>4. MoveSound' /\ TodoSound' /\ WalkComplete' /\ CountsSound' /\ OneLiveSession' /\ HandoffHasUrl'
  BY DEF RowInv, MoveSound, MayMove, TodoSound, WalkComplete, CountsSound, RevisionsAreCounted,
         OneLiveSession, HandoffHasUrl, KeepsTable
<1>5. RunningIsRun'
  <2> SUFFICES ASSUME ~skipped, NEW s \in DOMAIN session, session[s].state = "running"
               PROVE  \E j \in Issues : worker'[j].sess = s /\ worker'[j].pc \in Running
    BY DEF RunningIsRun, KeepsTable
  <2>1. PICK j \in Issues : worker[j].sess = s /\ worker[j].pc \in Running
    BY DEF RowInv, RunningIsRun, KeepsTable
  <2>2. worker[j].saw = "running"
    BY <2>1 DEF RowInv, WorkerSound, RecordSound, HoldsRow
  <2> QED BY <1>1, <2>1, <2>2 DEF KeepsRun
<1> QED BY <1>2, <1>3, <1>4, <1>5 DEF RowInv

LEMMA SubmitInv ==
    ASSUME RowInv, NEW i \in Issues, Submit(i) PROVE RowInv'
<1> DEFINE w == [worker[i] EXCEPT !.pc = "seed"]
<1>1. worker' = [worker EXCEPT ![i] = w]
  BY WorkerNow DEF Submit
<1>2. w \in Workers /\ w.pc = "seed"
  BY WorkerNow DEF Workers, Working
<1> HIDE DEF w
<1>3. KeepsTable
  BY WorkerNow DEF Submit, KeepsTable, table, bounds
<1>4. RecordSound(session, i, w) /\ KeepsRun(i, w)
  BY <1>2 DEF Submit, RecordSound, KeepsRun, HoldsRow, Running
<1> QED BY <1>1, <1>2, <1>3, <1>4, WorkerTurns

LEMMA MarkInv ==
    ASSUME RowInv, NEW i \in Issues, mark_running(i) PROVE RowInv'
<1>1. worker[i].pc = "mark" /\ KeepsTable
  BY WorkerNow DEF mark_running, KeepsTable, table, bounds
<1>2. PICK pc \in {"prep", "marking", "raised"}, to \in {"running", "none"} :
         /\ worker' = [worker EXCEPT ![i].to = to, ![i].pc = pc]
         /\ pc = "marking" => worker[i].saw = "dispatched" /\ to = "running"
  BY DEF mark_running
<1> DEFINE w == [worker[i] EXCEPT !.to = to, !.pc = pc]
<1>3. worker' = [worker EXCEPT ![i] = w]
  BY <1>2, WorkerNow
<1>4. to \in Fsm!States \cup {"none"} /\ pc \in Working \cup {"idle", "done", "raised"}
  BY DEF Fsm!States, Working, Running
<1>5. w \in Workers /\ w.pc = pc /\ w.to = to /\ w.sess = worker[i].sess
      /\ w.saw = worker[i].saw
  BY <1>4, WorkerNow DEF Workers
<1> HIDE DEF w
<1>6. RecordSound(session, i, w) /\ KeepsRun(i, w)
  BY <1>1, <1>2, <1>5, WorkerNow DEF RecordSound, KeepsRun, HoldsRow, Running
<1> QED BY <1>1, <1>3, <1>5, <1>6, WorkerTurns

(* Until its outcome is there, a worker keeps its row and what it saw of it. *)
LEMMA RunTurns ==
    ASSUME RowInv, NEW i \in Issues, worker[i].pc \in {"prep", "preflight", "session"},
           KeepsTable, NEW w \in Workers, worker' = [worker EXCEPT ![i] = w],
           w.pc \in {"preflight", "session", "record", "raising"},
           w.sess = worker[i].sess, w.saw = worker[i].saw
    PROVE  RowInv'
<1>1. RecordSound(session, i, w) /\ KeepsRun(i, w)
  BY WorkerNow DEF RecordSound, KeepsRun, HoldsRow, Running
<1> QED BY <1>1, WorkerTurns

LEMMA Failed ==
    ASSUME RowInv, NEW i \in Issues, worker[i].pc \in {"prep", "preflight", "session"},
           KeepsTable, NEW status \in {"failed", "timeout"}, Fail(i, status)
    PROVE  RowInv'
<1> DEFINE w == [worker[i] EXCEPT !.pc = "record", !.status = status, !.pr = FALSE]
<1>1. worker' = [worker EXCEPT ![i] = w]
  BY WorkerNow DEF Fail
<1>2. w \in Workers /\ w.pc = "record" /\ w.sess = worker[i].sess /\ w.saw = worker[i].saw
  <2>1. worker[i] \in Workers
    BY WorkerNow
  <2>2. /\ "record" \in Working /\ FALSE \in BOOLEAN
        /\ status \in {"none", "open", "merged", "no_pr", "failed", "timeout"}
    BY DEF Working, Running
  <2> QED BY <2>1, <2>2 DEF Workers
<1> HIDE DEF w
<1> QED BY <1>1, <1>2, RunTurns

LEMMA WorktreeTyped ==
    ASSUME NEW t \in Trees
    PROVE  /\ Planted \in Trees
           /\ \A u \in _remove_existing_worktree(t) : u \in Trees
           /\ \A u \in quarantine_if_blocking(t) : u \in Trees
  BY DEF Trees, Planted, _remove_existing_worktree, quarantine_if_blocking

LEMMA PrepInv ==
    ASSUME RowInv, NEW i \in Issues, prep_worktree(i) PROVE RowInv'
<1>1. PICK t \in _remove_existing_worktree(tree[i]) : \E q \in quarantine_if_blocking(t) :
          /\ IF t.registered THEN Fault ELSE UNCHANGED faults
          /\ \/ /\ AddWorktree(q)
                /\ tree' = [tree EXCEPT ![i] = Planted]
                /\ worker' = [worker EXCEPT ![i].pc = "preflight", ![i].told = FALSE,
                                            ![i].final = "none"]
             \/ /\ ~AddWorktree(q)
                /\ tree' = [tree EXCEPT ![i] = q]
                /\ Fail(i, "failed")
  BY DEF prep_worktree
<1>2. PICK q \in quarantine_if_blocking(t) :
          \/ /\ tree' = [tree EXCEPT ![i] = Planted]
             /\ worker' = [worker EXCEPT ![i].pc = "preflight", ![i].told = FALSE,
                                         ![i].final = "none"]
          \/ /\ tree' = [tree EXCEPT ![i] = q]
             /\ Fail(i, "failed")
  BY <1>1
<1>3. tree[i] \in Trees /\ t \in Trees
  BY <1>1, WorkerNow, WorktreeTyped
<1>4. q \in Trees /\ Planted \in Trees
  BY <1>3, WorktreeTyped
<1>5. tree' \in [Issues -> Trees]
  BY <1>2, <1>4, WorkerNow
<1>6. faults' \in 0..MaxFaults
  BY <1>1, WorkerNow, FaultTyped DEF RowInv
<1>7. worker[i].pc = "prep" /\ KeepsTable
  BY <1>5, <1>6, WorkerNow DEF prep_worktree, KeepsTable, table
<1>8. CASE worker' = [worker EXCEPT ![i].pc = "preflight", ![i].told = FALSE, ![i].final = "none"]
  <2> DEFINE w == [worker[i] EXCEPT !.pc = "preflight", !.told = FALSE, !.final = "none"]
  <2>1. worker' = [worker EXCEPT ![i] = w]
    BY <1>8, WorkerNow
  <2>2. w \in Workers /\ w.pc = "preflight" /\ w.sess = worker[i].sess /\ w.saw = worker[i].saw
    <3>1. worker[i] \in Workers
      BY WorkerNow
    <3>2. "preflight" \in Working /\ FALSE \in BOOLEAN /\ "none" \in {"none", "silent", "names"}
      BY DEF Working, Running
    <3> QED BY <3>1, <3>2 DEF Workers
  <2> HIDE DEF w
  <2> QED BY <1>7, <2>1, <2>2, RunTurns
<1>9. CASE Fail(i, "failed")
  BY <1>7, <1>9, Failed
<1> QED BY <1>2, <1>8, <1>9

LEMMA PreflightInv ==
    ASSUME RowInv, NEW i \in Issues, _preflight_worker_env(i) PROVE RowInv'
<1>1. worker[i].pc = "preflight" /\ KeepsTable
  BY WorkerNow, FaultTyped DEF _preflight_worker_env, KeepsTable, table, RowInv
<1>2. CASE Fail(i, "failed")
  BY <1>1, <1>2, Failed
<1>3. CASE worker' = [worker EXCEPT ![i].pc = "session"]
  <2> DEFINE w == [worker[i] EXCEPT !.pc = "session"]
  <2>1. worker' = [worker EXCEPT ![i] = w]
    BY <1>3, WorkerNow
  <2>2. w \in Workers /\ w.pc = "session" /\ w.sess = worker[i].sess /\ w.saw = worker[i].saw
    BY WorkerNow DEF Workers, Working, Running
  <2> HIDE DEF w
  <2> QED BY <1>1, <2>1, <2>2, RunTurns
<1> QED BY <1>2, <1>3 DEF _preflight_worker_env

LEMMA OpensInv ==
    ASSUME RowInv, NEW i \in Issues, OpensPull(i) PROVE RowInv'
<1>1. worker' = [worker EXCEPT ![i] = worker[i]]
  BY WorkerNow DEF OpensPull
<1>2. worker[i].pc = "session" /\ KeepsTable
  BY WorkerNow DEF OpensPull, InSession, KeepsTable, table, bounds
<1> QED BY <1>1, <1>2, WorkerNow, RunTurns

LEMMA TellsInv ==
    ASSUME RowInv, NEW i \in Issues, TellsUrl(i) PROVE RowInv'
<1> DEFINE w == [worker[i] EXCEPT !.told = TRUE]
<1>1. worker' = [worker EXCEPT ![i] = w]
  BY WorkerNow DEF TellsUrl
<1>2. worker[i].pc = "session" /\ KeepsTable
  BY WorkerNow DEF TellsUrl, InSession, KeepsTable, table, bounds
<1>3. w \in Workers /\ w.pc = "session" /\ w.sess = worker[i].sess /\ w.saw = worker[i].saw
  BY <1>2, WorkerNow DEF Workers
<1> HIDE DEF w
<1> QED BY <1>1, <1>2, <1>3, RunTurns

LEMMA ResultInv ==
    ASSUME RowInv, NEW i \in Issues, ResultMessage(i) PROVE RowInv'
<1>1. PICK final \in {"silent", "names"} : worker' = [worker EXCEPT ![i].final = final]
  BY DEF ResultMessage
<1> DEFINE w == [worker[i] EXCEPT !.final = final]
<1>2. worker' = [worker EXCEPT ![i] = w]
  BY <1>1, WorkerNow
<1>3. worker[i].pc = "session" /\ KeepsTable
  BY WorkerNow DEF ResultMessage, InSession, KeepsTable, table, bounds
<1>4. w \in Workers /\ w.pc = "session" /\ w.sess = worker[i].sess /\ w.saw = worker[i].saw
  BY <1>3, WorkerNow DEF Workers
<1> HIDE DEF w
<1> QED BY <1>2, <1>3, <1>4, RunTurns

(* However the session ends, its worker goes on to record an outcome. *)
LEMMA EndsInv ==
    ASSUME RowInv, NEW i \in Issues, KeepsTable, worker[i].pc = "session",
           NEW pc \in {"record", "raising"}, NEW pr \in BOOLEAN,
           NEW status \in {"open", "no_pr", "failed"},
           worker' = [worker EXCEPT ![i].pc = pc, ![i].status = status, ![i].pr = pr]
    PROVE  RowInv'
<1> DEFINE w == [worker[i] EXCEPT !.pc = pc, !.status = status, !.pr = pr]
<1>1. worker' = [worker EXCEPT ![i] = w]
  BY WorkerNow
<1>2. pc \in Working /\ status \in {"none", "open", "merged", "no_pr", "failed", "timeout"}
  BY DEF Working, Running
<1>3. w \in Workers /\ w.pc = pc /\ w.sess = worker[i].sess /\ w.saw = worker[i].saw
  <2>1. worker[i] \in Workers
    BY WorkerNow
  <2> QED BY <1>2, <2>1 DEF Workers
<1> HIDE DEF w
<1> QED BY <1>1, <1>3, RunTurns

LEMMA SdkInv ==
    ASSUME RowInv, NEW i \in Issues, run_sdk_session(i) PROVE RowInv'
<1>1. worker[i].pc = "session" /\ KeepsTable
  BY WorkerNow DEF run_sdk_session, InSession, KeepsTable, table, bounds
<1>2. PICK pr \in BOOLEAN, status \in {"open", "no_pr", "failed"} :
         worker' = [worker EXCEPT ![i].pc = "record", ![i].pr = pr, ![i].status = status]
  BY DEF run_sdk_session
<1>3. worker' = [worker EXCEPT ![i].pc = "record", ![i].status = status, ![i].pr = pr]
  BY <1>2, WorkerNow
<1> QED BY <1>1, <1>3, EndsInv

LEMMA CodexInv ==
    ASSUME RowInv, NEW i \in Issues, _run_worker_codex(i) PROVE RowInv'
<1>1. worker[i].pc = "session" /\ KeepsTable
  BY WorkerNow DEF _run_worker_codex, InSession, KeepsTable, table, bounds
<1>2. CASE Fail(i, "timeout")
  BY <1>1, <1>2, Failed
<1>3. CASE ~Fail(i, "timeout")
  <2>1. PICK pr \in BOOLEAN, status \in {"open", "no_pr", "failed"} :
           worker' = [worker EXCEPT ![i].pc = "record", ![i].pr = pr, ![i].status = status]
    BY <1>3 DEF _run_worker_codex
  <2>2. worker' = [worker EXCEPT ![i].pc = "record", ![i].status = status, ![i].pr = pr]
    BY <2>1, WorkerNow
  <2> QED BY <1>1, <2>2, EndsInv
<1> QED BY <1>2, <1>3

LEMMA RaisesInv ==
    ASSUME RowInv, NEW i \in Issues, RunRaises(i) PROVE RowInv'
<1>1. worker[i].pc = "session" /\ KeepsTable
  BY WorkerNow, FaultTyped DEF RunRaises, InSession, KeepsTable, table, RowInv
<1>2. worker[i].told \in BOOLEAN
  BY WorkerNow DEF Workers
<1>3. worker' = [worker EXCEPT ![i].pc = "raising", ![i].status = "failed",
                              ![i].pr = worker[i].told]
  BY DEF RunRaises
<1> QED BY <1>1, <1>2, <1>3, EndsInv

-----------------------------------------------------------------------------
(* A worker writes its row, or opens one. *)

(* In a tick, what is true of the table while nobody else is at a row. *)
LEMMA TickInv ==
    ASSUME RowInv, phase = "tick", UNCHANGED <<phase, move, todo>>
    PROVE  MoveSound' /\ TodoSound' /\ WalkComplete'
<1>1. move' = NoMove /\ todo' = {} /\ phase' = "tick"
  BY TickQuiet
<1> QED BY <1>1 DEF MoveSound, TodoSound, WalkComplete

(* What a new version of a row keeps, whoever writes it. *)
Supersedes(r, s) ==
    /\ r \in Rows /\ s \in DOMAIN session /\ session' = [session EXCEPT ![s] = r]
    /\ r.issue = session[s].issue
    /\ r.state \in Fsm!Terminal \/ session[s].state \notin Fsm!Terminal
    /\ r.state \in {"awaiting_critic", "revising", "merged"} => r.pr

LEMMA Rewritten ==
    ASSUME RowInv, NEW s, NEW r, Supersedes(r, s)
    PROVE  /\ session' \in Seq(Rows) /\ Len(session') = Len(session)
           /\ DOMAIN session' = DOMAIN session /\ s \in DOMAIN session /\ session'[s] = r
           /\ \A t \in DOMAIN session \ {s} : session'[t] = session[t]
           /\ OneLiveSession' /\ HandoffHasUrl'
<1>1. session \in Seq(Rows) /\ s \in DOMAIN session
  BY DEF RowInv, SessionTypeOK, Supersedes
<1>2. /\ session' \in Seq(Rows) /\ Len(session') = Len(session)
      /\ DOMAIN session' = DOMAIN session /\ session'[s] = r
      /\ \A t \in DOMAIN session \ {s} : session'[t] = session[t]
  BY <1>1, SetRow DEF Supersedes
<1>3. OneLiveSession' /\ HandoffHasUrl'
  BY <1>1, <1>2 DEF RowInv, OneLiveSession, HandoffHasUrl, is_terminal, Supersedes
<1> QED BY <1>1, <1>2, <1>3

LEMMA WorkerRewrites ==
    ASSUME RowInv, NEW i \in Issues, phase = "tick", worker[i].pc \in HoldsRow,
           NEW r, Supersedes(r, worker[i].sess), r.rounds = session[worker[i].sess].rounds,
           NEW w \in Workers, worker' = [worker EXCEPT ![i] = w], RecordSound(session', i, w),
           r.state = "running" => w.sess = worker[i].sess /\ w.pc \in Running,
           UNCHANGED <<tree, pull, phase, todo, move, skipped, revisions, uncapped, bounds>>
    PROVE  RowInv'
<1>0. PICK s : s = worker[i].sess
  OBVIOUS
<1>1. s \in DOMAIN session /\ session[s].issue = i /\ session \in Seq(Rows)
  BY <1>0, WorkerNow DEF RecordSound, RowInv, SessionTypeOK
<1>2. /\ session' \in Seq(Rows) /\ Len(session') = Len(session)
      /\ DOMAIN session' = DOMAIN session /\ session'[s] = r
      /\ \A t \in DOMAIN session \ {s} : session'[t] = session[t]
      /\ OneLiveSession' /\ HandoffHasUrl'
  BY <1>0, Rewritten
<1>3. worker' \in [Issues -> Workers] /\ worker'[i] = w
      /\ \A j \in Issues \ {i} : worker'[j] = worker[j]
  BY WorkerNow, WorkerBecomes
<1>4. SessionTypeOK'
  BY <1>2, <1>3 DEF RowInv, SessionTypeOK, bounds
<1>5. ASSUME NEW j \in Issues PROVE WorkerSound(j)'
  <2>1. CASE j = i
    BY <1>3, <2>1 DEF WorkerSound
  <2>2. CASE j # i
    <3>1. worker'[j] = worker[j] /\ RecordSound(session, j, worker[j])
      BY <1>3, <2>2, WorkerNow
    <3>2. worker[j].pc \in HoldsRow =>
              worker[j].sess \in DOMAIN session /\ session'[worker[j].sess] = session[worker[j].sess]
      BY <1>1, <1>2, <2>2, <3>1 DEF RecordSound
    <3>3. RecordSound(session', j, worker[j])
      BY <1>2, <3>1, <3>2 DEF RecordSound, HoldsRow, Running
    <3> QED BY <3>1, <3>3 DEF WorkerSound
  <2> QED BY <2>1, <2>2
<1>6. MoveSound' /\ TodoSound' /\ WalkComplete'
  BY TickInv
<1>7. CountsSound'
  BY <1>0, <1>1, <1>2 DEF RowInv, CountsSound, RevisionsAreCounted
<1>8. RunningIsRun'
  <2> SUFFICES ASSUME ~skipped, NEW t \in DOMAIN session, session'[t].state = "running"
               PROVE  \E j \in Issues : worker'[j].sess = t /\ worker'[j].pc \in Running
    BY <1>2 DEF RunningIsRun
  <2>1. CASE t = s
    BY <1>0, <1>2, <1>3, <2>1
  <2>2. CASE t # s
    <3>1. PICK j \in Issues : worker[j].sess = t /\ worker[j].pc \in Running
      BY <1>2, <2>2 DEF RowInv, RunningIsRun
    <3>2. j # i
      BY <1>0, <2>2, <3>1
    <3> QED BY <1>3, <3>1, <3>2
  <2> QED BY <2>1, <2>2
<1> QED BY <1>2, <1>4, <1>5, <1>6, <1>7, <1>8 DEF RowInv

LEMMA WorkerWritesInv ==
    ASSUME RowInv, NEW i \in Issues, WorkerWrites(i) PROVE RowInv'
<1>1. worker[i].pc \in {"marking", "recording", "closing"} /\ phase = "tick"
      /\ UNCHANGED <<tree, pull, phase, todo, move, skipped, revisions, uncapped, bounds>>
  BY DEF WorkerWrites
<1>2. worker[i] \in Workers /\ RecordSound(session, i, worker[i]) /\ session \in Seq(Rows)
  BY WorkerNow DEF RowInv, SessionTypeOK
<1>0. PICK s, to : s = worker[i].sess /\ to = worker[i].to
  OBVIOUS
<1>3. PICK pc \in {"prep", "done", "raised"} :
         /\ session' = [session EXCEPT ![s].state = to]
         /\ worker' = [worker EXCEPT ![i].saw = to, ![i].to = "none", ![i].pc = pc]
         /\ pc = "prep" <=> worker[i].pc = "marking"
  BY <1>0, <1>1 DEF WorkerWrites, WriteState
<1>4. /\ s \in DOMAIN session /\ session[s].issue = i
      /\ session[s].state \in {"dispatched", "running"}
      /\ to \in {"running", "abandoned", "awaiting_critic"}
      /\ to = "running" <=> worker[i].pc = "marking"
      /\ to = "awaiting_critic" => session[s].pr
  BY <1>0, <1>1, <1>2, <1>3 DEF RecordSound, HoldsRow, Running
<1>5. to \in Fsm!States /\ ~is_terminal(session[s].state)
      /\ pc \in Working \cup {"idle", "done", "raised"}
  BY <1>3, <1>4 DEF Fsm!States, Fsm!Terminal, is_terminal, Working, Running
<1>6. PICK w : w = [worker[i] EXCEPT !.saw = to, !.to = "none", !.pc = pc]
  OBVIOUS
<1>7. w \in Workers /\ w.pc = pc /\ w.to = "none" /\ w.saw = to /\ w.sess = s
  BY <1>0, <1>2, <1>3, <1>5, <1>6 DEF Workers
<1>8. worker' = [worker EXCEPT ![i] = w]
  BY <1>3, <1>6, WorkerNow
<1>9. PICK r : r = [session[s] EXCEPT !.state = to]
  OBVIOUS
<1>10. session[s] \in Rows
  BY <1>2, <1>4, RowTyped
<1>11. /\ r \in Rows /\ r.state = to /\ r.issue = i /\ r.pr = session[s].pr
       /\ r.rounds = session[s].rounds
  BY <1>4, <1>5, <1>9, <1>10 DEF Rows
<1>12. session' = [session EXCEPT ![s] = r]
  BY <1>2, <1>3, <1>4, <1>9
<1>13. session'[s] = r /\ DOMAIN session' = DOMAIN session
  BY <1>2, <1>4, <1>11, <1>12, SetRow
<1>14. RecordSound(session', i, w)
  BY <1>0, <1>3, <1>4, <1>7, <1>11, <1>13 DEF RecordSound, HoldsRow, Running
<1>15. r.state = "running" => w.sess = s /\ w.pc \in Running
  BY <1>3, <1>4, <1>7, <1>11 DEF Running
<1>16. Supersedes(r, s)
  BY <1>4, <1>5, <1>11, <1>12 DEF Supersedes, is_terminal
<1>17. worker[i].pc \in HoldsRow
  BY <1>1 DEF HoldsRow, Running
<1> QED BY <1>0, <1>1, <1>7, <1>8, <1>11, <1>14, <1>15, <1>16, <1>17, WorkerRewrites

LEMMA RecordInv ==
    ASSUME RowInv, NEW i \in Issues, record_outcome(i) PROVE RowInv'
<1>1. worker[i].pc \in {"record", "url", "raising"} /\ phase = "tick"
      /\ UNCHANGED <<tree, pull, phase, todo, move, skipped, revisions, uncapped, bounds>>
  BY DEF record_outcome
<1>2. worker[i] \in Workers /\ RecordSound(session, i, worker[i]) /\ session \in Seq(Rows)
  BY WorkerNow DEF RowInv, SessionTypeOK
<1>3. /\ worker[i].sess \in DOMAIN session /\ session[worker[i].sess].issue = i
      /\ session[worker[i].sess].state = worker[i].saw
      /\ worker[i].pc = "url" => session[worker[i].sess].pr
  BY <1>1, <1>2 DEF RecordSound, HoldsRow, Running
<1>4. PICK pc \in {"raised", "done", "url", "recording", "closing"},
           to \in {"none", "awaiting_critic", "abandoned"} :
         /\ worker' = [worker EXCEPT ![i].to = to, ![i].pc = pc]
         /\ \/ worker[i].saw # "running" /\ pc \in {"raised", "done"} /\ UNCHANGED session
            \/ worker[i].saw = "running" /\ pc = "url" /\ set_pr_url(worker[i].sess)
            \/ /\ worker[i].saw = "running" /\ pc \in {"recording", "closing"}
               /\ to = "none" => FALSE
               /\ to = "awaiting_critic" => worker[i].pc = "url"
               /\ UNCHANGED session
  <2>1. CASE worker[i].saw # "running"
    BY <2>1 DEF record_outcome
  <2>2. CASE worker[i].saw = "running" /\ set_pr_url(worker[i].sess)
                /\ worker' = [worker EXCEPT ![i].to = "none", ![i].pc = "url"]
    BY <2>2
  <2>3. CASE worker[i].saw = "running" /\ worker[i].pc = "url" /\ UNCHANGED session
                /\ worker' = [worker EXCEPT ![i].to = "awaiting_critic", ![i].pc = "recording"]
    BY <2>3
  <2>4. CASE worker[i].saw = "running" /\ UNCHANGED session
                /\ \E pc \in {"recording", "closing"} :
                      worker' = [worker EXCEPT ![i].to = "abandoned", ![i].pc = pc]
    BY <2>4
  <2> QED BY <2>1, <2>2, <2>3, <2>4 DEF record_outcome
<1>5. PICK w : w = [worker[i] EXCEPT !.to = to, !.pc = pc]
  OBVIOUS
<1>6. to \in Fsm!States \cup {"none"} /\ pc \in Working \cup {"idle", "done", "raised"}
  BY <1>4 DEF Fsm!States, Working, Running
<1>7. w \in Workers /\ w.pc = pc /\ w.to = to /\ w.saw = worker[i].saw /\ w.sess = worker[i].sess
  BY <1>2, <1>5, <1>6 DEF Workers
<1>8. worker' = [worker EXCEPT ![i] = w]
  BY <1>4, <1>5, WorkerNow
<1>9. CASE pc # "url" /\ UNCHANGED session
  <2>1. KeepsTable
    BY <1>1, <1>9, WorkerNow DEF KeepsTable, bounds
  <2>2. RecordSound(session, i, w)
    BY <1>3, <1>4, <1>7, <1>9 DEF RecordSound, HoldsRow, Running
  <2>3. KeepsRun(i, w)
    BY <1>4, <1>7 DEF KeepsRun, Running
  <2> QED BY <1>7, <1>8, <2>1, <2>2, <2>3, WorkerTurns
<1>10. CASE worker[i].saw = "running" /\ pc = "url" /\ set_pr_url(worker[i].sess)
  <2>1. PICK s, r : s = worker[i].sess /\ r = [session[s] EXCEPT !.pr = TRUE]
    OBVIOUS
  <2>2. session[s] \in Rows
    BY <1>2, <1>3, <2>1, RowTyped
  <2>3. /\ r \in Rows /\ r.state = "running" /\ r.issue = i /\ r.pr = TRUE
        /\ r.rounds = session[s].rounds
    BY <1>3, <1>10, <2>1, <2>2 DEF Rows
  <2>4. session' = [session EXCEPT ![s] = r]
    BY <1>2, <1>3, <1>10, <2>1 DEF set_pr_url
  <2>5. session'[s] = r /\ DOMAIN session' = DOMAIN session
    BY <1>2, <1>3, <2>1, <2>3, <2>4, SetRow
  <2>6. RecordSound(session', i, w)
    BY <1>3, <1>7, <1>10, <2>1, <2>3, <2>5 DEF RecordSound, HoldsRow, Running
  <2>7. r.state = "running" => w.sess = s /\ w.pc \in Running
    BY <1>7, <1>10, <2>1 DEF Running
  <2>8. Supersedes(r, s)
    BY <1>3, <1>10, <2>1, <2>3, <2>4 DEF Supersedes, Fsm!Terminal
  <2>9. worker[i].pc \in HoldsRow
    BY <1>1 DEF HoldsRow, Running
  <2> QED BY <1>1, <1>7, <1>8, <2>1, <2>3, <2>6, <2>7, <2>8, <2>9, WorkerRewrites
<1> QED BY <1>4, <1>9, <1>10

(* The session an issue is resumed on is the only one that is not over. *)
LEMMA NewestIs ==
    ASSUME RowInv, NEW i \in Issues,
           NEW live, live = {s \in by_issue(i) : ~is_terminal(session[s].state)}, live # {}
    PROVE  Newest(live) \in live
<1>1. PICK n \in live : TRUE
  OBVIOUS
<1>2. \A other \in live : other = n
  BY <1>1 DEF RowInv, OneLiveSession, by_issue
<1>3. n \in live /\ \A other \in live : other <= n
  <2>1. n \in Nat
    BY <1>1 DEF by_issue, RowInv, SessionTypeOK
  <2> QED BY <1>1, <1>2, <2>1
<1> QED BY <1>3 DEF Newest

LEMMA CreateInv ==
    ASSUME RowInv, NEW i \in Issues, phase = "tick", worker[i].pc = "seed",
           \A s \in by_issue(i) : is_terminal(session[s].state),
           Len(session) < MaxSessions, create(i),
           worker' = [worker EXCEPT ![i].pc = "mark", ![i].sess = Len(session) + 1,
                                    ![i].saw = "dispatched"],
           UNCHANGED <<tree, pull, phase, todo, move, skipped, revisions, uncapped, bounds>>
    PROVE  RowInv'
<1>1. session \in Seq(Rows) /\ worker[i] \in Workers /\ MaxSessions \in Nat /\ Cap \in Nat
      /\ worker \in [Issues -> Workers] /\ Len(session) \in Nat
      /\ DOMAIN session = 1..Len(session)
  BY WorkerNow, SessionAssumption DEF RowInv, SessionTypeOK
<1>2. PICK n, r, w :
         /\ n = Len(session) + 1
         /\ r = [issue |-> i, state |-> "dispatched", pr |-> FALSE, rounds |-> 0]
         /\ w = [worker[i] EXCEPT !.pc = "mark", !.sess = n, !.saw = "dispatched"]
  OBVIOUS
<1>3. r \in Rows /\ r.issue = i /\ r.state = "dispatched" /\ r.rounds = 0
  BY <1>2 DEF Rows, Fsm!States
<1>4. /\ session' \in Seq(Rows) /\ Len(session') = n
      /\ DOMAIN session' = DOMAIN session \cup {n}
      /\ n \notin DOMAIN session /\ session'[n] = r
      /\ \A t \in DOMAIN session : session'[t] = session[t]
  BY <1>1, <1>2, <1>3, AddRow DEF create
<1>5. n \in 1..MaxSessions
  BY <1>1, <1>2
<1>6. w \in Workers /\ w.pc = "mark" /\ w.sess = n /\ w.saw = "dispatched"
  <2>1. n \in 0..MaxSessions /\ "dispatched" \in Fsm!States /\ "mark" \in Working
    BY <1>1, <1>5 DEF Fsm!States, Working
  <2> QED BY <1>1, <1>2, <2>1 DEF Workers
<1>7. worker' = [worker EXCEPT ![i] = w]
  BY <1>1, <1>2
<1>8. worker' \in [Issues -> Workers] /\ worker'[i] = w
      /\ \A j \in Issues \ {i} : worker'[j] = worker[j]
  BY <1>1, <1>6, <1>7, WorkerBecomes
<1>9. SessionTypeOK'
  BY <1>4, <1>5, <1>8 DEF RowInv, SessionTypeOK, bounds
<1>10. ASSUME NEW j \in Issues PROVE WorkerSound(j)'
  <2>1. CASE j = i
    <3>1. RecordSound(session', i, w)
      BY <1>3, <1>4, <1>6 DEF RecordSound
    <3> QED BY <1>8, <2>1, <3>1 DEF WorkerSound
  <2>2. CASE j # i
    <3>1. worker'[j] = worker[j] /\ RecordSound(session, j, worker[j])
      BY <1>8, <2>2, WorkerNow
    <3>2. RecordSound(session', j, worker[j])
      BY <1>4, <3>1 DEF RecordSound, HoldsRow, Running
    <3> QED BY <3>1, <3>2 DEF WorkerSound
  <2> QED BY <2>1, <2>2
<1>11. MoveSound' /\ TodoSound' /\ WalkComplete'
  BY TickInv
<1>12. CountsSound'
  BY <1>1, <1>3, <1>4, <1>5 DEF RowInv, CountsSound, RevisionsAreCounted
<1>13. OneLiveSession'
  BY <1>1, <1>3, <1>4 DEF RowInv, OneLiveSession, by_issue
<1>14. HandoffHasUrl'
  BY <1>3, <1>4 DEF RowInv, HandoffHasUrl
<1>15. RunningIsRun'
  <2> SUFFICES ASSUME ~skipped, NEW t \in DOMAIN session', session'[t].state = "running"
               PROVE  \E j \in Issues : worker'[j].sess = t /\ worker'[j].pc \in Running
    BY DEF RunningIsRun
  <2>1. t \in DOMAIN session /\ session[t].state = "running"
    BY <1>3, <1>4
  <2>2. PICK j \in Issues : worker[j].sess = t /\ worker[j].pc \in Running
    BY <2>1 DEF RowInv, RunningIsRun
  <2>3. j # i
    BY <2>2 DEF Running
  <2> QED BY <1>8, <2>2, <2>3
<1> QED BY <1>9, <1>10, <1>11, <1>12, <1>13, <1>14, <1>15 DEF RowInv

LEMMA ResumeInv ==
    ASSUME RowInv, NEW i \in Issues, get_or_resume_session(i) PROVE RowInv'
<1>1. /\ phase = "tick" /\ worker[i].pc = "seed"
      /\ UNCHANGED <<tree, pull, phase, todo, move, skipped, revisions, uncapped, bounds>>
  BY DEF get_or_resume_session
<1>2. PICK live : live = {s \in by_issue(i) : ~is_terminal(session[s].state)}
  OBVIOUS
<1>3. CASE UNCHANGED session /\ worker' = [worker EXCEPT ![i].pc = "raised"]
  <2>1. KeepsTable
    BY <1>1, <1>3, WorkerNow DEF KeepsTable, bounds
  <2>2. PICK w : w = [worker[i] EXCEPT !.pc = "raised"]
    OBVIOUS
  <2>3. w \in Workers /\ w.pc = "raised"
    BY <2>2, WorkerNow DEF Workers
  <2>4. worker' = [worker EXCEPT ![i] = w]
    BY <1>3, <2>2, WorkerNow
  <2>5. RecordSound(session, i, w) /\ KeepsRun(i, w)
    BY <1>1, <2>3 DEF RecordSound, KeepsRun, HoldsRow, Running
  <2> QED BY <2>1, <2>3, <2>4, <2>5, WorkerTurns
<1>4. CASE /\ live # {} /\ UNCHANGED session
           /\ worker' = [worker EXCEPT ![i].pc = "mark", ![i].sess = Newest(live),
                                       ![i].saw = session[Newest(live)].state]
  <2>1. KeepsTable
    BY <1>1, <1>4, WorkerNow DEF KeepsTable, bounds
  <2>2. PICK n : n = Newest(live)
    OBVIOUS
  <2>3. n \in DOMAIN session /\ session[n].issue = i
    BY <1>2, <1>4, <2>2, NewestIs DEF by_issue
  <2>4. session[n] \in Rows /\ n \in 0..MaxSessions
    BY <2>3, RowTyped, SessionAssumption DEF RowInv, SessionTypeOK
  <2>5. session[n].state \in Fsm!States
    BY <2>4 DEF Rows
  <2>6. PICK w : w = [worker[i] EXCEPT !.pc = "mark", !.sess = n, !.saw = session[n].state]
    OBVIOUS
  <2>7. w \in Workers /\ w.pc = "mark" /\ w.sess = n /\ w.saw = session[n].state
    BY <2>4, <2>5, <2>6, WorkerNow DEF Workers, Working
  <2>8. worker' = [worker EXCEPT ![i] = w]
    BY <1>4, <2>2, <2>6, WorkerNow
  <2>9. RecordSound(session, i, w) /\ KeepsRun(i, w)
    BY <1>1, <2>3, <2>7 DEF RecordSound, KeepsRun, Running
  <2> QED BY <2>1, <2>7, <2>8, <2>9, WorkerTurns
<1>5. CASE /\ live = {} /\ Len(session) < MaxSessions /\ create(i)
           /\ worker' = [worker EXCEPT ![i].pc = "mark", ![i].sess = Len(session) + 1,
                                       ![i].saw = "dispatched"]
  BY <1>1, <1>2, <1>5, CreateInv
<1> QED BY <1>2, <1>3, <1>4, <1>5 DEF get_or_resume_session

-----------------------------------------------------------------------------
(* The loop: the critic's verdict, the recovery walk, a death.               *)

LEMMA TableKept ==
    ASSUME RowInv, UNCHANGED <<session, revisions, uncapped>>
    PROVE  CountsSound' /\ OneLiveSession' /\ HandoffHasUrl'
  BY DEF RowInv, CountsSound, RevisionsAreCounted, OneLiveSession, HandoffHasUrl

LEMMA IdleSound ==
    ASSUME \A i \in Issues : worker'[i].pc = "idle"
    PROVE  \A i \in Issues : WorkerSound(i)'
  BY DEF WorkerSound, RecordSound, HoldsRow, Running

(* A death, or the end of a tick. *)
LEMMA AllIdle ==
    ASSUME worker' = [i \in Issues |-> Idle]
    PROVE  /\ worker' \in [Issues -> Workers]
           /\ \A i \in Issues : worker'[i].pc = "idle"
  BY IdleTyped DEF Idle

LEMMA NobodyRuns ==
    ASSUME RowInv, phase \in {"tick", "review"}, ~skipped,
           \A i \in Issues : worker[i].pc \notin Running
    PROVE  \A s \in DOMAIN session : session[s].state # "running"
  BY DEF RowInv, RunningIsRun

LEMMA DrainInv == ASSUME RowInv, DrainPool PROVE RowInv'
<1>1. /\ phase = "tick" /\ phase' \in {"down", "review"}
      /\ worker' = [i \in Issues |-> Idle]
      /\ UNCHANGED <<table, tree, pull, todo, move, bounds>>
      /\ \A i \in Issues : worker[i].pc \notin Running
  BY DEF DrainPool, Running
<1>2. move' = NoMove /\ todo' = {}
  BY <1>1, TickQuiet
<1>3. SessionTypeOK'
  BY <1>1, AllIdle DEF RowInv, SessionTypeOK, table, bounds
<1>4. \A i \in Issues : WorkerSound(i)'
  BY <1>1, AllIdle, IdleSound
<1>5. MoveSound' /\ TodoSound' /\ WalkComplete'
  BY <1>1, <1>2 DEF MoveSound, TodoSound, WalkComplete
<1>6. CountsSound' /\ OneLiveSession' /\ HandoffHasUrl'
  BY <1>1, TableKept DEF table
<1>7. RunningIsRun'
  BY <1>1, NobodyRuns DEF RunningIsRun, table
<1> QED BY <1>3, <1>4, <1>5, <1>6, <1>7 DEF RowInv

(* The critic takes up a row. *)
LEMMA JudgedNow ==
    ASSUME RowInv, NEW s \in DOMAIN session, Judged(s)
    PROVE  /\ phase = "review" /\ todo = {} /\ session[s].state = "awaiting_critic"
           /\ session[s].pr /\ session[s] \in Rows /\ s \in 1..MaxSessions
           /\ \A i \in Issues : worker[i].pc = "idle"
           /\ verdicts + 1 \in 0..MaxVerdicts
<1>1. phase = "review" /\ session[s].state = "awaiting_critic"
  BY DEF Judged
<1>2. session[s] \in Rows /\ s \in 1..MaxSessions
  BY RowTyped, SessionAssumption DEF RowInv, SessionTypeOK
<1>3. verdicts + 1 \in 0..MaxVerdicts
  BY SessionAssumption DEF RowInv, SessionTypeOK, Judged
<1> QED BY <1>1, <1>2, <1>3, OutOfTick DEF RowInv, TodoSound, HandoffHasUrl

(* A verdict that sends nothing back. *)
LEMMA OverInv ==
    ASSUME RowInv, NEW s \in DOMAIN session, Judged(s),
           UNCHANGED <<session, revisions, uncapped, skipped, tree, pull, phase, worker, todo,
                       deaths, faults>>,
           verdicts' = verdicts + 1,
           \/ UNCHANGED move
           \/ \E to \in {"merged", "abandoned"} :
                 move' = [sess |-> s, to |-> to] /\ MayMove(s, to)
    PROVE  RowInv'
<1>2. /\ phase = "review" /\ todo = {} /\ session[s].pr /\ s \in 1..MaxSessions
      /\ \A i \in Issues : worker[i].pc = "idle"
      /\ verdicts' \in 0..MaxVerdicts
  BY JudgedNow
<1>3. MoveSound' /\ move' \in [sess : 0..MaxSessions, to : Fsm!States \cup {"none"}]
  <2>1. CASE UNCHANGED move
    BY <2>1 DEF RowInv, SessionTypeOK, MoveSound, MayMove
  <2>2. CASE ~UNCHANGED move
    <3>1. PICK to \in {"merged", "abandoned"} :
             move' = [sess |-> s, to |-> to] /\ MayMove(s, to)
      BY <2>2
    <3>2. move'.sess = s /\ move'.to = to
      BY <3>1
    <3>3. MoveSound'
      BY <1>2, <3>1, <3>2 DEF MoveSound, MayMove
    <3> QED BY <1>2, <3>1, <3>3 DEF Fsm!States
  <2> QED BY <2>1, <2>2
<1>4. SessionTypeOK'
  BY <1>2, <1>3 DEF RowInv, SessionTypeOK
<1>5. \A i \in Issues : WorkerSound(i)'
  BY <1>2, IdleSound
<1>6. TodoSound' /\ WalkComplete'
  BY <1>2 DEF TodoSound, WalkComplete
<1>7. CountsSound' /\ OneLiveSession' /\ HandoffHasUrl'
  BY TableKept
<1>8. RunningIsRun'
  BY DEF RowInv, RunningIsRun
<1> QED BY <1>3, <1>4, <1>5, <1>6, <1>7, <1>8 DEF RowInv

(* A verdict that sends the session back: under the cap, or by the handler   *)
(* that does not look at it.                                                 *)
LEMMA SentBackInv ==
    ASSUME RowInv, NEW s \in DOMAIN session, Judged(s),
           UNCHANGED <<revisions, skipped, tree, pull, phase, worker, todo, deaths, faults>>,
           verdicts' = verdicts + 1,
           increment_iterations(s), move' = [sess |-> s, to |-> "revising"],
           \/ session[s].rounds < Cap /\ uncapped' = uncapped
           \/ uncapped' = [uncapped EXCEPT ![s] = @ + 1]
    PROVE  RowInv'
<1>2. /\ phase = "review" /\ todo = {} /\ session[s].state = "awaiting_critic"
      /\ session[s].pr /\ session[s] \in Rows /\ s \in 1..MaxSessions
      /\ \A i \in Issues : worker[i].pc = "idle"
      /\ verdicts' \in 0..MaxVerdicts
  BY JudgedNow
<1>3. \A i \in Issues : WorkerSound(i)'
  BY <1>2, IdleSound
<1>4. PICK n \in Nat : n = session[s].rounds
  BY <1>2 DEF Rows
<1>5. PICK m \in Nat : m = n + 1
  OBVIOUS
<1>6. PICK r : r = [session[s] EXCEPT !.rounds = m]
  OBVIOUS
<1>7. /\ r \in Rows /\ r.issue = session[s].issue /\ r.state = "awaiting_critic"
      /\ r.pr = session[s].pr /\ r.rounds = n + 1
  <2>1. r \in Rows /\ r.rounds = m
    BY <1>2, <1>6 DEF Rows
  <2>2. r.issue = session[s].issue /\ r.state = session[s].state /\ r.pr = session[s].pr
    BY <1>2, <1>6 DEF Rows
  <2> QED BY <1>2, <1>5, <2>1, <2>2
<1>8. session' = [session EXCEPT ![s] = r]
  BY <1>4, <1>5, <1>6 DEF increment_iterations, RowInv, SessionTypeOK
<1>9. Supersedes(r, s)
  BY <1>2, <1>7, <1>8 DEF Supersedes, Fsm!Terminal
<1>10. /\ session' \in Seq(Rows) /\ Len(session') = Len(session)
       /\ DOMAIN session' = DOMAIN session /\ session'[s] = r
       /\ \A t \in DOMAIN session \ {s} : session'[t] = session[t]
       /\ OneLiveSession' /\ HandoffHasUrl'
  BY <1>9, Rewritten
<1>11. PICK k \in Nat : k = uncapped[s]
  BY <1>2 DEF RowInv, SessionTypeOK
<1>12. PICK u \in Nat : u = k + 1
  OBVIOUS
<1>13. /\ uncapped \in [1..MaxSessions -> Nat] /\ uncapped' \in [1..MaxSessions -> Nat]
       /\ \A t \in 1..MaxSessions \ {s} : uncapped'[t] = uncapped[t]
       /\ \/ n < Cap /\ uncapped'[s] = k
          \/ uncapped'[s] = k + 1
  <2>1. uncapped \in [1..MaxSessions -> Nat]
    BY DEF RowInv, SessionTypeOK
  <2>2. CASE uncapped' = [uncapped EXCEPT ![s] = @ + 1]
    <3>1. uncapped' = [uncapped EXCEPT ![s] = u]
      BY <1>2, <1>11, <1>12, <2>1, <2>2
    <3> QED BY <1>2, <1>12, <2>1, <3>1
  <2> QED BY <1>4, <1>11, <2>1, <2>2
<1>14. SessionTypeOK'
  BY <1>2, <1>10, <1>13 DEF RowInv, SessionTypeOK, Fsm!States
<1>15. CountsSound'
  <2>1. /\ revisions[s] \in Nat /\ Cap \in Nat /\ revisions' = revisions
        /\ revisions[s] <= n /\ n <= Cap + k
    BY <1>2, <1>4, <1>11, SessionAssumption
       DEF RowInv, SessionTypeOK, CountsSound, RevisionsAreCounted
  <2>2. revisions[s] <= n + 1 /\ n + 1 <= Cap + uncapped'[s]
    BY <1>13, <2>1
  <2>3. revisions'[s] <= session'[s].rounds /\ session'[s].rounds <= Cap + uncapped'[s]
    BY <1>7, <1>10, <2>1, <2>2
  <2>4. DOMAIN session \subseteq 1..MaxSessions
    BY SessionAssumption DEF RowInv, SessionTypeOK
  <2>5. \A t \in DOMAIN session \ {s} :
           revisions'[t] <= session'[t].rounds /\ session'[t].rounds <= Cap + uncapped'[t]
    BY <1>10, <1>13, <2>1, <2>4 DEF RowInv, CountsSound, RevisionsAreCounted
  <2>6. RevisionsAreCounted'
    BY <1>10, <2>3, <2>5 DEF RevisionsAreCounted
  <2>7. \A t \in 1..MaxSessions :
           t \notin DOMAIN session' => revisions'[t] = 0 /\ uncapped'[t] = 0
    BY <1>10, <1>13, <2>1 DEF RowInv, CountsSound
  <2> QED BY <2>6, <2>7 DEF CountsSound
<1>16. MoveSound'
  <2>1. move'.sess = s /\ move'.to = "revising"
    OBVIOUS
  <2>2. revisions'[s] < session'[s].rounds
    BY <1>2, <1>4, <1>7, <1>10 DEF RowInv, CountsSound, RevisionsAreCounted, SessionTypeOK
  <2>3. MayMove(s, "revising")'
    BY <1>7, <1>10 DEF MayMove, Fsm!is_allowed, Fsm!Allowed
  <2> QED BY <1>2, <1>7, <1>10, <2>1, <2>2, <2>3 DEF MoveSound, MayMove
<1>17. TodoSound' /\ WalkComplete'
  BY <1>2 DEF TodoSound, WalkComplete
<1>18. RunningIsRun'
  BY <1>7, <1>10 DEF RowInv, RunningIsRun
<1> QED BY <1>3, <1>10, <1>14, <1>15, <1>16, <1>17, <1>18 DEF RowInv

LEMMA VerdictInv ==
    ASSUME RowInv, NEW s \in DOMAIN session,
           handle_critic_verdict(s) \/ enforce_critic_iteration_cap(s)
    PROVE  RowInv'
<1>1. /\ UNCHANGED <<revisions, skipped, tree, pull, phase, worker, todo, deaths, faults>>
      /\ verdicts' = verdicts + 1 /\ Judged(s)
  BY DEF handle_critic_verdict, enforce_critic_iteration_cap, Verdict, Judged
<1>2. \/ /\ UNCHANGED <<session, uncapped>>
         /\ \/ UNCHANGED move
            \/ \E to \in {"merged", "abandoned"} :
                  move' = [sess |-> s, to |-> to] /\ MayMove(s, to)
      \/ /\ increment_iterations(s) /\ move' = [sess |-> s, to |-> "revising"]
         /\ \/ session[s].rounds < Cap /\ uncapped' = uncapped
            \/ uncapped' = [uncapped EXCEPT ![s] = @ + 1]
  BY DEF handle_critic_verdict, enforce_critic_iteration_cap, Verdict
<1> QED BY <1>1, <1>2, OverInv, SentBackInv

(* The edge that was checked is taken. *)
LEMMA LoopWritesInv == ASSUME RowInv, LoopWrites PROVE RowInv'
<1>1. PICK s, to : s = move.sess /\ to = move.to
  OBVIOUS
<1>2. /\ phase \in {"review", "recover"} /\ move # NoMove /\ WriteState(s, to)
      /\ revisions' = IF to = "revising" THEN [revisions EXCEPT ![s] = @ + 1] ELSE revisions
      /\ move' = NoMove
      /\ UNCHANGED <<uncapped, tree, pull, phase, worker, todo, skipped, deaths, verdicts, faults>>
  BY <1>1 DEF LoopWrites, bounds
<1>3. /\ s \in DOMAIN session /\ MayMove(s, to) /\ to # "running"
      /\ to \in {"awaiting_critic", "revising", "merged"} => session[s].pr
      /\ to = "revising" => revisions[s] < session[s].rounds
  BY <1>1, <1>2 DEF RowInv, MoveSound
<1>4. /\ session \in Seq(Rows) /\ session[s] \in Rows /\ s \in 1..MaxSessions
      /\ revisions \in [1..MaxSessions -> Nat]
  BY <1>3, RowTyped, SessionAssumption DEF RowInv, SessionTypeOK
<1>5. /\ session[s].state \notin Fsm!Terminal /\ to \in Fsm!States
  BY <1>3 DEF MayMove, Fsm!is_allowed, Fsm!Allowed, Fsm!Terminal, Fsm!States
<1>6. PICK r : r = [session[s] EXCEPT !.state = to]
  OBVIOUS
<1>7. /\ r \in Rows /\ r.state = to /\ r.issue = session[s].issue /\ r.pr = session[s].pr
      /\ r.rounds = session[s].rounds
  BY <1>4, <1>5, <1>6 DEF Rows
<1>8. session' = [session EXCEPT ![s] = r]
  BY <1>2, <1>4, <1>6 DEF WriteState
<1>9. Supersedes(r, s)
  BY <1>3, <1>5, <1>7, <1>8 DEF Supersedes
<1>10. /\ session' \in Seq(Rows) /\ Len(session') = Len(session)
       /\ DOMAIN session' = DOMAIN session /\ session'[s] = r
       /\ \A t \in DOMAIN session \ {s} : session'[t] = session[t]
       /\ OneLiveSession' /\ HandoffHasUrl'
  BY <1>9, Rewritten
<1>11. /\ revisions' \in [1..MaxSessions -> Nat]
       /\ \A t \in 1..MaxSessions \ {s} : revisions'[t] = revisions[t]
       /\ to # "revising" => revisions'[s] = revisions[s]
       /\ to = "revising" => revisions'[s] = revisions[s] + 1
  <2>1. CASE to # "revising"
    BY <1>2, <1>4, <2>1
  <2>2. CASE to = "revising"
    <3>1. PICK k \in Nat : k = revisions[s] + 1
      BY <1>4
    <3>2. revisions' = [revisions EXCEPT ![s] = k]
      BY <1>2, <2>2, <3>1
    <3> QED BY <1>4, <2>2, <3>1, <3>2
  <2> QED BY <2>1, <2>2
<1>12. move' \in [sess : 0..MaxSessions, to : Fsm!States \cup {"none"}] /\ move'.sess = 0
  BY <1>2, SessionAssumption DEF NoMove
<1>13. SessionTypeOK'
  BY <1>2, <1>10, <1>11, <1>12 DEF RowInv, SessionTypeOK
<1>14. \A i \in Issues : WorkerSound(i)'
  BY <1>2, OutOfTick, IdleSound
<1>15. MoveSound'
  BY <1>2 DEF MoveSound
<1>16. TodoSound'
  <2>1. \A next \in todo : /\ next.sess \in DOMAIN session /\ next.sess # s
                            /\ next.row = session[next.sess]
    BY <1>1 DEF RowInv, TodoSound
  <2>2. \A next \in todo : next.sess # 0
    BY <2>1, <1>4
  <2> QED BY <1>2, <1>10, <1>12, <2>1, <2>2 DEF RowInv, TodoSound
<1>17. WalkComplete'
  BY <1>1, <1>2, <1>3, <1>7, <1>10 DEF RowInv, WalkComplete
<1>18. CountsSound'
  <2>1. \A t \in DOMAIN session : revisions'[t] <= session'[t].rounds /\ session'[t].rounds <= Cap + uncapped[t]
    <3> SUFFICES ASSUME NEW t \in DOMAIN session
                 PROVE  revisions'[t] <= session'[t].rounds /\ session'[t].rounds <= Cap + uncapped[t]
      OBVIOUS
    <3>1. revisions[t] <= session[t].rounds /\ session[t].rounds <= Cap + uncapped[t] /\ t \in 1..MaxSessions
      BY SessionAssumption DEF RowInv, CountsSound, RevisionsAreCounted, SessionTypeOK
    <3>2. CASE t # s
      BY <1>10, <1>11, <3>1, <3>2
    <3>3. CASE t = s
      <4>1. /\ revisions[s] \in Nat /\ session[s].rounds \in Nat
            /\ Cap \in Nat /\ uncapped[s] \in Nat
        BY <1>4, SessionAssumption DEF Rows, RowInv, SessionTypeOK
      <4> QED BY <1>3, <1>7, <1>10, <1>11, <3>1, <3>3, <4>1
    <3> QED BY <3>2, <3>3
  <2>2. \A t \in 1..MaxSessions : t \notin DOMAIN session' => revisions'[t] = 0 /\ uncapped'[t] = 0
    BY <1>2, <1>3, <1>10, <1>11 DEF RowInv, CountsSound
  <2> QED BY <1>2, <1>10, <2>1, <2>2 DEF CountsSound, RevisionsAreCounted
<1>19. RunningIsRun'
  BY <1>2, <1>3, <1>7, <1>10 DEF RowInv, RunningIsRun
<1> QED BY <1>10, <1>13, <1>14, <1>15, <1>16, <1>17, <1>18, <1>19 DEF RowInv

LEMMA NextTickInv == ASSUME RowInv, NextTick PROVE RowInv'
<1>1. /\ phase = "review" /\ phase' = "tick" /\ move' = NoMove /\ todo' = {}
      /\ UNCHANGED <<table, tree, pull, worker, bounds>>
  BY DEF NextTick, RowInv, TodoSound
<1>2. SessionTypeOK'
  BY <1>1 DEF RowInv, SessionTypeOK, NextTick, table, bounds
<1>3. \A i \in Issues : WorkerSound(i)'
  BY <1>1, OutOfTick, IdleSound
<1>4. MoveSound' /\ TodoSound' /\ WalkComplete'
  BY <1>1 DEF MoveSound, TodoSound, WalkComplete
<1>5. CountsSound' /\ OneLiveSession' /\ HandoffHasUrl'
  BY <1>1, TableKept DEF table
<1>6. RunningIsRun'
  BY <1>1 DEF RowInv, RunningIsRun, table
<1> QED BY <1>2, <1>3, <1>4, <1>5, <1>6 DEF RowInv

LEMMA BootInv == ASSUME RowInv, boot PROVE RowInv'
<1>1. /\ phase = "boot" /\ phase' = "recover" /\ move' = move /\ skipped' = FALSE
      /\ todo' = {[sess |-> s, row |-> session[s]] : s \in recoverable_sessions}
      /\ UNCHANGED <<session, revisions, uncapped, pull, worker, deaths, verdicts>>
  BY DEF boot
<1>2. move' = NoMove /\ move'.sess = 0
  BY <1>1 DEF RowInv, MoveSound, NoMove
<1>3. tree' \in [Issues -> Trees] /\ faults' \in 0..MaxFaults
  <2>1. PICK T \in SUBSET Issues :
           /\ IF T = {} THEN UNCHANGED faults ELSE Fault
           /\ tree' = [i \in Issues |-> IF i \in T THEN tree[i]
                                        ELSE [tree[i] EXCEPT !.dir = FALSE, !.registered = FALSE]]
    BY DEF boot
  <2>2. \A i \in Issues : tree[i] \in Trees
    BY DEF RowInv, SessionTypeOK
  <2>3. \A i \in Issues : [tree[i] EXCEPT !.dir = FALSE, !.registered = FALSE] \in Trees
    BY <2>2 DEF Trees
  <2>4. faults' \in 0..MaxFaults
    BY <2>1, FaultTyped DEF RowInv, SessionTypeOK
  <2> QED BY <2>1, <2>2, <2>3, <2>4
<1>4. \A s \in DOMAIN session : session[s] \in Rows /\ s \in 1..MaxSessions
  BY RowTyped, SessionAssumption DEF RowInv, SessionTypeOK
<1>5. todo' \subseteq [sess : 1..MaxSessions, row : Rows]
  BY <1>1, <1>4 DEF recoverable_sessions, by_state
<1>6. SessionTypeOK'
  BY <1>1, <1>3, <1>5 DEF RowInv, SessionTypeOK
<1>7. \A i \in Issues : WorkerSound(i)'
  BY <1>1, OutOfTick, IdleSound
<1>8. MoveSound'
  BY <1>2 DEF MoveSound
<1>9. TodoSound'
  <2>1. \A next \in todo' : /\ next.sess \in DOMAIN session
                             /\ next.row = session[next.sess]
    BY <1>1 DEF recoverable_sessions, by_state
  <2>2. \A next \in todo' : next.sess # 0
    BY <2>1, <1>4
  <2> QED BY <1>1, <1>2, <2>1, <2>2 DEF TodoSound
<1>10. WalkComplete'
  <2> SUFFICES ASSUME NEW s \in DOMAIN session, session[s].state = "running"
               PROVE  \E next \in todo' : next.sess = s
    BY <1>1 DEF WalkComplete
  <2>1. s \in recoverable_sessions
    BY DEF recoverable_sessions, by_state, Fsm!States, Fsm!Terminal
  <2>2. [sess |-> s, row |-> session[s]] \in todo'
    BY <1>1, <2>1
  <2> QED BY <2>2
<1>11. CountsSound' /\ OneLiveSession' /\ HandoffHasUrl'
  BY <1>1, TableKept
<1>12. RunningIsRun'
  BY <1>1 DEF RunningIsRun
<1> QED BY <1>6, <1>7, <1>8, <1>9, <1>10, <1>11, <1>12 DEF RowInv

(* What the walk decides for a row that is up is an edge of the table, and it *)
(* promotes no row without a pull request.                                    *)
LEMMA Decided ==
    ASSUME NEW row \in Rows, NEW dir \in BOOLEAN, NEW pr \in _pr_exists(row),
           NEW to, to = _decide(row, dir, pr)
    PROVE  /\ to # row.state => to \in {"awaiting_critic", "abandoned"}
           /\ to # row.state /\ to = "awaiting_critic" => row.pr
           /\ row.state = "running" => to # "running" /\ Fsm!is_allowed("running", to)
<1>1. row.state \in Fsm!States /\ pr \in BOOLEAN /\ (pr => row.pr)
  BY DEF Rows, _pr_exists
<1>2. CASE row.state \notin Fsm!Active
  <2>1. to = row.state
    BY <1>2 DEF _decide
  <2> QED BY <1>2, <2>1 DEF Fsm!Active
<1>3. CASE row.state \in Fsm!Active
  <2>1. to = IF pr THEN "awaiting_critic" ELSE "abandoned"
    BY <1>1, <1>3 DEF _decide
  <2> QED BY <1>1, <2>1 DEF Fsm!is_allowed, Fsm!Allowed
<1> QED BY <1>2, <1>3

LEMMA WalkInv == ASSUME RowInv, recover_sessions PROVE RowInv'
<1>1. /\ phase = "recover" /\ move = NoMove
      /\ UNCHANGED <<table, tree, pull, phase, worker, deaths, verdicts>>
  BY DEF recover_sessions
<1>2. PICK next \in todo : \E pr \in _pr_exists(next.row) :
          LET to == _decide(next.row, _default_worktree_probe(next.row), pr)
          IN  /\ UpNext(next)
              /\ IF pr = next.row.pr THEN UNCHANGED faults ELSE Fault
              /\ move' = IF to # next.row.state /\ MayMove(next.sess, to)
                         THEN [sess |-> next.sess, to |-> to] ELSE NoMove
              /\ todo' = todo \ {next}
  BY DEF recover_sessions
<1>3. PICK pr \in _pr_exists(next.row) :
          LET to == _decide(next.row, _default_worktree_probe(next.row), pr)
          IN  /\ IF pr = next.row.pr THEN UNCHANGED faults ELSE Fault
              /\ move' = IF to # next.row.state /\ MayMove(next.sess, to)
                         THEN [sess |-> next.sess, to |-> to] ELSE NoMove
              /\ todo' = todo \ {next}
  BY <1>2
<1>4. PICK s, row, to :
          s = next.sess /\ row = next.row /\ to = _decide(row, _default_worktree_probe(row), pr)
  OBVIOUS
<1>5. /\ move' = IF to # row.state /\ MayMove(s, to) THEN [sess |-> s, to |-> to] ELSE NoMove
      /\ todo' = todo \ {next}
  BY <1>3, <1>4
<1>6. faults' \in 0..MaxFaults
  BY <1>3, FaultTyped DEF RowInv, SessionTypeOK
<1>7. /\ s \in DOMAIN session /\ row = session[s] /\ row \in Rows /\ s \in 1..MaxSessions
      /\ _default_worktree_probe(row) \in BOOLEAN
  <2>1. s \in DOMAIN session /\ row = session[s] /\ s \in 1..MaxSessions
    BY <1>4, SessionAssumption DEF RowInv, TodoSound, SessionTypeOK
  <2>2. row \in Rows
    BY <2>1, RowTyped DEF RowInv, SessionTypeOK
  <2>3. row.issue \in Issues
    BY <2>2 DEF Rows
  <2>4. tree[row.issue] \in Trees
    BY <2>3 DEF RowInv, SessionTypeOK
  <2> QED BY <2>1, <2>2, <2>4 DEF _default_worktree_probe, Trees
<1>8. /\ to # row.state => to \in {"awaiting_critic", "abandoned"}
      /\ to # row.state /\ to = "awaiting_critic" => row.pr
      /\ row.state = "running" => to # "running" /\ Fsm!is_allowed("running", to)
  BY <1>4, <1>7, Decided
<1>9. /\ move' = NoMove \/ /\ move' = [sess |-> s, to |-> to] /\ MayMove(s, to)
                           /\ to \in {"awaiting_critic", "abandoned"}
                           /\ to = "awaiting_critic" => row.pr
      /\ row.state = "running" => move' = [sess |-> s, to |-> to]
  BY <1>5, <1>7, <1>8 DEF MayMove
<1>10. MoveSound' /\ move' \in [sess : 0..MaxSessions, to : Fsm!States \cup {"none"}]
       /\ (move'.sess = 0 \/ move'.sess = s) /\ (row.state = "running" => move'.sess = s)
  <2>1. CASE move' = NoMove
    BY <1>9, <2>1, SessionAssumption DEF NoMove, MoveSound
  <2>2. CASE /\ move' = [sess |-> s, to |-> to] /\ MayMove(s, to)
             /\ to \in {"awaiting_critic", "abandoned"}
             /\ to = "awaiting_critic" => row.pr
    <3>1. move'.sess = s /\ move'.to = to
      BY <2>2
    <3>2. MoveSound'
      BY <1>1, <1>7, <2>2, <3>1 DEF MoveSound, MayMove, table
    <3> QED BY <1>7, <2>2, <3>1, <3>2 DEF Fsm!States
  <2> QED BY <1>9, <2>1, <2>2
<1>11. SessionTypeOK'
  BY <1>1, <1>5, <1>6, <1>10 DEF RowInv, SessionTypeOK, table
<1>12. \A i \in Issues : WorkerSound(i)'
  BY <1>1, OutOfTick, IdleSound
<1>13. TodoSound'
  <2>1. \A other \in todo : /\ other.sess \in DOMAIN session /\ other.row = session[other.sess]
                            /\ other \in [sess : 1..MaxSessions, row : Rows]
    BY DEF RowInv, TodoSound, SessionTypeOK
  <2>2. \A other \in todo' : other.sess # s
    BY <1>4, <1>5, <2>1
  <2>3. \A other \in todo' : other.sess # 0
    BY <1>5, <2>1
  <2> QED BY <1>1, <1>5, <1>10, <2>1, <2>2, <2>3 DEF TodoSound, table
<1>14. WalkComplete'
  <2> SUFFICES ASSUME ~skipped, NEW t \in DOMAIN session, session[t].state = "running"
               PROVE  t = move'.sess \/ \E other \in todo' : other.sess = t
    BY <1>1 DEF WalkComplete, table
  <2>1. t # move.sess
    BY <1>1, SessionAssumption DEF NoMove, RowInv, SessionTypeOK
  <2>2. PICK other \in todo : other.sess = t
    BY <1>1, <2>1 DEF RowInv, WalkComplete
  <2>3. CASE other = next
    BY <1>4, <1>7, <1>10, <2>2, <2>3
  <2> QED BY <1>5, <2>2, <2>3
<1>15. CountsSound' /\ OneLiveSession' /\ HandoffHasUrl'
  BY <1>1, TableKept DEF table
<1>16. RunningIsRun'
  BY <1>1 DEF RunningIsRun
<1> QED BY <1>10, <1>11, <1>12, <1>13, <1>14, <1>15, <1>16 DEF RowInv

LEMMA WalkFailsInv == ASSUME RowInv, _run_crash_recovery PROVE RowInv'
<1>1. /\ phase = "recover" /\ phase' = "recover" /\ move' = NoMove /\ todo' = {} /\ skipped'
      /\ UNCHANGED <<session, revisions, uncapped, tree, pull, worker, deaths, verdicts>>
  BY DEF _run_crash_recovery
<1>2. faults' \in 0..MaxFaults
  BY FaultTyped DEF RowInv, _run_crash_recovery
<1>3. SessionTypeOK'
  <2>1. NoMove \in [sess : 0..MaxSessions, to : Fsm!States \cup {"none"}] /\ skipped' \in BOOLEAN
    BY SessionAssumption DEF NoMove, _run_crash_recovery
  <2> QED BY <1>1, <1>2, <2>1 DEF RowInv, SessionTypeOK
<1>4. \A i \in Issues : WorkerSound(i)'
  BY <1>1, OutOfTick, IdleSound
<1>5. MoveSound' /\ TodoSound' /\ WalkComplete' /\ RunningIsRun'
  BY <1>1 DEF MoveSound, TodoSound, WalkComplete, RunningIsRun
<1>6. CountsSound' /\ OneLiveSession' /\ HandoffHasUrl'
  BY <1>1, TableKept
<1> QED BY <1>3, <1>4, <1>5, <1>6 DEF RowInv

LEMMA FirstTickInv == ASSUME RowInv, FirstTick PROVE RowInv'
<1>1. /\ phase = "recover" /\ phase' = "tick" /\ move' = NoMove /\ todo = {} /\ todo' = {}
      /\ move = NoMove /\ UNCHANGED <<session, revisions, uncapped, skipped, tree, pull, worker, bounds>>
  BY DEF FirstTick, table
<1>2. SessionTypeOK'
  BY <1>1 DEF RowInv, SessionTypeOK, bounds
<1>3. \A i \in Issues : WorkerSound(i)'
  BY <1>1, OutOfTick, IdleSound
<1>4. MoveSound' /\ TodoSound' /\ WalkComplete'
  BY <1>1 DEF MoveSound, TodoSound, WalkComplete
<1>5. CountsSound' /\ OneLiveSession' /\ HandoffHasUrl'
  BY <1>1, TableKept
<1>6. RunningIsRun'
  <2> SUFFICES ASSUME ~skipped, NEW s \in DOMAIN session, session[s].state = "running"
               PROVE  FALSE
    BY <1>1 DEF RunningIsRun
  <2>1. s = move.sess
    BY <1>1 DEF RowInv, WalkComplete
  <2> QED BY <1>1, <2>1, SessionAssumption DEF NoMove, RowInv, SessionTypeOK
<1> QED BY <1>2, <1>3, <1>4, <1>5, <1>6 DEF RowInv

(* A death, and the start after it; a pull request is closed by anybody. *)
LEMMA CrashInv == ASSUME RowInv, Crash PROVE RowInv'
<1>1. /\ phase' = "down" /\ worker' = [i \in Issues |-> Idle] /\ todo' = {} /\ move' = NoMove
      /\ UNCHANGED <<session, revisions, uncapped, skipped, tree, pull, verdicts, faults>>
      /\ deaths < MaxDeaths /\ deaths' = deaths + 1
  BY DEF Crash, table
<1>2. SessionTypeOK'
  <2>1. NoMove \in [sess : 0..MaxSessions, to : Fsm!States \cup {"none"}]
    BY SessionAssumption DEF NoMove
  <2>2. deaths' \in 0..MaxDeaths
    BY <1>1, SessionAssumption DEF RowInv, SessionTypeOK
  <2> QED BY <1>1, <2>1, <2>2, AllIdle DEF RowInv, SessionTypeOK
<1>3. \A i \in Issues : WorkerSound(i)'
  BY <1>1, AllIdle, IdleSound
<1>4. MoveSound' /\ TodoSound' /\ WalkComplete' /\ RunningIsRun'
  BY <1>1 DEF MoveSound, TodoSound, WalkComplete, RunningIsRun
<1>5. CountsSound' /\ OneLiveSession' /\ HandoffHasUrl'
  BY <1>1, TableKept
<1> QED BY <1>2, <1>3, <1>4, <1>5 DEF RowInv

LEMMA RestartInv == ASSUME RowInv, Restart PROVE RowInv'
<1>1. /\ phase = "down" /\ phase' = "boot" /\ move' = NoMove /\ todo' = {}
      /\ UNCHANGED <<session, revisions, uncapped, skipped, tree, pull, worker, todo, move, bounds>>
  BY DEF Restart, table, RowInv, MoveSound, TodoSound
<1>2. SessionTypeOK'
  BY <1>1 DEF RowInv, SessionTypeOK, bounds
<1>3. \A i \in Issues : WorkerSound(i)'
  BY <1>1, OutOfTick, IdleSound
<1>4. MoveSound' /\ TodoSound' /\ WalkComplete' /\ RunningIsRun'
  BY <1>1 DEF MoveSound, TodoSound, WalkComplete, RunningIsRun
<1>5. CountsSound' /\ OneLiveSession' /\ HandoffHasUrl'
  BY <1>1, TableKept
<1> QED BY <1>2, <1>3, <1>4, <1>5 DEF RowInv

LEMMA FrameInv ==
    ASSUME RowInv, pull' \subseteq Issues,
           UNCHANGED <<session, revisions, uncapped, skipped, tree, phase, worker, todo, move, bounds>>
    PROVE  RowInv'
<1>1. SessionTypeOK'
  BY DEF RowInv, SessionTypeOK, bounds
<1>2. \A i \in Issues : WorkerSound(i)'
  BY DEF RowInv, WorkerSound, RecordSound
<1>3. MoveSound' /\ TodoSound' /\ WalkComplete' /\ RunningIsRun'
  BY DEF RowInv, MoveSound, MayMove, TodoSound, WalkComplete, RunningIsRun
<1>4. CountsSound' /\ OneLiveSession' /\ HandoffHasUrl'
  BY TableKept
<1> QED BY <1>1, <1>2, <1>3, <1>4 DEF RowInv

-----------------------------------------------------------------------------
(* The theorems. *)

LEMMA InitRowInv == SessionInit => RowInv
<1> SUFFICES ASSUME SessionInit PROVE RowInv
  OBVIOUS
<1>1. session = <<>> /\ DOMAIN session = {} /\ move = NoMove /\ todo = {}
      /\ \A i \in Issues : worker[i] = Idle
  BY DEF SessionInit
<1>2. SessionTypeOK
  <2>1. [dir |-> FALSE, registered |-> FALSE, shielded |-> FALSE] \in Trees
    BY DEF Trees
  <2>2. tree \in [Issues -> Trees] /\ worker \in [Issues -> Workers]
    BY <2>1, IdleTyped DEF SessionInit
  <2>3. NoMove \in [sess : 0..MaxSessions, to : Fsm!States \cup {"none"}]
    BY SessionAssumption DEF NoMove
  <2>4. session \in Seq(Rows) /\ Len(session) = 0
    BY <1>1
  <2>5. revisions \in [1..MaxSessions -> Nat] /\ uncapped \in [1..MaxSessions -> Nat] /\ skipped \in BOOLEAN
    BY DEF SessionInit
  <2>6. /\ pull = {} /\ phase = "boot" /\ Len(session) <= MaxSessions
        /\ deaths \in 0..MaxDeaths /\ verdicts \in 0..MaxVerdicts /\ faults \in 0..MaxFaults
    BY <2>4, SessionAssumption DEF SessionInit
  <2> QED BY <1>1, <2>2, <2>3, <2>4, <2>5, <2>6 DEF SessionTypeOK
<1>3. \A i \in Issues : WorkerSound(i)
  BY <1>1 DEF WorkerSound, RecordSound, Idle, HoldsRow, Running
<1>4. MoveSound /\ TodoSound /\ WalkComplete /\ RunningIsRun
  BY <1>1 DEF MoveSound, TodoSound, WalkComplete, RunningIsRun
<1>5. CountsSound /\ OneLiveSession /\ HandoffHasUrl
  BY <1>1 DEF SessionInit, CountsSound, RevisionsAreCounted, OneLiveSession, HandoffHasUrl
<1> QED BY <1>2, <1>3, <1>4, <1>5 DEF RowInv

LEMMA NextRowInv == RowInv /\ [SessionNext]_sessionVars => RowInv'
<1> SUFFICES ASSUME RowInv, [SessionNext]_sessionVars PROVE RowInv'
  OBVIOUS
<1>1. ASSUME NEW i \in Issues, WorkerStep(i) PROVE RowInv'
  BY <1>1, ResumeInv, MarkInv, WorkerWritesInv, PrepInv, PreflightInv, SdkInv, CodexInv,
     RaisesInv, RecordInv DEF WorkerStep
<1>2. CASE LoopStep
  BY <1>2, DrainInv, LoopWritesInv, NextTickInv, BootInv, WalkInv, FirstTickInv, RestartInv
     DEF LoopStep
<1>3. ASSUME NEW i \in Issues, OpensPull(i) \/ TellsUrl(i) \/ ResultMessage(i) \/ Submit(i)
      PROVE  RowInv'
  BY <1>3, OpensInv, TellsInv, ResultInv, SubmitInv
<1>4. ASSUME NEW i \in Issues, PullCloses(i) PROVE RowInv'
  <2>1. pull' \subseteq Issues
    BY <1>4 DEF PullCloses, RowInv, SessionTypeOK
  <2> QED BY <1>4, <2>1, FrameInv DEF PullCloses, table
<1>5. ASSUME NEW s \in DOMAIN session, handle_critic_verdict(s) \/ enforce_critic_iteration_cap(s)
      PROVE  RowInv'
  BY <1>5, VerdictInv
<1>6. CASE UNCHANGED sessionVars
  <2>1. pull' \subseteq Issues
    BY <1>6 DEF sessionVars, RowInv, SessionTypeOK
  <2> QED BY <1>6, <2>1, FrameInv DEF sessionVars, bounds
<1> QED BY <1>1, <1>2, <1>3, <1>4, <1>5, <1>6, WalkFailsInv, CrashInv DEF SessionNext

(* Whoever dies and whenever, and for any number of issues: the table keeps  *)
(* one live session to an issue, a URL with everything the critic is to see, *)
(* a worker behind every running row once the loop ticks again after a       *)
(* complete recovery, no more revisions than rounds, and no round past the   *)
(* cap but those the handler that does not look at it counted.               *)
THEOREM SessionsSound == SessionSpec => []SessionInv
<1>1. RowInv => SessionInv
  BY DEF RowInv, CountsSound, SessionInv
<1> QED BY <1>1, InitRowInv, NextRowInv, PTL DEF SessionSpec

(* The state machine sees of the table the states of its rows. *)
StatesOf(rows) == [s \in DOMAIN rows |-> rows[s].state]

LEMMA StatesSeq ==
    ASSUME NEW rows \in Seq(Rows)
    PROVE  /\ StatesOf(rows) \in Seq(Fsm!States)
           /\ Len(StatesOf(rows)) = Len(rows)
           /\ DOMAIN StatesOf(rows) = DOMAIN rows
           /\ DOMAIN rows = 1..Len(rows) /\ Len(rows) \in Nat
           /\ \A s \in DOMAIN rows : StatesOf(rows)[s] = rows[s].state
<1>1. Len(rows) \in Nat /\ DOMAIN rows = 1..Len(rows)
  OBVIOUS
<1>2. \A s \in DOMAIN rows : rows[s].state \in Fsm!States
  <2> SUFFICES ASSUME NEW s \in DOMAIN rows PROVE rows[s].state \in Fsm!States
    OBVIOUS
  <2>1. rows[s] \in Rows
    OBVIOUS
  <2> QED BY <2>1 DEF Rows
<1>3. StatesOf(rows) \in [1..Len(rows) -> Fsm!States]
  BY <1>1, <1>2 DEF StatesOf
<1>4. StatesOf(rows) \in Seq(Fsm!States) /\ Len(StatesOf(rows)) = Len(rows)
  BY <1>1, <1>3
<1> QED BY <1>1, <1>3, <1>4 DEF StatesOf

LEMMA SameStates ==
    ASSUME DOMAIN session' = DOMAIN session,
           \A s \in DOMAIN session : session'[s].state = session[s].state
    PROVE  StatesOf(session') = StatesOf(session)
  BY DEF StatesOf

(* A row without its URL or with one round more is the same to it. *)
LEMMA UpdateKeepsStates ==
    ASSUME RowInv, NEW s \in DOMAIN session,
           set_pr_url(s) \/ increment_iterations(s)
    PROVE  StatesOf(session') = StatesOf(session)
<1>1. session[s] \in Rows /\ session \in Seq(Rows)
  BY RowTyped DEF RowInv, SessionTypeOK
<1>2. PICK r : /\ session' = [session EXCEPT ![s] = r]
               /\ r = [session[s] EXCEPT !.pr = TRUE]
                  \/ r = [session[s] EXCEPT !.rounds = session[s].rounds + 1]
  BY <1>1 DEF set_pr_url, increment_iterations
<1>3. r.state = session[s].state
  BY <1>1, <1>2 DEF Rows
<1>4. DOMAIN session' = DOMAIN session
      /\ \A t \in DOMAIN session : session'[t].state = session[t].state
  BY <1>1, <1>2, <1>3
<1> QED BY <1>4, SameStates

(* A transition that is written is an edge of the table. *)
LEMMA WriteMoves ==
    ASSUME RowInv, NEW s \in DOMAIN session, NEW to, MayMove(s, to), WriteState(s, to)
    PROVE  /\ to \in Fsm!allowed_next(StatesOf(session)[s])
           /\ StatesOf(session') = [StatesOf(session) EXCEPT ![s] = to]
<1>1. to \in Fsm!States /\ session \in Seq(Rows)
  BY DEF RowInv, SessionTypeOK, MayMove, Fsm!is_allowed, Fsm!Allowed, Fsm!States
<1>2. /\ DOMAIN session' = DOMAIN session /\ session'[s].state = to
      /\ \A t \in DOMAIN session \ {s} : session'[t] = session[t]
  BY <1>1, WriteRow
<1>3. \A t \in DOMAIN session : session'[t].state = IF t = s THEN to ELSE session[t].state
  BY <1>2
<1>4. StatesOf(session') = [StatesOf(session) EXCEPT ![s] = to]
  BY <1>2, <1>3 DEF StatesOf
<1>5. to \in Fsm!allowed_next(session[s].state)
  <2>1. <<session[s].state, to>> \in Fsm!Allowed
    BY DEF MayMove, Fsm!is_allowed
  <2> QED BY <2>1 DEF Fsm!allowed_next
<1> QED BY <1>1, <1>4, <1>5, StatesSeq

LEMMA CreateIsCreate ==
    ASSUME RowInv, NEW i \in Issues, create(i)
    PROVE  StatesOf(session') = Append(StatesOf(session), "dispatched")
<1>1. session \in Seq(Rows) /\ Len(session) \in Nat /\ DOMAIN session = 1..Len(session)
  BY DEF RowInv, SessionTypeOK
<1>2. PICK r : r = [issue |-> i, state |-> "dispatched", pr |-> FALSE, rounds |-> 0]
  OBVIOUS
<1>3. r \in Rows /\ r.state = "dispatched"
  BY <1>2 DEF Rows, Fsm!States
<1>4. /\ session' \in Seq(Rows) /\ Len(session') = Len(session) + 1
      /\ session'[Len(session) + 1] = r
      /\ \A t \in DOMAIN session : session'[t] = session[t]
  BY <1>1, <1>2, <1>3, AddRow DEF create
<1>5. "dispatched" \in Fsm!States
  BY DEF Fsm!States
<1>6. PICK before, after : before = StatesOf(session) /\ after = StatesOf(session')
  OBVIOUS
<1>7. /\ before \in Seq(Fsm!States) /\ after \in Seq(Fsm!States)
      /\ Len(before) = Len(session) /\ Len(after) = Len(session) + 1
      /\ \A t \in 1..Len(session) : after[t] = before[t]
      /\ after[Len(session) + 1] = "dispatched"
  <2>1. /\ before \in Seq(Fsm!States) /\ Len(before) = Len(session)
        /\ \A t \in DOMAIN session : before[t] = session[t].state
    BY <1>1, <1>6, StatesSeq
  <2>2. /\ after \in Seq(Fsm!States) /\ Len(after) = Len(session')
        /\ DOMAIN session' = 1..Len(session')
        /\ \A t \in DOMAIN session' : after[t] = session'[t].state
    BY <1>4, <1>6, StatesSeq
  <2> QED BY <1>1, <1>3, <1>4, <2>1, <2>2
<1>8. \A t \in 1..Len(after) : after[t] = Append(before, "dispatched")[t]
  BY <1>1, <1>5, <1>7, AppendProperties
<1>9. Append(before, "dispatched") \in Seq(Fsm!States)
      /\ Len(Append(before, "dispatched")) = Len(after)
  BY <1>1, <1>5, <1>7
<1>10. after = Append(before, "dispatched")
  BY <1>7, <1>8, <1>9, SeqEqual
<1> QED BY <1>6, <1>10

(* Every step of a process creates a session, takes one edge, or neither. *)
FsmStep ==
    \/ StatesOf(session') = StatesOf(session)
    \/ /\ Len(StatesOf(session)) < MaxSessions
       /\ StatesOf(session') = Append(StatesOf(session), "dispatched")
    \/ \E s \in DOMAIN StatesOf(session) :
          \E dst \in Fsm!allowed_next(StatesOf(session)[s]) :
              StatesOf(session') = [StatesOf(session) EXCEPT ![s] = dst]

LEMMA WriteStep ==
    ASSUME RowInv, NEW s \in DOMAIN session, NEW to, MayMove(s, to), WriteState(s, to)
    PROVE  FsmStep
<1>1. DOMAIN StatesOf(session) = DOMAIN session
  BY DEF StatesOf
<1> QED BY <1>1, WriteMoves DEF FsmStep

LEMMA SessionSteps == ASSUME RowInv, SessionNext PROVE FsmStep
<1>1. ASSUME UNCHANGED session PROVE FsmStep
  BY <1>1 DEF FsmStep, StatesOf
<1>2. ASSUME NEW i \in Issues, get_or_resume_session(i) PROVE FsmStep
  <2>1. CASE UNCHANGED session
    BY <1>1, <2>1
  <2>2. CASE Len(session) < MaxSessions /\ create(i)
    <3>1. Len(StatesOf(session)) = Len(session)
      BY StatesSeq DEF RowInv, SessionTypeOK
    <3> QED BY <2>2, <3>1, CreateIsCreate DEF FsmStep
  <2> QED BY <1>2, <2>1, <2>2 DEF get_or_resume_session
<1>3. ASSUME NEW i \in Issues, WorkerWrites(i) PROVE FsmStep
  <2>1. /\ worker[i].pc \in {"marking", "recording", "closing"}
        /\ WriteState(worker[i].sess, worker[i].to)
    BY <1>3 DEF WorkerWrites
  <2>2. /\ worker[i].sess \in DOMAIN session
        /\ session[worker[i].sess].state = worker[i].saw
        /\ \/ worker[i].saw = "dispatched" /\ worker[i].to = "running"
           \/ worker[i].saw = "running" /\ worker[i].to \in {"awaiting_critic", "abandoned"}
    BY <2>1, WorkerNow DEF RecordSound, HoldsRow, Running
  <2>3. MayMove(worker[i].sess, worker[i].to)
    BY <2>2 DEF MayMove, Fsm!is_allowed, Fsm!Allowed
  <2> QED BY <2>1, <2>2, <2>3, WriteStep
<1>4. ASSUME NEW i \in Issues, record_outcome(i) PROVE FsmStep
  <2>1. CASE UNCHANGED session
    BY <1>1, <2>1
  <2>2. CASE worker[i].pc = "record" /\ set_pr_url(worker[i].sess)
    <3>1. worker[i].sess \in DOMAIN session
      BY <2>2, WorkerNow DEF RecordSound, HoldsRow, Running
    <3> QED BY <2>2, <3>1, UpdateKeepsStates DEF FsmStep
  <2> QED BY <1>4, <2>1, <2>2 DEF record_outcome
<1>5. ASSUME NEW s \in DOMAIN session, handle_critic_verdict(s) \/ enforce_critic_iteration_cap(s)
      PROVE  FsmStep
  <2>1. UNCHANGED session \/ increment_iterations(s)
    BY <1>5 DEF handle_critic_verdict, enforce_critic_iteration_cap
  <2> QED BY <1>1, <2>1, UpdateKeepsStates DEF FsmStep
<1>6. CASE LoopWrites
  <2>1. move # NoMove /\ WriteState(move.sess, move.to)
    BY <1>6 DEF LoopWrites
  <2>2. move.sess \in DOMAIN session /\ MayMove(move.sess, move.to)
    BY <2>1 DEF RowInv, MoveSound
  <2> QED BY <2>1, <2>2, WriteStep
<1>7. ASSUME NEW i \in Issues,
             \/ mark_running(i) \/ prep_worktree(i) \/ _preflight_worker_env(i)
             \/ run_sdk_session(i) \/ _run_worker_codex(i) \/ RunRaises(i)
             \/ Submit(i) \/ OpensPull(i) \/ TellsUrl(i) \/ ResultMessage(i) \/ PullCloses(i)
      PROVE  UNCHANGED session
  BY <1>7 DEF mark_running, prep_worktree, _preflight_worker_env, run_sdk_session,
     _run_worker_codex, RunRaises, Submit, OpensPull, TellsUrl, ResultMessage, PullCloses, table
<1>8. ASSUME \/ DrainPool \/ NextTick \/ boot \/ recover_sessions \/ FirstTick \/ Restart
             \/ _run_crash_recovery \/ Crash
      PROVE  UNCHANGED session
  BY <1>8 DEF DrainPool, NextTick, boot, recover_sessions, FirstTick, Restart,
     _run_crash_recovery, Crash, table
<1> QED BY <1>1, <1>2, <1>3, <1>4, <1>5, <1>6, <1>7, <1>8
        DEF SessionNext, LoopStep, WorkerStep

(* The table moves a session along the edges of worker_state.py, one session *)
(* at a time and out of merged and abandoned never, although a transition is *)
(* checked against one reading of the row and written by another statement.  *)
THEOREM TableImplementsFsm == SessionSpec => ImplementsFsm
<1>1. SessionInit => Fsm!Init
  BY DEF SessionInit, Fsm!Init
<1>2. RowInv /\ [SessionNext]_sessionVars
         => [Fsm!Next]_([s \in DOMAIN session |-> session[s].state])
  <2> SUFFICES ASSUME RowInv, [SessionNext]_sessionVars
               PROVE  [Fsm!Next]_([s \in DOMAIN session |-> session[s].state])
    OBVIOUS
  <2>1. FsmStep
    <3>1. CASE UNCHANGED sessionVars
      BY <3>1 DEF FsmStep, sessionVars, StatesOf
    <3> QED BY <3>1, SessionSteps
  <2> QED BY <2>1 DEF FsmStep, StatesOf, Fsm!Next, Fsm!Create, Fsm!Move
<1> QED BY <1>1, <1>2, InitRowInv, NextRowInv, PTL DEF SessionSpec, ImplementsFsm, Fsm!Spec

-----------------------------------------------------------------------------
(* A review. *)

(* A report as it is parsed: what it approves violates no manifesto severely. *)
Coerced(report) == report.overall = "approve" => "sev1" \notin report.manifesto

-----------------------------------------------------------------------------
(* Reading a report. *)

LEMMA ReportFields ==
    ASSUME NEW r \in Reports
    PROVE  /\ r.overall \in VALID_OVERALL /\ r.findings \in SUBSET VALID_SEVERITY
           /\ r.manifesto \in SUBSET VALID_SEVERITY /\ r.path \in BOOLEAN
           /\ r.follow_ups \in SUBSET VALID_SEVERITY
           /\ r # NoReport
  BY DEF Reports, NoReport, VALID_OVERALL

LEMMA ReportIs ==
    ASSUME NEW overall \in VALID_OVERALL, NEW findings \in SUBSET VALID_SEVERITY,
           NEW manifesto \in SUBSET VALID_SEVERITY, NEW path \in BOOLEAN,
           NEW follow_ups \in SUBSET VALID_SEVERITY
    PROVE  [overall |-> overall, findings |-> findings, manifesto |-> manifesto, path |-> path,
            follow_ups |-> follow_ups] \in Reports
  BY DEF Reports

(* A set of positions of a text has a last one. *)
LEMMA LastIs ==
    ASSUME NEW n \in Nat, NEW S, S \subseteq 1..n, S # {}
    PROVE  LastOf(S) \in S
  <1> DEFINE R == {ss \in Nat \X Nat : ss[1] < ss[2]}
  <1>1. IsWellFoundedOn(R, Nat)
    BY NatLessThanWellFounded DEF OpToRel
  <1>2. \A x, y \in Nat : x < y => <<x, y>> \in R
    OBVIOUS
  <1>3. PICK T : T = {n - x : x \in S}
    OBVIOUS
  <1>4. T \subseteq Nat /\ T # {}
    <2>1. T \subseteq Nat
      BY <1>3
    <2>2. T # {}
      BY <1>3
    <2>3. QED  BY <2>1, <2>2
  <1> HIDE DEF R
  <1>5. PICK t \in T : \A y \in T : ~(<<y, t>> \in R)
    BY <1>1, <1>4, WFMin
  <1>6. PICK k \in S : t = n - k
    BY <1>3
  <1>7. ASSUME NEW j \in S PROVE j <= k
    <2>1. n - j \in T
      BY <1>3
    <2>2. n - j \in Nat /\ t \in Nat
      BY <1>4, <2>1
    <2>3. ~(n - j < t)
      BY <1>2, <1>5, <2>1, <2>2
    <2>4. j \in 1..n /\ k \in 1..n
      OBVIOUS
    <2>5. QED  BY <1>6, <2>3, <2>4
  <1>8. QED  BY <1>7 DEF LastOf

Obj == [clean : BOOLEAN, overall : VALID_OVERALL \cup {"junk"},
        findings : SUBSET (VALID_SEVERITY \cup {"junk"}),
        manifesto : SUBSET (VALID_SEVERITY \cup {"junk"}), path : BOOLEAN]

LEMMA CoerceIs ==
    ASSUME NEW obj \in Obj, NEW r, r = _coerce_report(obj)
    PROVE  r = NoReport \/ (r \in Reports /\ Coerced(r))
  <1>1. CASE obj.overall \notin VALID_OVERALL
    BY <1>1 DEF _coerce_report
  <1>2. CASE obj.overall \in VALID_OVERALL
    <2>1. PICK manifesto : manifesto = {IF sev \in VALID_SEVERITY THEN sev ELSE "sev3" : sev \in obj.manifesto}
      OBVIOUS
    <2>2. manifesto \in SUBSET VALID_SEVERITY
      BY <2>1 DEF VALID_SEVERITY
    <2>3. PICK overall : overall = IF obj.overall = "approve" /\ "sev1" \in manifesto
                                   THEN "request_changes" ELSE obj.overall
      OBVIOUS
    <2>4. overall \in VALID_OVERALL /\ (overall = "approve" => "sev1" \notin manifesto)
      BY <1>2, <2>3 DEF VALID_OVERALL
    <2>5. PICK findings : findings = obj.findings \cap VALID_SEVERITY
      OBVIOUS
    <2>6. findings \in SUBSET VALID_SEVERITY /\ obj.path \in BOOLEAN /\ {} \in SUBSET VALID_SEVERITY
      BY <2>5 DEF Obj
    <2>7. r = [overall |-> overall, findings |-> findings, manifesto |-> manifesto,
               path |-> obj.path, follow_ups |-> {}]
      BY <1>2, <2>1, <2>3, <2>5 DEF _coerce_report
    <2>8. r \in Reports
      BY <2>2, <2>4, <2>6, <2>7, ReportIs
    <2>9. Coerced(r)
      BY <2>4, <2>7 DEF Coerced
    <2>10. QED  BY <2>8, <2>9
  <1>3. QED  BY <1>1, <1>2

LEMMA ParseIs ==
    ASSUME NEW text \in Texts \cup {<<>>}, NEW r, r = parse_report_from_text(text)
    PROVE  r = NoReport \/ (r \in Reports /\ Coerced(r))
  <1>1. text \in Seq(Obj)
    <2>1. CASE text \in Texts
      BY <2>1, CriticAssumption DEF Obj
    <2>2. CASE text = <<>>
      BY <2>2
    <2>3. QED  BY <2>1, <2>2
  <1>2. PICK n \in Nat : DOMAIN text = 1..n
    BY <1>1
  <1>3. \A k \in 1..n : text[k] \in Obj
    BY <1>1, <1>2
  <1>4. PICK valid, clean : /\ valid = {k \in DOMAIN text : _coerce_report(text[k]) # NoReport}
                            /\ clean = {k \in valid : text[k].clean}
    OBVIOUS
  <1>5. valid \subseteq 1..n /\ clean \subseteq 1..n
    BY <1>2, <1>4
  <1>6. CASE clean # {}
    <2>1. r = _coerce_report(text[LastOf(clean)])
      BY <1>4, <1>6 DEF parse_report_from_text
    <2>2. QED  BY <1>3, <1>5, <1>6, <2>1, LastIs, CoerceIs
  <1>7. CASE clean = {} /\ valid # {}
    <2>1. r = _coerce_report(text[LastOf(valid)])
      BY <1>4, <1>7 DEF parse_report_from_text
    <2>2. QED  BY <1>3, <1>5, <1>7, <2>1, LastIs, CoerceIs
  <1>8. CASE clean = {} /\ valid = {}
    BY <1>4, <1>8 DEF parse_report_from_text
  <1>9. QED  BY <1>6, <1>7, <1>8

-----------------------------------------------------------------------------
(* What is made of it. *)

LEMMA AddIs ==
    ASSUME NEW report \in Reports, NEW found \in BOOLEAN, NEW r, r = AddFinding(report, found)
    PROVE  /\ r \in Reports /\ r.manifesto = report.manifesto
           /\ r.findings = report.findings \cup (IF found THEN {"sev1"} ELSE {})
           /\ r.overall = IF found /\ report.overall = "approve" THEN "request_changes"
                          ELSE report.overall
  <1>1. CASE ~found
    BY <1>1 DEF AddFinding
  <1>2. CASE found
    <2>1. PICK findings, overall :
             /\ findings = report.findings \cup {"sev1"}
             /\ overall = IF report.overall = "approve" THEN "request_changes" ELSE report.overall
      OBVIOUS
    <2>2. /\ findings \in SUBSET VALID_SEVERITY /\ overall \in VALID_OVERALL
          /\ FALSE \in BOOLEAN /\ {} \in SUBSET VALID_SEVERITY
      BY <2>1, ReportFields DEF VALID_SEVERITY, VALID_OVERALL
    <2>3. r = [report EXCEPT !.findings = findings, !.overall = overall, !.path = FALSE,
                             !.follow_ups = {}]
      BY <1>2, <2>1 DEF AddFinding
    <2>4. r \in Reports /\ r.manifesto = report.manifesto /\ r.findings = findings
          /\ r.overall = overall
      BY <2>2, <2>3 DEF Reports
    <2>5. QED  BY <1>2, <2>1, <2>4
  <1>3. QED  BY <1>1, <1>2

LEMMA DemoteIs ==
    ASSUME NEW report \in Reports, NEW round, NEW r, r = demote_sev3_if_stalled(report, round)
    PROVE  /\ r \in Reports /\ r.findings \subseteq report.findings
           /\ report.findings \cap {"sev1", "sev2"} \subseteq r.findings
           /\ \/ r.overall = report.overall
              \/ r.overall = "approve" /\ report.overall = "request_changes" /\ ~Severe(report)
  <1>1. CASE Threshold = 0 \/ round < Threshold \/ "sev3" \notin report.findings
    BY <1>1 DEF demote_sev3_if_stalled
  <1>2. CASE ~(Threshold = 0 \/ round < Threshold \/ "sev3" \notin report.findings)
    <2>1. PICK blocking, still, overall, follow_ups :
             /\ blocking = report.findings \ {"sev3"}
             /\ still = (\/ blocking # {} \/ report.overall = "block"
                         \/ report.manifesto \cap {"sev1", "sev2"} # {})
             /\ overall = IF report.overall = "request_changes" /\ ~still THEN "approve"
                          ELSE report.overall
             /\ follow_ups = report.follow_ups \cup {"sev3"}
      OBVIOUS
    <2>2. r = [report EXCEPT !.findings = blocking, !.follow_ups = follow_ups, !.overall = overall]
      BY <1>2, <2>1 DEF demote_sev3_if_stalled
    <2>3. /\ blocking \in SUBSET VALID_SEVERITY /\ overall \in VALID_OVERALL
          /\ follow_ups \in SUBSET VALID_SEVERITY
      BY <2>1, ReportFields DEF VALID_SEVERITY, VALID_OVERALL
    <2>4. r \in Reports /\ r.findings = blocking /\ r.overall = overall
      BY <2>2, <2>3 DEF Reports
    <2>5. overall # report.overall => ~still /\ overall = "approve" /\ report.overall = "request_changes"
      BY <2>1
    <2>6. ~still => ~Severe(report)
      BY <2>1 DEF Severe
    <2>7. QED  BY <2>1, <2>4, <2>5, <2>6
  <1>3. QED  BY <1>1, <1>2

(* The outcome keeps what is severe, and approves only what the critic did or *)
(* what had nothing but nits.                                                 *)
LEMMA FinalizeIs ==
    ASSUME NEW report \in Reports, Coerced(report), NEW round, NEW seen,
           NEW r, r = _finalize_report(report, round, seen)
    PROVE  /\ r \in Reports
           /\ report.findings \cap {"sev1", "sev2"} \subseteq r.findings
           /\ r.overall = "approve" =>
                 /\ report.overall = "approve" \/ (report.overall = "request_changes" /\ ~Severe(report))
                 /\ "sev1" \notin report.manifesto
                 /\ r.findings \subseteq report.findings
  <1>1. PICK one, two : /\ one = AddFinding(report, detect_precommit_bypass(seen))
                        /\ two = AddFinding(one, detect_pip_editable_poison(seen))
    OBVIOUS
  <1>2. detect_precommit_bypass(seen) \in BOOLEAN /\ detect_pip_editable_poison(seen) \in BOOLEAN
    BY DEF detect_precommit_bypass, detect_pip_editable_poison
  <1>3. PICK found \in BOOLEAN :
           /\ two \in Reports /\ two.manifesto = report.manifesto
           /\ two.findings = report.findings \cup (IF found THEN {"sev1"} ELSE {})
           /\ two.overall = IF found /\ report.overall = "approve" THEN "request_changes"
                            ELSE report.overall
    <2>1. PICK f \in BOOLEAN, g \in BOOLEAN : f = detect_precommit_bypass(seen) /\ g = detect_pip_editable_poison(seen)
      BY <1>2
    <2>2. /\ one \in Reports /\ one.manifesto = report.manifesto
          /\ one.findings = report.findings \cup (IF f THEN {"sev1"} ELSE {})
          /\ one.overall = IF f /\ report.overall = "approve" THEN "request_changes"
                           ELSE report.overall
      BY <1>1, <2>1, AddIs
    <2>3. /\ two \in Reports /\ two.manifesto = one.manifesto
          /\ two.findings = one.findings \cup (IF g THEN {"sev1"} ELSE {})
          /\ two.overall = IF g /\ one.overall = "approve" THEN "request_changes" ELSE one.overall
      <3>1. two = AddFinding(one, g) /\ one \in Reports
        BY <1>1, <2>1, <2>2
      <3>2. QED  BY <3>1, AddIs
    <2>4. PICK h \in BOOLEAN : h = (f \/ g)
      OBVIOUS
    <2>5. two.findings = report.findings \cup (IF h THEN {"sev1"} ELSE {})
      BY <2>2, <2>3, <2>4
    <2>6. two.overall = IF h /\ report.overall = "approve" THEN "request_changes" ELSE report.overall
      BY <2>2, <2>3, <2>4
    <2>7. QED  BY <2>2, <2>3, <2>5, <2>6
  <1>4. r = demote_sev3_if_stalled(two, round)
    BY <1>1 DEF _finalize_report, _with_deterministic_findings
  <1>5. /\ r \in Reports /\ r.findings \subseteq two.findings
        /\ two.findings \cap {"sev1", "sev2"} \subseteq r.findings
        /\ \/ r.overall = two.overall
           \/ r.overall = "approve" /\ two.overall = "request_changes" /\ ~Severe(two)
    BY <1>3, <1>4, DemoteIs
  <1>6. ASSUME r.overall = "approve"
        PROVE  /\ report.overall = "approve" \/ (report.overall = "request_changes" /\ ~Severe(report))
               /\ "sev1" \notin report.manifesto
               /\ r.findings \subseteq report.findings
    <2>1. CASE two.overall = "approve"
      BY <1>3, <1>5, <2>1 DEF Coerced
    <2>2. CASE two.overall = "request_changes" /\ ~Severe(two)
      <3>1. ~found /\ two.findings = report.findings
        BY <1>3, <2>2 DEF Severe
      <3>2. QED  BY <1>3, <1>5, <2>2, <3>1 DEF Severe
    <2>3. QED  BY <1>5, <1>6, <2>1, <2>2
  <1>7. QED  BY <1>3, <1>5, <1>6

-----------------------------------------------------------------------------
(* The inductive invariant. *)

(* The stamps of sessions, not of error logs: each is of a second of its own. *)
Stamps(ls) == {log.at : log \in {l \in ls : l.suffix # "error"}}

GivenSound ==
    /\ given = NoReport \/ (given \in Reports /\ Coerced(given))
    /\ review.pc = "finalize" => given # NoReport

OutcomeSound ==
    /\ review.pc # "idle" => outcome = NoOutcome
    /\ OnlyNitsAreRelaxed /\ SevereSurvives

(* A session's stamp is of the second it began in, after all the others.  *)
RoundsSound ==
    /\ review.pc \in {"attempt", "codex"} => review.began = second
    /\ \A t \in Stamps(logs) : t < second
    /\ completed + (IF review.pc = "finalize" THEN 1 ELSE 0) <= Cardinality(Stamps(logs))
    /\ RoundsNotUndercounted

CriticSound == CriticTypeOK /\ GivenSound /\ OutcomeSound /\ RoundsSound

Log == [at : 0..MaxSecond, suffix : {"0", "1", "codex", "error"}]
Review == [pc : {"idle", "attempt", "codex", "finalize"}, attempt : 0.._CRITIC_ATTEMPTS - 1,
           round : Nat, began : 0..MaxSecond]

LEMMA StampsFinite ==
    ASSUME NEW ls, ls \subseteq Log
    PROVE  /\ IsFiniteSet(Stamps(ls)) /\ Cardinality(Stamps(ls)) \in Nat
           /\ Stamps(ls) \subseteq 0..MaxSecond
           /\ Cardinality(Stamps(ls)) <= Cardinality({log.at : log \in ls})
           /\ Cardinality({log.at : log \in ls}) \in Nat
  <1>1. PICK all, some : all = {log.at : log \in ls} /\ some = Stamps(ls)
    OBVIOUS
  <1>2. some \subseteq all
    BY <1>1 DEF Stamps
  <1>3. all \subseteq 0..MaxSecond
    BY <1>1 DEF Log
  <1>4. IsFiniteSet(0..MaxSecond)
    BY CriticAssumption, FS_Interval
  <1>5. IsFiniteSet(all)
    BY <1>3, <1>4, FS_Subset
  <1>6. IsFiniteSet(some) /\ Cardinality(some) <= Cardinality(all)
    BY <1>2, <1>5, FS_Subset
  <1>7. Cardinality(some) \in Nat /\ Cardinality(all) \in Nat
    BY <1>5, <1>6, FS_CardinalityType
  <1>8. QED  BY <1>1, <1>2, <1>3, <1>6, <1>7

(* A session's log, and perhaps an error log. *)
Logged(ls, suffix, at, more) == (ls \cup {Wrote(suffix, at)}) \cup more
AreErrors(more) == \A log \in more : log.suffix = "error" /\ log \in Log

(* A session's log is a stamp more. *)
LEMMA StampsGrow ==
    ASSUME NEW ls, ls \subseteq Log, NEW at \in 0..MaxSecond, at \notin Stamps(ls),
           NEW suffix \in {"0", "1", "codex"}, NEW more, AreErrors(more)
    PROVE  /\ Stamps(Logged(ls, suffix, at, more)) = Stamps(ls) \cup {at}
           /\ Cardinality(Stamps(Logged(ls, suffix, at, more))) = Cardinality(Stamps(ls)) + 1
  <1>1. PICK log, all : /\ log = Wrote(suffix, at) /\ all = (ls \cup {log}) \cup more
                        /\ all = Logged(ls, suffix, at, more)
    BY DEF Logged
  <1>2. log.at = at /\ log.suffix # "error"
    BY <1>1 DEF Wrote
  <1>3. {l \in all : l.suffix # "error"} = {l \in ls : l.suffix # "error"} \cup {log}
    BY <1>1, <1>2 DEF AreErrors
  <1>4. Stamps(all) = Stamps(ls) \cup {at}
    BY <1>2, <1>3 DEF Stamps
  <1>5. Cardinality(Stamps(ls) \cup {at}) = Cardinality(Stamps(ls)) + 1
    BY StampsFinite, FS_AddElement
  <1>6. QED  BY <1>1, <1>4, <1>5

LEMMA CriticTypes ==
    ASSUME CriticSound
    PROVE  /\ second \in 0..MaxSecond /\ MaxSecond \in Nat /\ logs \subseteq Log /\ review \in Review
           /\ facts \in FactSets /\ completed \in Nat
           /\ review.began \in 0..MaxSecond /\ review.round \in Nat
           /\ review.attempt \in 0.._CRITIC_ATTEMPTS - 1
           /\ \A t \in Stamps(logs) : t < second
  <1>1. /\ second \in 0..MaxSecond /\ MaxSecond \in Nat /\ logs \subseteq Log /\ review \in Review
        /\ facts \in FactSets /\ completed \in Nat
    BY CriticAssumption DEF CriticSound, CriticTypeOK, Log, Review
  <1>2. QED  BY <1>1 DEF Review, CriticSound, RoundsSound

Classes == {"event_loop_closed", "parse_failure", "timeout", "sdk_transport", "unknown"}

(* The session that is under way ends, and its log is written. *)
SessionEnds(suffix) ==
    /\ review.pc \in {"attempt", "codex"} /\ TimePasses /\ suffix \in {"0", "1", "codex"}
    /\ killed' \in BOOLEAN /\ UNCHANGED <<facts, completed>>

LEMMA SessionCounts ==
    ASSUME CriticSound, NEW suffix, SessionEnds(suffix), NEW more, AreErrors(more),
           logs' = Logged(logs, suffix, review.began, more)
    PROVE  /\ logs' \subseteq Log
           /\ \A t \in Stamps(logs') : t < second'
           /\ completed + 1 <= Cardinality(Stamps(logs'))
           /\ second' \in 0..MaxSecond
           /\ review.round >= completed
  <1>1. review.began = second /\ review.round >= completed /\ completed <= Cardinality(Stamps(logs))
    <2>1. review.pc # "idle" /\ review.pc # "finalize"
      BY DEF SessionEnds
    <2>2. completed + 0 <= Cardinality(Stamps(logs))
      BY <2>1 DEF CriticSound, RoundsSound
    <2>3. QED  BY <2>1, <2>2, CriticTypes DEF SessionEnds, CriticSound, RoundsSound, RoundsNotUndercounted
  <1>2. PICK now, then : now = second /\ then = second'
    OBVIOUS
  <1>3. now \in 0..MaxSecond /\ then \in (now + 1)..MaxSecond
    BY <1>2, CriticTypes DEF SessionEnds, TimePasses
  <1>4. now \notin Stamps(logs)
    BY <1>2, <1>3, CriticTypes
  <1>5. PICK all : all = Logged(logs, suffix, now, more)
    OBVIOUS
  <1>6. /\ Stamps(all) = Stamps(logs) \cup {now}
        /\ Cardinality(Stamps(all)) = Cardinality(Stamps(logs)) + 1
    <2>1. suffix \in {"0", "1", "codex"} /\ logs \subseteq Log
      BY CriticTypes DEF SessionEnds
    <2>2. QED  BY <1>3, <1>4, <1>5, <2>1, StampsGrow
  <1>7. logs' = all
    BY <1>1, <1>2, <1>5
  <1>8. \A t \in Stamps(all) : t < then
    <2>1. \A t \in Stamps(logs) : t \in 0..MaxSecond /\ t < now
      BY <1>2, CriticTypes, StampsFinite
    <2>2. QED  BY <1>3, <1>6, <2>1, CriticTypes
  <1>9. all \subseteq Log
    <2>1. Wrote(suffix, now) \in Log
      BY <1>3 DEF Wrote, Log, SessionEnds
    <2>2. QED  BY <1>5, <2>1, CriticTypes DEF Logged, AreErrors
  <1>10. completed + 1 <= Cardinality(Stamps(all))
    <2>1. Cardinality(Stamps(logs)) \in Nat /\ completed \in Nat
      BY CriticTypes, StampsFinite
    <2>2. QED  BY <1>1, <1>6, <2>1
  <1>11. then \in 0..MaxSecond
    BY <1>3, CriticTypes
  <1>12. QED  BY <1>1, <1>2, <1>7, <1>8, <1>9, <1>10, <1>11

-----------------------------------------------------------------------------
(* The steps. *)

LEMMA ErrsKeeps ==
    ASSUME CriticSound, NEW suffix, SessionEnds(suffix), NEW class \in Classes,
           Errs(class, {Wrote(suffix, review.began)})
    PROVE  CriticSound'
  <1>1. PICK more : more = {Wrote("error", second')}
    OBVIOUS
  <1>2. second' \in 0..MaxSecond
    BY CriticTypes DEF SessionEnds, TimePasses
  <1>3. AreErrors(more)
    BY <1>1, <1>2 DEF Wrote, Log, AreErrors
  <1>4. logs' = Logged(logs, suffix, review.began, more)
    BY <1>1 DEF Errs, Logged
  <1>5. /\ logs' \subseteq Log
        /\ \A t \in Stamps(logs') : t < second'
        /\ completed + 1 <= Cardinality(Stamps(logs'))
    BY <1>3, <1>4, SessionCounts
  <1>6. /\ review' = [pc |-> "idle", attempt |-> 0, round |-> 0, began |-> 0]
        /\ outcome' = [verdict |-> "error", report |-> NoReport, class |-> class]
        /\ UNCHANGED <<given, facts, completed>> /\ killed' \in BOOLEAN
    BY DEF Errs, NoReview, SessionEnds
  <1>7. CriticTypeOK'
    <2>1. review' \in Review
      BY <1>6, CriticTypes DEF Review, _CRITIC_ATTEMPTS
    <2>2. given' \in Reports \cup {NoReport} /\ facts' \in FactSets /\ completed' \in Nat
      BY <1>6 DEF CriticSound, CriticTypeOK
    <2>3. QED  BY <1>2, <1>5, <1>6, <2>1, <2>2 DEF CriticTypeOK, Log, Review, Classes
  <1>8. GivenSound'
    BY <1>6 DEF CriticSound, GivenSound
  <1>9. OutcomeSound'
    BY <1>6 DEF OutcomeSound, OnlyNitsAreRelaxed, SevereSurvives
  <1>10. RoundsSound'
    <2>1. review'.pc = "idle" /\ completed' = completed
      BY <1>6
    <2>2. Cardinality(Stamps(logs')) \in Nat /\ completed \in Nat
      BY <1>5, CriticTypes, StampsFinite
    <2>3. completed + 0 <= Cardinality(Stamps(logs'))
      BY <1>5, <2>2
    <2>4. QED  BY <1>5, <2>1, <2>3 DEF RoundsSound, RoundsNotUndercounted
  <1>11. QED  BY <1>7, <1>8, <1>9, <1>10 DEF CriticSound

LEMMA ReadsKeeps ==
    ASSUME CriticSound, NEW suffix, SessionEnds(suffix), NEW report \in Reports, Coerced(report),
           Reads(report, {Wrote(suffix, review.began)})
    PROVE  CriticSound'
  <1>1. logs' = Logged(logs, suffix, review.began, {}) /\ AreErrors({})
    BY DEF Reads, Logged, AreErrors
  <1>2. /\ logs' \subseteq Log
        /\ \A t \in Stamps(logs') : t < second'
        /\ completed + 1 <= Cardinality(Stamps(logs'))
        /\ second' \in 0..MaxSecond /\ review.round >= completed
    BY <1>1, SessionCounts
  <1>3. /\ review' \in Review /\ review'.pc = "finalize" /\ review'.round = review.round
    BY CriticTypes DEF Reads, Review
  <1>4. /\ given' = report /\ report # NoReport /\ outcome' = NoOutcome
        /\ UNCHANGED <<facts, completed>> /\ killed' \in BOOLEAN
    BY ReportFields DEF Reads, SessionEnds, CriticSound, OutcomeSound
  <1>5. CriticTypeOK'
    BY <1>2, <1>3, <1>4 DEF CriticSound, CriticTypeOK, Log, Review, NoOutcome
  <1>6. GivenSound'
    BY <1>4 DEF GivenSound
  <1>7. OutcomeSound'
    BY <1>4 DEF OutcomeSound, OnlyNitsAreRelaxed, SevereSurvives, NoOutcome
  <1>8. RoundsSound'
    BY <1>2, <1>3, <1>4 DEF RoundsSound, RoundsNotUndercounted
  <1>9. QED  BY <1>5, <1>6, <1>7, <1>8 DEF CriticSound

LEMMA RetriesKeeps ==
    ASSUME CriticSound, NEW suffix, SessionEnds(suffix), review.pc = "attempt",
           review.attempt + 1 < _CRITIC_ATTEMPTS,
           Retries({Wrote(suffix, review.began)})
    PROVE  CriticSound'
  <1>1. logs' = Logged(logs, suffix, review.began, {}) /\ AreErrors({})
    BY DEF Retries, Logged, AreErrors
  <1>2. /\ logs' \subseteq Log
        /\ \A t \in Stamps(logs') : t < second'
        /\ completed + 1 <= Cardinality(Stamps(logs'))
        /\ second' \in 0..MaxSecond /\ review.round >= completed
    BY <1>1, SessionCounts
  <1>3. PICK attempt, began : attempt = review.attempt + 1 /\ began = second'
    OBVIOUS
  <1>4. attempt \in 0.._CRITIC_ATTEMPTS - 1 /\ began \in 0..MaxSecond
    BY <1>2, <1>3, CriticTypes DEF _CRITIC_ATTEMPTS
  <1>5. /\ review' \in Review /\ review'.pc = "attempt" /\ review'.round = review.round
        /\ review'.began = second'
    <2>1. review' = [review EXCEPT !.attempt = attempt, !.began = began]
      BY <1>3 DEF Retries
    <2>2. QED  BY <1>3, <1>4, <2>1, CriticTypes DEF Review
  <1>6. /\ UNCHANGED <<given, outcome, facts, completed>> /\ killed' \in BOOLEAN
    BY DEF Retries, SessionEnds
  <1>7. CriticTypeOK'
    BY <1>2, <1>5, <1>6 DEF CriticSound, CriticTypeOK, Log, Review
  <1>8. GivenSound'
    BY <1>5, <1>6 DEF CriticSound, GivenSound
  <1>9. OutcomeSound'
    BY <1>6 DEF CriticSound, OutcomeSound, OnlyNitsAreRelaxed, SevereSurvives
  <1>10. RoundsSound'
    <2>1. Cardinality(Stamps(logs')) \in Nat /\ completed \in Nat
      BY <1>2, CriticTypes, StampsFinite
    <2>2. completed + 0 <= Cardinality(Stamps(logs'))
      BY <1>2, <2>1
    <2>3. QED  BY <1>2, <1>5, <1>6, <2>2 DEF RoundsSound, RoundsNotUndercounted
  <1>11. QED  BY <1>7, <1>8, <1>9, <1>10 DEF CriticSound

(* A review counts, of the logs there are, at least a stamp for each review   *)
(* that was completed.                                                        *)
LEMMA BeginsKeeps ==
    ASSUME CriticSound, review_pr
    PROVE  CriticSound'
  <1>1. PICK round : round = count_prior_critic_rounds
    OBVIOUS
  <1>2. round \in Nat /\ completed <= round
    <2>1. /\ Cardinality(Stamps(logs)) \in Nat /\ round \in Nat /\ completed \in Nat
          /\ Cardinality(Stamps(logs)) <= round
      BY <1>1, CriticTypes, StampsFinite DEF count_prior_critic_rounds
    <2>2. completed + 0 <= Cardinality(Stamps(logs))
      BY DEF review_pr, CriticSound, RoundsSound
    <2>3. QED  BY <2>1, <2>2
  <1>3. PICK pc \in {"attempt", "codex"} :
           review' = [pc |-> pc, attempt |-> 0, round |-> round, began |-> second]
    BY <1>1 DEF review_pr
  <1>4. /\ review' \in Review /\ review'.pc = pc /\ review'.round = round /\ review'.began = second
    <2>1. 0 \in 0.._CRITIC_ATTEMPTS - 1
      BY DEF _CRITIC_ATTEMPTS
    <2>2. QED  BY <1>2, <1>3, <2>1, CriticTypes DEF Review
  <1>5. /\ given' = NoReport /\ outcome' = NoOutcome /\ killed' = FALSE
        /\ UNCHANGED <<second, logs, facts, completed>>
    BY DEF review_pr
  <1>6. CriticTypeOK'
    BY <1>4, <1>5 DEF CriticSound, CriticTypeOK, Review, NoOutcome
  <1>7. GivenSound'
    BY <1>4, <1>5 DEF GivenSound
  <1>8. OutcomeSound'
    BY <1>5 DEF OutcomeSound, OnlyNitsAreRelaxed, SevereSurvives, NoOutcome
  <1>9. RoundsSound'
    BY <1>2, <1>4, <1>5 DEF review_pr, CriticSound, RoundsSound, RoundsNotUndercounted
  <1>10. QED  BY <1>6, <1>7, <1>8, <1>9 DEF CriticSound

LEMMA SdkKeeps ==
    ASSUME CriticSound, SdkAttempt
    PROVE  CriticSound'
  <1>1. PICK text \in Texts \cup {<<>>},
             class \in {"none", "deadline", "event_loop_closed", "sdk_transport", "timeout", "unknown"} :
           LET error == run_critic_sdk(text, class)
               written == {Wrote(Attempt, review.began)}
               more == review.attempt + 1 < _CRITIC_ATTEMPTS
               report == parse_report_from_text(text)
           IN  /\ killed' = (killed \/ class = "deadline")
               /\ \/ /\ error # "none" /\ is_transient_critic_error(error) /\ more
                     /\ Retries(written)
                  \/ /\ error # "none" /\ ~(is_transient_critic_error(error) /\ more)
                     /\ Errs(error, written)
                  \/ /\ error = "none" /\ report # NoReport
                     /\ Reads(report, written)
                  \/ /\ error = "none" /\ report = NoReport /\ more
                     /\ Retries(written)
                  \/ /\ error = "none" /\ report = NoReport /\ ~more
                     /\ Errs("parse_failure", written)
    BY DEF SdkAttempt
  <1>0. PICK error, written, report :
           /\ error = run_critic_sdk(text, class)
           /\ written = {Wrote(Attempt, review.began)}
           /\ report = parse_report_from_text(text)
           /\ killed' = (killed \/ class = "deadline")
           /\ \/ error # "none" /\ review.attempt + 1 < _CRITIC_ATTEMPTS /\ Retries(written)
              \/ error # "none" /\ Errs(error, written)
              \/ error = "none" /\ report # NoReport /\ Reads(report, written)
              \/ error = "none" /\ review.attempt + 1 < _CRITIC_ATTEMPTS /\ Retries(written)
              \/ error = "none" /\ Errs("parse_failure", written)
    BY <1>1
  <1>2. Attempt \in {"0", "1"}
    <2>1. review.attempt \in {0, 1}
      BY CriticTypes DEF _CRITIC_ATTEMPTS
    <2>2. QED  BY <2>1 DEF Attempt
  <1>3. review.pc = "attempt" /\ SessionEnds(Attempt)
    BY <1>0, <1>2 DEF SdkAttempt, SessionEnds, CriticSound, CriticTypeOK
  <1>4. error \in Classes \cup {"none"}
    BY <1>0 DEF run_critic_sdk, Classes
  <1>5. report # NoReport => report \in Reports /\ Coerced(report)
    BY <1>0, ParseIs
  <1>6. "parse_failure" \in Classes
    BY DEF Classes
  <1>7. QED  BY <1>0, <1>3, <1>4, <1>5, <1>6, ErrsKeeps, ReadsKeeps, RetriesKeeps

LEMMA CodexKeeps ==
    ASSUME CriticSound, CodexAttempt
    PROVE  CriticSound'
  <1>1. PICK written : written = {Wrote("codex", review.began)}
    OBVIOUS
  <1>2. \/ killed' = TRUE /\ Errs("timeout", written)
        \/ UNCHANGED killed /\ Errs("parse_failure", written)
        \/ /\ UNCHANGED killed
           /\ \E text \in Texts \cup {<<>>} : /\ parse_report_from_text(text) # NoReport
                                              /\ Reads(parse_report_from_text(text), written)
    BY <1>1 DEF CodexAttempt
  <1>3. SessionEnds("codex")
    BY <1>2 DEF CodexAttempt, SessionEnds, CriticSound, CriticTypeOK
  <1>4. {"timeout", "parse_failure"} \subseteq Classes
    BY DEF Classes
  <1>5. CASE \E text \in Texts \cup {<<>>} : /\ parse_report_from_text(text) # NoReport
                                             /\ Reads(parse_report_from_text(text), written)
    <2>0. PICK text \in Texts \cup {<<>>} : /\ parse_report_from_text(text) # NoReport
                                           /\ Reads(parse_report_from_text(text), written)
      BY <1>5
    <2>1. PICK report :
             report = parse_report_from_text(text) /\ report # NoReport /\ Reads(report, written)
      BY <2>0
    <2>2. report \in Reports /\ Coerced(report)
      BY <2>1, ParseIs
    <2>3. QED  BY <1>1, <1>3, <2>1, <2>2, ReadsKeeps
  <1>6. QED  BY <1>1, <1>2, <1>3, <1>4, <1>5, ErrsKeeps

LEMMA FinalizeKeeps ==
    ASSUME CriticSound, Finalize
    PROVE  CriticSound'
  <1>1. PICK report : report = _finalize_report(given, review.round, facts)
    OBVIOUS
  <1>2. given \in Reports /\ Coerced(given)
    BY DEF Finalize, CriticSound, GivenSound
  <1>3. /\ report \in Reports
        /\ given.findings \cap {"sev1", "sev2"} \subseteq report.findings
        /\ report.overall = "approve" =>
              /\ given.overall = "approve" \/ (given.overall = "request_changes" /\ ~Severe(given))
              /\ "sev1" \notin given.manifesto
              /\ report.findings \subseteq given.findings
    BY <1>1, <1>2, FinalizeIs
  <1>4. PICK verdict : verdict = _verdict_from_overall(report.overall)
    OBVIOUS
  <1>5. verdict \in {"approved", "blocked", "changes_requested"} /\ (verdict = "approved" => report.overall = "approve")
    BY <1>3, <1>4, ReportFields DEF _verdict_from_overall, VALID_OVERALL
  <1>6. /\ outcome' = [verdict |-> verdict, report |-> report, class |-> "none"]
        /\ review' = [pc |-> "idle", attempt |-> 0, round |-> 0, began |-> 0]
        /\ completed' = completed + 1
        /\ UNCHANGED <<second, logs, facts, given, killed>>
    BY <1>1, <1>4 DEF Finalize, NoReview
  <1>7. CriticTypeOK'
    <2>1. review' \in Review
      BY <1>6, CriticTypes DEF Review, _CRITIC_ATTEMPTS
    <2>2. completed' \in Nat
      BY <1>6, CriticTypes
    <2>3. QED  BY <1>3, <1>5, <1>6, <2>1, <2>2 DEF CriticSound, CriticTypeOK, Review
  <1>8. GivenSound'
    BY <1>6 DEF CriticSound, GivenSound
  <1>9. OutcomeSound'
    BY <1>3, <1>5, <1>6 DEF OutcomeSound, OnlyNitsAreRelaxed, SevereSurvives
  <1>10. RoundsSound'
    <2>1. completed + 1 <= Cardinality(Stamps(logs)) /\ completed \in Nat /\ Cardinality(Stamps(logs)) \in Nat
      BY CriticTypes, StampsFinite DEF Finalize, CriticSound, RoundsSound
    <2>2. (completed + 1) + 0 <= Cardinality(Stamps(logs))
      BY <2>1
    <2>3. QED  BY <1>6, <2>2 DEF CriticSound, RoundsSound, RoundsNotUndercounted
  <1>11. QED  BY <1>7, <1>8, <1>9, <1>10 DEF CriticSound

LEMMA PushKeeps ==
    ASSUME CriticSound, WorkerPushes
    PROVE  CriticSound'
  BY DEF CriticSound, WorkerPushes, CriticTypeOK, GivenSound, OutcomeSound, OnlyNitsAreRelaxed,
         SevereSurvives, RoundsSound, RoundsNotUndercounted

LEMMA InitSound ==
    ASSUME CriticInit
    PROVE  CriticSound
  <1>1. CriticTypeOK
    <2>1. 0 \in 0..MaxSecond /\ 0 \in 0.._CRITIC_ATTEMPTS - 1
      BY CriticAssumption DEF _CRITIC_ATTEMPTS
    <2>2. review \in Review
      BY <2>1 DEF CriticInit, NoReview, Review
    <2>3. facts \in FactSets
      BY CriticAssumption DEF CriticInit
    <2>4. QED  BY <2>1, <2>2, <2>3 DEF CriticInit, CriticTypeOK, NoOutcome, Review
  <1>2. GivenSound
    BY DEF CriticInit, GivenSound, NoReview
  <1>3. OutcomeSound
    BY DEF CriticInit, OutcomeSound, OnlyNitsAreRelaxed, SevereSurvives, NoReview, NoOutcome
  <1>4. RoundsSound
    <2>1. Stamps(logs) = {}
      BY DEF CriticInit, Stamps
    <2>2. Cardinality(Stamps(logs)) = 0
      BY <2>1, FS_EmptySet
    <2>3. QED  BY <2>1, <2>2 DEF CriticInit, RoundsSound, RoundsNotUndercounted, NoReview
  <1>5. QED  BY <1>1, <1>2, <1>3, <1>4 DEF CriticSound

(* Of every review: it approves nothing severe that the critic did not, it    *)
(* loses no severe finding, and it knows of every review that was completed,  *)
(* whatever the critic says, however its sessions end and whatever is pushed. *)
THEOREM ReviewIsSound == CriticSpec => []CriticInv
  <1>1. CriticInit => CriticSound
    BY InitSound
  <1>2. CriticSound /\ [CriticNext]_criticVars => CriticSound'
    <2> SUFFICES ASSUME CriticSound, [CriticNext]_criticVars PROVE CriticSound'
      OBVIOUS
    <2>1. CASE UNCHANGED criticVars
      BY <2>1 DEF criticVars, CriticSound, CriticTypeOK, GivenSound, OutcomeSound,
                  OnlyNitsAreRelaxed, SevereSurvives, RoundsSound, RoundsNotUndercounted
    <2>2. CASE CriticNext
      BY <2>2, BeginsKeeps, SdkKeeps, CodexKeeps, FinalizeKeeps, PushKeeps DEF CriticNext
    <2>3. QED  BY <2>1, <2>2
  <1>3. CriticSound => CriticInv
    BY DEF CriticSound, CriticInv, OutcomeSound, RoundsSound
  <1>4. QED  BY <1>1, <1>2, <1>3, PTL DEF CriticSpec
=============================================================================
