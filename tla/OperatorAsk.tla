---------------------------- MODULE OperatorAsk ----------------------------
(* operator.py and the MCP tool ask_operator: workers that put a question   *)
(* on an issue and poll its comments until the operator answered or the     *)
(* time is up.                                                              *)
(*                                                                          *)
(* The issue is a setting of the whole loop (operator.issue), so the        *)
(* workers share it.  A comment is kept as its time on GitHub's clock, the  *)
(* option its marker names, and, for the properties, the question its       *)
(* author had in mind.  The loop's clock differs from GitHub's by `skew`.   *)
(* A worker reacts at once: time stands still while a poll is due, and a    *)
(* poll takes none.                                                         *)
EXTENDS Integers, Sequences, FiniteSets

CONSTANTS
    Askers,          \* the workers that may ask
    Options,         \* the options of a question, the same for all
    timeout_s,       \* AskRequest.timeout_s
    poll_interval_s, \* AskRequest.poll_interval_s
    Skews,           \* what the loop's clock may be ahead of GitHub's; negative, it is behind
    PageSize,        \* comments in the one page issue_comments reads
    MaxNow,          \* bound on the clock
    MaxSays,         \* bound on the operator's comments
    MaxAsks,         \* bound on the questions
    MaxMishaps       \* bound on GitHub calls that fail and workers that are killed

ASSUME AskAssumption ==
    /\ timeout_s \in Nat \ {0} /\ poll_interval_s \in Nat \ {0}
    /\ Skews \subseteq Int /\ PageSize \in Nat \ {0}
    /\ {MaxNow, MaxSays, MaxAsks, MaxMishaps} \subseteq Nat

VARIABLES
    clock,     \* GitHub's clock
    skew,      \* what the loop's is ahead, negative when it is behind
    comments,  \* of the issue, oldest first
    asking,    \* per worker, the call of ask it is in or was last in
    asks,      \* questions so far
    says,      \* comments of the operator so far
    askMishaps \* GitHub calls that failed and workers killed so far

askVars == <<clock, skew, comments, asking, asks, says, askMishaps>>

\* Every second of the clock counts here, so a call is kept by its times on
\* GitHub's clock: since when it runs, its deadline, its next poll.
NoAsk == [pc |-> "idle", q |-> 0, began |-> 0, started |-> 0, deadline |-> 0, wake |-> 0,
          answer |-> 0]

\* now_iso() is read before the question is posted.
Begun(q) == [NoAsk EXCEPT !.pc = "wait", !.q = q, !.began = clock, !.started = clock + skew,
                          !.deadline = clock + timeout_s, !.wake = clock]

Waits(w) == asking[w].pc = "wait"
Due(w)   == Waits(w) /\ asking[w].wake <= clock
Smaller(a, b) == IF a < b THEN a ELSE b

\* issue_comments: the first page only.
issue_comments == SubSeq(comments, 1, Smaller(Len(comments), PageSize))

\* A mutant: an answer of the very second of the question, or before it, counts.
AnswersOfTheSecond(w) == {k \in 1..Len(issue_comments) :
                             /\ issue_comments[k].at >= asking[w].started
                             /\ issue_comments[k].option \in Options}

\* The comments whose marker answers a question begun at `started`.
Answers(w) == {k \in 1..Len(issue_comments) :
                  /\ issue_comments[k].at > asking[w].started
                  /\ issue_comments[k].option \in Options}

\* A mutant: a last comment that is no answer hides the one before it.
match_answerLast(w) == IF Len(issue_comments) \in Answers(w) THEN Len(issue_comments) ELSE 0

\* match_answer: the first of them, 0 if there is none.
match_answer(w) == IF Answers(w) = {} THEN 0
                   ELSE CHOOSE k \in Answers(w) : \A j \in Answers(w) : k <= j

AskInit ==
    /\ clock = 0 /\ skew \in Skews /\ comments = <<>>
    /\ asking = [w \in Askers |-> NoAsk]
    /\ asks = 0 /\ says = 0 /\ askMishaps = 0

\* The question is posted, or the post fails and the worker polls all the same.
Ask(w) ==
    /\ ~Waits(w) /\ asks < MaxAsks
    /\ asks' = asks + 1
    /\ asking' = [asking EXCEPT ![w] = Begun(asks + 1)]
    /\ \/ /\ comments' = Append(comments, [at |-> clock, option |-> "none", meant |-> 0])
          /\ UNCHANGED askMishaps
       \/ /\ askMishaps < MaxMishaps /\ askMishaps' = askMishaps + 1
          /\ UNCHANGED comments
    /\ UNCHANGED <<clock, skew, says>>

\* A mutant: the sleep goes past the deadline.
NextPollUncut(a) == clock + poll_interval_s

\* The sleep between two polls, cut at the deadline.
NextPoll(a) == clock + Smaller(poll_interval_s, a.deadline - clock)

\* One turn of the polling loop: an answer, another sleep or the time is up.
Turn(w, k) ==
    LET a == asking[w] IN
    asking' = [asking EXCEPT ![w] =
        IF clock >= a.deadline THEN [a EXCEPT !.pc = "timeout"]
        ELSE IF k # 0 THEN [a EXCEPT !.pc = "answered", !.answer = k]
        ELSE [a EXCEPT !.wake = NextPoll(a)]]

Poll(w) ==
    /\ Due(w)
    /\ \/ Turn(w, match_answer(w)) /\ UNCHANGED askMishaps
       \/ /\ askMishaps < MaxMishaps /\ askMishaps' = askMishaps + 1
          /\ clock < asking[w].deadline /\ Turn(w, 0)
    /\ UNCHANGED <<clock, skew, comments, asks, says>>

\* The worker that asks is killed by its own time limit, the tool's loop with it.
AskerKilled(w) ==
    /\ Waits(w) /\ askMishaps < MaxMishaps
    /\ askMishaps' = askMishaps + 1
    /\ asking' = [asking EXCEPT ![w] = NoAsk]
    /\ UNCHANGED <<clock, skew, comments, asks, says>>

\* The operator answers a question that was put, or says something else.
Says ==
    /\ says < MaxSays
    /\ \/ \E o \in Options, q \in 1..asks :
             comments' = Append(comments, [at |-> clock, option |-> o, meant |-> q])
       \/ comments' = Append(comments, [at |-> clock, option |-> "none", meant |-> 0])
    /\ says' = says + 1
    /\ UNCHANGED <<clock, skew, asking, asks, askMishaps>>

Second ==
    /\ clock < MaxNow /\ \A w \in Askers : ~Due(w)
    /\ clock' = clock + 1
    /\ UNCHANGED <<skew, comments, asking, asks, says, askMishaps>>

AskNext == \/ \E w \in Askers : Ask(w) \/ Poll(w) \/ AskerKilled(w)
           \/ Says \/ Second

AskSpec == AskInit /\ [][AskNext]_askVars

-----------------------------------------------------------------------------
Comment == [at : 0..MaxNow, option : Options \cup {"none"}, meant : 0..asks]

AskTypeOK ==
    /\ clock \in 0..MaxNow /\ skew \in Skews
    /\ comments \in Seq(Comment)
    /\ \A w \in Askers :
          /\ asking[w].pc \in {"idle", "wait", "answered", "timeout"}
          /\ asking[w].answer \in 0..Len(comments)
    /\ asks \in 0..MaxAsks /\ says \in 0..MaxSays /\ askMishaps \in 0..MaxMishaps

(* The sleep is cut so that no call waits past its deadline (operator.py's  *)
(* "Cap the sleep so the last iteration doesn't overshoot").                *)
NoOvershoot == \A w \in Askers : Waits(w) => clock <= asking[w].deadline

\* What the loop's clock is behind GitHub's.
Behind == IF skew < 0 THEN -skew ELSE 0

(* What the operator said before the question was put decides nothing, be   *)
(* it meant for another question of the same issue or for a call of this    *)
(* worker that was killed (match_answer's posted_after_iso), but in the     *)
(* seconds that the loop's clock is behind GitHub's.                        *)
StaleAnswerIgnored ==
    \A w \in Askers : asking[w].pc = "answered" =>
        /\ comments[asking[w].answer].at + Behind > asking[w].began
        /\ comments[asking[w].answer].option \in Options

(* An answer the operator gave to the question more than a poll before the  *)
(* deadline, on the page that is read and past what the loop's clock is     *)
(* ahead, is not missed: of the calls that fail, each costs one poll        *)
(* (fetch_issue_comments' []).                                              *)
PromptAnswerFound ==
    \A w \in Askers : asking[w].pc = "timeout" =>
        ~\E k \in 1..Smaller(Len(comments), PageSize) :
            /\ comments[k].option \in Options
            /\ comments[k].at > asking[w].started
            /\ comments[k].at >= asking[w].began
            /\ comments[k].at + poll_interval_s * (askMishaps + 1) < asking[w].deadline

AskInv == AskTypeOK /\ NoOvershoot /\ StaleAnswerIgnored /\ PromptAnswerFound

(* operator.py:209 "so we don't match a stale reply from a previous question *)
(* on the same issue": a clock that is behind lets one through.             *)
StaleNeverMatches ==
    \A w \in Askers : asking[w].pc = "answered" =>
        comments[asking[w].answer].at > asking[w].began

(* operator.py:11 "raises OperatorTimeout if no reply arrives within the    *)
(* timeout": it does too if one arrives after the last poll, within the     *)
(* difference of the clocks or past the first page.                         *)
TimeoutMeansSilence ==
    \A w \in Askers : asking[w].pc = "timeout" =>
        ~\E k \in 1..Len(comments) :
            /\ comments[k].option \in Options
            /\ asking[w].began < comments[k].at /\ comments[k].at < asking[w].deadline

(* mcp_server.py:431 has a question answered "on the worker's GitHub        *)
(* issue": the issue is one for all workers, and an answer meant for one    *)
(* question is taken by every other that is open.                           *)
AnsweredByItsAnswer ==
    \A w \in Askers : asking[w].pc = "answered" =>
        comments[asking[w].answer].meant = asking[w].q
=============================================================================
