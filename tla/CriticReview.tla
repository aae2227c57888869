---------------------------- MODULE CriticReview ----------------------------
(***************************************************************************)
(* The reviews of one pull request (critic.py, _critic_sdk.py): a review   *)
(* counts the log files of earlier ones to know its round, runs the critic *)
(* under a deadline with at most one retry, reads a report out of what it  *)
(* said, adds what fixed rules find, and demotes nits when the pull        *)
(* request has stalled.                                                    *)
(*                                                                         *)
(* A report keeps, of its findings and manifesto violations, the           *)
(* severities; what the fixed rules look at is the set `facts`.            *)
(***************************************************************************)
EXTENDS Naturals, Sequences, FiniteSets

CONSTANTS
    Texts,          \* bound: what a critic may say, sequences of JSON objects
    FactSets,       \* bound: what the commits, the log and the diff may show
    Threshold,      \* critic.sev3_demotion_round_threshold
    CriticProviders,\* the values of critic.provider: "claude", "codex"
    MaxSecond       \* bound: the clock, in the seconds of int(time.time())

VARIABLES
    second,     \* the clock
    logs,       \* the critic-<issue>-<second>-<suffix>.log files: [at, suffix]
    review,     \* the review under way: [pc, attempt, round, began, text, deadline]
    facts,      \* what the fixed rules would see in the pull request now
    given,      \* the report the critic gave, as it was parsed
    outcome,    \* the CriticOutcome: [verdict, report, class]
    completed,  \* history: the reviews that ended with a report
    killed      \* history: a session of this review ran into the deadline

criticVars == <<second, logs, review, facts, given, outcome, completed, killed>>

VALID_OVERALL == {"approve", "request_changes", "block"}
VALID_SEVERITY == {"sev1", "sev2", "sev3"}
_CRITIC_ATTEMPTS == 2
Rules == {"no_verify", "body_no_verify", "justified", "worker_log", "editable", "packaging"}

ASSUME CriticAssumption ==
    /\ \A text \in Texts : text \in Seq([clean : BOOLEAN, overall : VALID_OVERALL \cup {"junk"},
                                         findings : SUBSET (VALID_SEVERITY \cup {"junk"}),
                                         manifesto : SUBSET (VALID_SEVERITY \cup {"junk"}),
                                         path : BOOLEAN])
    /\ {} \in FactSets /\ FactSets \subseteq SUBSET Rules /\ Threshold \in Nat /\ MaxSecond \in Nat
    /\ CriticProviders \subseteq {"claude", "codex"}

Reports == [overall : VALID_OVERALL, findings : SUBSET VALID_SEVERITY,
            manifesto : SUBSET VALID_SEVERITY, path : BOOLEAN,
            follow_ups : SUBSET VALID_SEVERITY]

NoReport == [overall |-> "none"]
NoOutcome == [verdict |-> "none", report |-> NoReport, class |-> "none"]
NoReview == [pc |-> "idle", attempt |-> 0, round |-> 0, began |-> 0]

CriticTypeOK ==
    /\ second \in 0..MaxSecond
    /\ logs \subseteq [at : 0..MaxSecond, suffix : {"0", "1", "codex", "error"}]
    /\ review \in [pc : {"idle", "attempt", "codex", "finalize"}, attempt : 0.._CRITIC_ATTEMPTS - 1,
                   round : Nat, began : 0..MaxSecond]
    /\ facts \in FactSets
    /\ given \in Reports \cup {NoReport}
    /\ outcome.verdict \in {"none", "approved", "changes_requested", "blocked", "error"}
    /\ outcome.report \in Reports \cup {NoReport}
    /\ outcome.class \in {"none", "event_loop_closed", "parse_failure", "timeout",
                          "sdk_transport", "unknown"}
    /\ completed \in Nat /\ killed \in BOOLEAN

CriticInit ==
    /\ second = 0 /\ logs = {} /\ review = NoReview /\ facts = {}
    /\ given = NoReport /\ outcome = NoOutcome /\ completed = 0 /\ killed = FALSE

-----------------------------------------------------------------------------
(* Reading a report out of a text. *)

\* Findings that are not valid are dropped; a manifesto violation of an unknown
\* severity is a nit; a severe one turns an approval down.
_coerce_report(obj) ==
    LET manifesto == {IF sev \in VALID_SEVERITY THEN sev ELSE "sev3" : sev \in obj.manifesto}
    IN  IF obj.overall \notin VALID_OVERALL THEN NoReport
        ELSE [overall |-> IF obj.overall = "approve" /\ "sev1" \in manifesto
                          THEN "request_changes" ELSE obj.overall,
              findings |-> obj.findings \cap VALID_SEVERITY, manifesto |-> manifesto,
              path |-> obj.path, follow_ups |-> {}]

LastOf(S) == CHOOSE k \in S : \A other \in S : other <= k

\* The last object alone on a line, else the last one anywhere.
parse_report_from_text(text) ==
    LET valid == {k \in DOMAIN text : _coerce_report(text[k]) # NoReport}
        clean == {k \in valid : text[k].clean}
    IN  CASE clean # {}                -> _coerce_report(text[LastOf(clean)])
          [] clean = {} /\ valid # {}  -> _coerce_report(text[LastOf(valid)])
          [] OTHER                     -> NoReport

-----------------------------------------------------------------------------
(* What is made of a report. *)

\* A rule's finding is sev1 and turns an approval down; the report is rebuilt
\* from four of its fields.
AddFinding(report, found) ==
    IF ~found THEN report
    ELSE [report EXCEPT !.findings = @ \cup {"sev1"},
                        !.overall = IF @ = "approve" THEN "request_changes" ELSE @,
                        !.path = FALSE, !.follow_ups = {}]

detect_precommit_bypass(seen) ==
    seen \cap {"no_verify", "body_no_verify"} # {} /\ "justified" \notin seen

\* Without a worker's log the rule is not asked.
detect_pip_editable_poison(seen) == {"worker_log", "packaging", "editable"} \subseteq seen

_with_deterministic_findings(report, seen) ==
    AddFinding(AddFinding(report, detect_precommit_bypass(seen)),
               detect_pip_editable_poison(seen))

\* Mutants: every blocked report is turned around; the demotion takes sev2 along.
demote_sev3_if_stalledAll(report, round) ==
    IF Threshold = 0 \/ round < Threshold \/ "sev3" \notin report.findings THEN report
    ELSE [report EXCEPT !.findings = @ \ {"sev3"}, !.follow_ups = @ \cup {"sev3"},
                        !.overall = IF @ = "request_changes" THEN "approve" ELSE @]

demote_sev3_if_stalledSev2(report, round) ==
    IF round < Threshold THEN report ELSE [report EXCEPT !.findings = @ \cap {"sev1"}]

\* Once the pull request has stalled, nits no longer block.
demote_sev3_if_stalled(report, round) ==
    LET blocking == report.findings \ {"sev3"}
        still_blocks == \/ blocking # {} \/ report.overall = "block"
                        \/ report.manifesto \cap {"sev1", "sev2"} # {}
    IN  IF Threshold = 0 \/ round < Threshold \/ "sev3" \notin report.findings THEN report
        ELSE [report EXCEPT !.findings = blocking, !.follow_ups = @ \cup {"sev3"},
                            !.overall = IF @ = "request_changes" /\ ~still_blocks
                                        THEN "approve" ELSE @]

_finalize_report(report, round, seen) ==
    demote_sev3_if_stalled(_with_deterministic_findings(report, seen), round)

\* A mutant: the critic's own word is passed on.
_verdict_from_overallAsIs(overall) == overall

_verdict_from_overall(overall) ==
    CASE overall = "approve" -> "approved"
      [] overall = "block" -> "blocked"
      [] overall = "request_changes" -> "changes_requested"

-----------------------------------------------------------------------------
(* One review. *)

\* A mutant: only the logs of first attempts are counted.
count_prior_critic_roundsFirst == Cardinality({log.at : log \in {l \in logs : l.suffix = "0"}})

\* The distinct stamps of the log files, those of error logs included.
count_prior_critic_rounds == Cardinality({log.at : log \in logs})

review_pr ==
    /\ review.pc = "idle" /\ second < MaxSecond
    /\ \E provider \in CriticProviders :
          review' = [pc |-> IF provider = "codex" THEN "codex" ELSE "attempt", attempt |-> 0,
                     round |-> count_prior_critic_rounds, began |-> second]
    /\ given' = NoReport /\ outcome' = NoOutcome /\ killed' = FALSE
    /\ UNCHANGED <<second, logs, facts, completed>>

Attempt == <<"0", "1">>[review.attempt + 1]
Wrote(suffix, at) == [at |-> at, suffix |-> suffix]

\* verdict="error": the log of the cause is stamped when it is written.
Errs(class, written) ==
    /\ outcome' = [verdict |-> "error", report |-> NoReport, class |-> class]
    /\ logs' = logs \cup written \cup {Wrote("error", second')}
    /\ review' = NoReview
    /\ UNCHANGED given

Reads(report, written) ==
    /\ given' = report
    /\ review' = [review EXCEPT !.pc = "finalize"]
    /\ logs' = logs \cup written
    /\ UNCHANGED outcome

Retries(written) ==
    /\ review' = [review EXCEPT !.attempt = @ + 1, !.began = second']
    /\ logs' = logs \cup written
    /\ UNCHANGED <<given, outcome>>

\* A session takes at least a second.
TimePasses == second' \in (second + 1)..MaxSecond

is_transient_critic_error(class) == class \in {"event_loop_closed", "sdk_transport"}

\* How run_critic_sdk ends: what the critic had said, and the cause that is
\* left.  An error counts only if nothing was said; the deadline's cancellation
\* comes back as an error of no known class.
run_critic_sdk(text, class) ==
    IF text # <<>> THEN "none" ELSE IF class = "deadline" THEN "unknown" ELSE class

SdkAttempt ==
    /\ review.pc = "attempt" /\ TimePasses
    /\ \E text \in Texts \cup {<<>>},
          class \in {"none", "deadline", "event_loop_closed", "sdk_transport", "timeout", "unknown"} :
          LET error == run_critic_sdk(text, class)
              written == {Wrote(Attempt, review.began)}
              more == review.attempt + 1 < _CRITIC_ATTEMPTS
              report == parse_report_from_text(text)
          IN  /\ killed' = (killed \/ class = "deadline")
              /\ \/ /\ error # "none" /\ is_transient_critic_error(error) /\ more
                    /\ Retries(written)
                 \/ /\ error # "none" /\ ~(is_transient_critic_error(error) /\ more)
                    /\ Errs(error, written)
                 \/ /\ error = "none" /\ report # NoReport
                    /\ Reads(report, written)
                 \/ /\ error = "none" /\ report = NoReport /\ more
                    /\ Retries(written)
                 \/ /\ error = "none" /\ report = NoReport /\ ~more
                    /\ Errs("parse_failure", written)
    /\ UNCHANGED <<facts, completed>>

\* codex is killed at the deadline; it is not asked again.
CodexAttempt ==
    /\ review.pc = "codex" /\ TimePasses
    /\ LET written == {Wrote("codex", review.began)}
       IN  \/ killed' = TRUE /\ Errs("timeout", written)
           \/ /\ UNCHANGED killed
              /\ \E text \in Texts \cup {<<>>} :
                    LET report == parse_report_from_text(text)
                    IN  \/ report = NoReport /\ Errs("parse_failure", written)
                        \/ report # NoReport /\ Reads(report, written)
    /\ UNCHANGED <<facts, completed>>

Finalize ==
    /\ review.pc = "finalize"
    /\ LET report == _finalize_report(given, review.round, facts)
       IN  outcome' = [verdict |-> _verdict_from_overall(report.overall), report |-> report,
                       class |-> "none"]
    /\ review' = NoReview /\ completed' = completed + 1
    /\ UNCHANGED <<second, logs, facts, given, killed>>

\* Between two reviews the worker pushes and edits the pull request.
WorkerPushes ==
    /\ review.pc = "idle" /\ facts' \in FactSets
    /\ UNCHANGED <<second, logs, review, given, outcome, completed, killed>>

CriticNext == review_pr \/ SdkAttempt \/ CodexAttempt \/ Finalize \/ WorkerPushes
CriticSpec == CriticInit /\ [][CriticNext]_criticVars

-----------------------------------------------------------------------------
(* Properties. *)

Severe(report) == (report.findings \cup report.manifesto) \cap {"sev1", "sev2"} # {}

\* Triage never erodes the standard: an approval the critic did not give itself
\* is of a report whose only findings were nits, and no approval is of a pull
\* request that a fixed rule or a severe manifesto violation objects to.  (That
\* the critic approves what it found to be sev1 is not refused here but by
\* plan_actions, which reads the findings again.)
OnlyNitsAreRelaxed ==
    outcome.verdict = "approved" =>
        /\ given.overall = "approve" \/ (given.overall = "request_changes" /\ ~Severe(given))
        /\ "sev1" \notin given.manifesto
        /\ outcome.report.findings \subseteq given.findings

\* A severe finding is never lost between the critic's words and the outcome.
SevereSurvives ==
    outcome.report # NoReport =>
        given.findings \cap {"sev1", "sev2"} \subseteq outcome.report.findings

\* A pull request that has stalled for the threshold is triaged: the log files
\* never undercount the reviews that were completed.
RoundsNotUndercounted == review.pc # "idle" => review.round >= completed

\* "Counting the DISTINCT {ts} stamps already on disk yields the number of
\* completed prior reviews" (count_prior_critic_rounds).
RoundsAreReviews == review.pc # "idle" => review.round = completed

\* "A genuine timeout ... is NOT retried into a longer hang" (review_pr).
TimeoutNotRetried == killed => review.pc # "attempt"

\* What one review promises, whatever the sessions answer and however they end.
CriticInv ==
    /\ CriticTypeOK
    /\ OnlyNitsAreRelaxed
    /\ SevereSurvives
    /\ RoundsNotUndercounted
=============================================================================
