------------------------------- MODULE Audit -------------------------------
(***************************************************************************)
(* The audit of the state of the code: codebase_audit.py and its probes of *)
(* sizes, the pass of the tick that only reports (tick_checks.py           *)
(* run_codebase_audit) and the command that files a ticket for each        *)
(* violation (cli_product_commands.py _cmd_audit --apply).                 *)
(***************************************************************************)
EXTENDS Naturals, Sequences, SequencesExt, FiniteSetsExt

CONSTANTS
    Units,          \* modules and functions: [probe, target]; two may have one target
    Probes,         \* in the order they run: a sequence of names
    Cap,            \* probe |-> the soft cap
    Sizes,          \* significant lines
    ListLimit,      \* of the tickets listed (100)
    MaxPasses,      \* bound: passes of the audit
    MaxTouched,     \* bound: tickets people close or edit, units they change
    MaxAuditFaults  \* bound: probes that crash, calls that fail

ASSUME AuditAssumption ==
    /\ {ListLimit, MaxPasses, MaxTouched, MaxAuditFaults} \subseteq Nat
    /\ IsFiniteSet(Units) /\ "none" \notin ToSet(Probes)

VARIABLES
    size,       \* unit |-> its size
    tickets,    \* [probe, target, open, found, blind]: found by its label and footer
    pass,       \* see NoPass
    told,       \* what the last pass reported: units, and the probes that crashed
    passes,
    touched,
    auditFaults

auditVars == <<size, tickets, pass, told, passes, touched, auditFaults>>

\* The violations left to file, and the targets listed for the probe at hand;
\* hist: whether that list may miss one.
NoPass == [phase |-> "idle", left |-> <<>>, probe |-> "none", existing |-> {}, blind |-> FALSE]

AuditInit ==
    /\ size \in [Units -> Sizes] /\ tickets = <<>> /\ pass = NoPass
    /\ told = [units |-> {}, crashed |-> {}] /\ passes = 0 /\ touched = 0 /\ auditFaults = 0

AuditFault == auditFaults < MaxAuditFaults /\ auditFaults' = auditFaults + 1

scan(probe) == {u \in Units : u.probe = probe /\ size[u] > Cap[probe]}

Severity(u) == IF size[u] >= 2 * Cap[u.probe] THEN 1 ELSE 2

\* A mutant: what a probe found before it crashed is kept.
auditPartial(crashed) == UNION {scan(p) : p \in ToSet(Probes)}

\* A mutant: the first probe that crashes ends the pass.
auditAbort(crashed) ==
    UNION {scan(Probes[k]) : k \in {l \in DOMAIN Probes : \A j \in 1..l : Probes[j] \notin crashed}}

\* A probe that raises is left out, and the others run.
audit(crashed) == UNION {scan(p) : p \in ToSet(Probes) \ crashed}

\* Probe by probe, in the order of a walk through the files: any order within one.
by_probe(units) ==
    {found \in SetToSeqs(units) :
        \A j, k \in DOMAIN found :
            j < k => \E p, q \in DOMAIN Probes : /\ p <= q
                                                 /\ Probes[p] = found[j].probe
                                                 /\ Probes[q] = found[k].probe}

\* The tick reports; `audit --apply` goes on to file.
Report(apply) ==
    /\ pass.phase = "idle" /\ passes < MaxPasses /\ passes' = passes + 1
    /\ \E crashed \in SUBSET ToSet(Probes) :
         /\ IF crashed = {} THEN UNCHANGED auditFaults ELSE AuditFault
         /\ told' = [units |-> {[unit |-> u, severity |-> Severity(u)] : u \in audit(crashed)},
                     crashed |-> crashed]
         /\ IF apply /\ audit(crashed) # {}
            THEN \E left \in by_probe(audit(crashed)) :
                   pass' = [NoPass EXCEPT !.phase = "file", !.left = left]
            ELSE pass' = NoPass
    /\ UNCHANGED <<size, tickets, touched>>

Listed(probe) ==
    LET open == {n \in DOMAIN tickets : tickets[n].open /\ tickets[n].probe = probe}
    IN  {n \in open : Cardinality({m \in open : m > n}) < ListLimit}

\* The targets of the open tickets of a probe; a list that fails is empty.
_existing_targets_for_probe ==
    /\ pass.phase = "file" /\ pass.left # <<>> /\ Head(pass.left).probe # pass.probe
    /\ LET probe == Head(pass.left).probe
           open == {n \in DOMAIN tickets : tickets[n].open /\ tickets[n].probe = probe}
           found == {n \in Listed(probe) : tickets[n].found}
           Existing(ns, blind) ==
               pass' = [pass EXCEPT !.probe = probe, !.blind = blind,
                                    !.existing = {tickets[n].target : n \in ns}]
       IN  \/ Existing(found, found # open) /\ UNCHANGED auditFaults
           \/ AuditFault /\ Existing({}, TRUE)
    /\ UNCHANGED <<size, tickets, told, passes, touched>>

Ticket(u) ==
    [probe |-> u.probe, target |-> u.target, open |-> TRUE, found |-> TRUE, blind |-> pass.blind]

\* A mutant: what is on file is filed again.
OnFileNot(u) == FALSE

OnFile(u) == u.target \in pass.existing

\* A mutant: a ticket that could not be created ends the pass.
AfterFailureEnd == NoPass

AfterFailure == [pass EXCEPT !.left = Tail(@)]

\* One violation: skipped, filed, or in error; the call may have filed it.
file_violations ==
    /\ pass.phase = "file" /\ pass.left # <<>> /\ Head(pass.left).probe = pass.probe
    /\ LET u == Head(pass.left)
       IN  \/ /\ OnFile(u) /\ UNCHANGED <<tickets, auditFaults>>
              /\ pass' = [pass EXCEPT !.left = Tail(@)]
           \/ /\ ~OnFile(u) /\ tickets' = Append(tickets, Ticket(u)) /\ UNCHANGED auditFaults
              /\ pass' = [pass EXCEPT !.left = Tail(@)]
           \/ /\ ~OnFile(u) /\ AuditFault
              /\ tickets' \in {tickets, Append(tickets, Ticket(u))} /\ pass' = AfterFailure
    /\ UNCHANGED <<size, told, passes, touched>>

Filed_ ==
    /\ pass.phase = "file" /\ pass.left = <<>> /\ pass' = NoPass
    /\ UNCHANGED <<size, tickets, told, passes, touched, auditFaults>>

\* Commits change a unit; people close a ticket, or edit its label or its footer.
Touch ==
    /\ touched < MaxTouched /\ touched' = touched + 1
    /\ \/ \E u \in Units, s \in Sizes : size' = [size EXCEPT ![u] = s] /\ UNCHANGED tickets
       \/ \E n \in DOMAIN tickets :
            /\ tickets' \in {[tickets EXCEPT ![n].open = FALSE], [tickets EXCEPT ![n].found = FALSE]}
            /\ UNCHANGED size
    /\ UNCHANGED <<pass, told, passes, auditFaults>>

AuditNext ==
    \/ \E apply \in BOOLEAN : Report(apply)
    \/ _existing_targets_for_probe \/ file_violations \/ Filed_ \/ Touch

AuditSpec == AuditInit /\ [][AuditNext]_auditVars

-----------------------------------------------------------------------------
(* Properties.                                                             *)

\* A pass files from the violations it reported and from nothing else.
AuditTypeOK ==
    /\ pass.phase \in {"idle", "file"}
    /\ pass.phase = "idle" => pass = NoPass
    /\ ToSet(pass.left) \subseteq {v.unit : v \in told.units}
    /\ \A v \in told.units : v.unit.probe \notin told.crashed /\ v.severity \in {1, 2}
    /\ auditFaults \in 0..MaxAuditFaults

\* A target has one open ticket, but for lists that failed or missed one and
\* for functions that share a name.
OneTicketPerTarget ==
    \A m, n \in DOMAIN tickets :
        m < n /\ tickets[m].open /\ tickets[n].open /\ ~tickets[n].blind
            /\ tickets[m].probe = tickets[n].probe /\ tickets[m].target = tickets[n].target
            => \E u, v \in Units : u # v /\ u.target = tickets[n].target /\ v.target = u.target

\* One bad probe hides nothing that another found (codebase_audit.py "one probe
\* blowing up MUST NOT take down the rest").
CrashIsIsolated ==
    [][passes' # passes =>
         \A p \in ToSet(Probes) \ told'.crashed : scan(p) \subseteq {v.unit : v \in told'.units}]_auditVars

\* One call that fails costs one ticket: at the end of a pass there are no more
\* violations without one than there were failures.
EachIsFiled ==
    [][pass.phase = "file" /\ pass'.phase = "idle" =>
         Cardinality({v \in told.units :
             ~\E n \in DOMAIN tickets' : /\ tickets'[n].probe = v.unit.probe
                                         /\ tickets'[n].target = v.unit.target})
         <= auditFaults']_auditVars

\* codebase_audit.py: the pair (probe, target) "is the dedup key for ticket
\* filing".
TargetIsKey ==
    \A m, n \in DOMAIN tickets :
        m < n /\ tickets[m].open /\ tickets[n].open /\ ~tickets[n].blind =>
            <<tickets[m].probe, tickets[m].target>> # <<tickets[n].probe, tickets[n].target>>

\* What one pass of the audit after another keeps.
AuditSafe ==
    /\ [](AuditTypeOK /\ OneTicketPerTarget)
    /\ CrashIsIsolated /\ EachIsFiled
=============================================================================
