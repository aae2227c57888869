------------------------------ MODULE Backlog ------------------------------
(***************************************************************************)
(* How proposals become issues: `forge-loop brainstorm`, its dry run left  *)
(* out (cli_product_commands.py _cmd_brainstorm, brainstormer.py), the     *)
(* ledger of its decisions (frontier/decisions.py), the rejected paths it  *)
(* leaves in memory, and the order the maestro gives the issues because of *)
(* them (runner/maestro.py, tick.py _apply_maestro_plan).                  *)
(*                                                                         *)
(* One command runs at a time; people open and close issues meanwhile.     *)
(***************************************************************************)
EXTENDS MemoryStore, FiniteSetsExt

CONSTANTS
    Norm,           \* a title |-> its normal form (frontier/decisions.py _normalize_text)
    Axes,           \* of the product vision
    Cosmetic,       \* <<title, axis>> that the vision rejects as cosmetic
    Reports,        \* [hash, epics, tickets]: sequences of [title, axis, story]
    Frontier,       \* axes the frontier cursor asks for
    Limit,          \* of list_open_backlog
    MaxCommands,    \* bound: commands run
    MaxPeople,      \* bound: issues opened or closed by people
    MaxBacklogOdd   \* bound: failures and deaths

Proposals == Seq([title : DOMAIN Norm, axis : STRING, story : BOOLEAN])

ASSUME BacklogAssumption ==
    /\ {Limit, MaxCommands, MaxPeople, MaxBacklogOdd} \subseteq Nat
    /\ \A r \in Reports : r.epics \in Proposals /\ r.tickets \in Proposals

VARIABLES
    issues,     \* on GitHub, by number: [title, kind, axis, open, parent, by, blind]
    ledger,     \* [ok, list]: whether its file can be read, and its decisions
    notes,      \* the memory store
    cmd,        \* the command: see NoCommand
    commands,
    people,
    mishaps

backlogVars == <<issues, ledger, notes, cmd, commands, people, mishaps>>

\* What is left to record and to file; the epic filed for an axis; the decision
\* to record; what was read before the session; hist: whether the command could
\* not see an issue that was open when it filed.
NoCommand == [phase |-> "idle", hash |-> "none", epics |-> <<>>, tickets |-> <<>>, dupes |-> <<>>,
              filed |-> [a \in Axes |-> 0], accepted |-> <<>>, titles |-> {}, rejected |-> {},
              blind |-> FALSE]

BacklogInit ==
    /\ issues = <<>> /\ ledger = [ok |-> TRUE, list |-> <<>>] /\ notes = <<>>
    /\ cmd = NoCommand /\ commands = 0 /\ people = 0 /\ mishaps = 0

Mishap == mishaps < MaxBacklogOdd /\ mishaps' = mishaps + 1

normalize_candidate_key(title, axis) == <<Norm[title], axis>>

-----------------------------------------------------------------------------
(* What the command reads.                                                 *)

\* _filter_items: an axis of the vision, a customer story, nothing cosmetic.
_filter_items(items) ==
    Where(items, LAMBDA item : /\ item.axis \in Axes /\ item.story
                               /\ <<item.title, item.axis>> \notin Cosmetic)

Open(kinds) == {n \in DOMAIN issues : issues[n].open /\ issues[n].kind \in kinds}

\* GitHub lists the newest first.
Newest(numbers, limit) == {n \in numbers : Cardinality({m \in numbers : m > n}) < limit}

\* The second list, of everything open, may fail without a word; pull requests
\* take places of it and are dropped after.
list_open_backlog(listed) ==
    LET epics == Newest(Open({"epic"}), Limit)
        rest == Newest(Open({"epic", "ticket", "pull"}), 2 * Limit) \ (epics \cup Open({"pull"}))
    IN  epics \cup IF listed THEN Newest(rest, Limit) ELSE {}

TitlesOf(numbers) == {Norm[issues[n].title] : n \in numbers}

\* A mutant: the report is compared with the backlog and not with itself.
_drop_duplicate_titlesOfBacklog(items, seen) ==
    [k \in DOMAIN items |-> Norm[items[k].title] \in seen]

\* Which items repeat a title that is open, or that comes before in the report.
_drop_duplicate_titles(items, seen) ==
    [k \in DOMAIN items |->
        \/ Norm[items[k].title] \in seen
        \/ \E j \in 1..(k - 1) : Norm[items[j].title] = Norm[items[k].title]]

Pick(items, flags, flag) ==
    ElementsAt(items, {k \in DOMAIN items : flags[k] = flag})

Kinds(items, kind) ==
    [k \in DOMAIN items |-> [title |-> items[k].title, axis |-> items[k].axis, kind |-> kind]]

-----------------------------------------------------------------------------
(* The ledger and its mirror in memory.                                    *)

_source_key(item) == <<cmd.hash, item.kind, Norm[item.title], item.axis>>

Decision(item, outcome, issue) ==
    [key |-> _source_key(item), title |-> item.title, axis |-> item.axis,
     outcome |-> outcome, issue |-> issue]

Find(list, key) == Where(list, LAMBDA d : d.key = key)

\* A mutant: a verdict for every record.
recordAll(list, decision) == Append(list, decision)

\* A mutant: the last verdict wins.
recordLast(list, decision) ==
    Append(Where(list, LAMBDA d : d.key # decision.key), decision)

\* The first verdict on a source key stands.
record(list, decision) ==
    IF Find(list, decision.key) = <<>> THEN Append(list, decision) ELSE list

\* _decision_memory: of the verdict just reached, whatever the ledger kept.
_decision_memory(d) ==
    [id |-> <<IF d.outcome = "rejected" THEN "rejpath" ELSE "decision", d.key>>,
     title |-> d.title, axis |-> d.axis, by |-> NoItem,
     tags |-> {IF d.outcome = "rejected" THEN "rejected-path" ELSE "frontier-decision"}]

\* _persist_memory: a store that refuses is only warned of.
_persist_memory(d) ==
    \/ notes' = put(notes, _decision_memory(d)) /\ UNCHANGED mishaps
    \/ Mishap /\ UNCHANGED notes

Decided(d) == ledger' = [ledger EXCEPT !.list = record(@, d)] /\ _persist_memory(d)

CommandEnds == cmd' = NoCommand

-----------------------------------------------------------------------------
(* The command.                                                            *)

\* --apply --report: the report is filtered again, the backlog read.
ApplyReport(report) ==
    /\ cmd.phase = "idle" /\ commands < MaxCommands /\ commands' = commands + 1
    /\ \E listed \in BOOLEAN :
         /\ IF listed THEN UNCHANGED mishaps ELSE Mishap
         /\ LET items == Kinds(_filter_items(report.epics), "epic")
                           \o Kinds(_filter_items(report.tickets), "ticket")
                seen == list_open_backlog(listed)
                flags == _drop_duplicate_titles(items, TitlesOf(seen))
                kept == Pick(items, flags, FALSE)
            IN  cmd' = [NoCommand EXCEPT
                          !.phase = "dupes", !.hash = report.hash, !.dupes = Pick(items, flags, TRUE),
                          !.epics = Where(kept, LAMBDA i : i.kind = "epic"),
                          !.tickets = Where(kept, LAMBDA i : i.kind = "ticket"),
                          !.blind = seen # Open({"epic", "ticket"})]
    /\ UNCHANGED <<issues, ledger, notes, people>>

\* Each duplicate is rejected; a ledger that cannot be read ends the command.
RecordDupe ==
    /\ cmd.phase = "dupes" /\ cmd.dupes # <<>>
    /\ IF ledger.ok
       THEN /\ Decided(Decision(Head(cmd.dupes), "rejected", 0))
            /\ cmd' = [cmd EXCEPT !.dupes = Tail(@)]
       ELSE CommandEnds /\ UNCHANGED <<ledger, notes, mishaps>>
    /\ UNCHANGED <<issues, commands, people>>

DupesDone ==
    /\ cmd.phase = "dupes" /\ cmd.dupes = <<>>
    /\ cmd' = [cmd EXCEPT !.phase = "file"]
    /\ UNCHANGED <<issues, ledger, notes, commands, people, mishaps>>

\* --apply alone: what the session is shown is read before it, and is nothing
\* where GitHub or the store cannot be read.
Brainstorm ==
    /\ cmd.phase = "idle" /\ commands < MaxCommands /\ commands' = commands + 1
    /\ \E seen \in {list_open_backlog(TRUE), {}}, known \in BOOLEAN :
         /\ IF known /\ seen = list_open_backlog(TRUE) THEN UNCHANGED mishaps ELSE Mishap
         /\ cmd' = [NoCommand EXCEPT
                      !.phase = "session", !.titles = TitlesOf(seen), !.blind = TRUE,
                      !.rejected = IF ~known THEN {} ELSE
                          {normalize_candidate_key(i.title, i.axis) :
                              i \in ToSet(list_rejected_paths(notes))}]
    /\ UNCHANGED <<issues, ledger, notes, people>>

\* The session answers with any report, or it fails.
Answered ==
    /\ cmd.phase = "session"
    /\ \/ \E report \in Reports :
            LET Fresh(i) == /\ normalize_candidate_key(i.title, i.axis) \notin cmd.rejected
                            /\ Norm[i.title] \notin cmd.titles
                Kept(items) == Where(_filter_items(items), Fresh)
            IN  /\ cmd' = [NoCommand EXCEPT !.phase = "file", !.blind = TRUE,
                             !.epics = Kinds(Kept(report.epics), "epic"),
                             !.tickets = Kinds(Kept(report.tickets), "ticket")]
                /\ UNCHANGED mishaps
       \/ Mishap /\ CommandEnds
    /\ UNCHANGED <<issues, ledger, notes, commands, people>>

\* A mutant: a ticket goes to the epic filed last.
ParentLast(item) ==
    LET epics == {n \in DOMAIN issues : issues[n].kind = "epic"} IN IF epics = {} THEN 0 ELSE Max(epics)

\* The epic filed in this run for the axis of the ticket.
Parent(item) == IF item.kind = "epic" THEN 0 ELSE cmd.filed[item.axis]

Issue_(item) ==
    [title |-> item.title, kind |-> item.kind, axis |-> item.axis, open |-> TRUE,
     parent |-> Parent(item), by |-> cmd.hash, blind |-> cmd.blind]

\* After the issue: its decision, if there is a ledger to record it in.
Next_(item) ==
    LET number == Len(issues) + 1
        next == IF item.kind = "epic"
                THEN [cmd EXCEPT !.filed[item.axis] = number, !.epics = Tail(@)]
                ELSE [cmd EXCEPT !.tickets = Tail(@)]
    IN  IF cmd.hash = "none" THEN next
        ELSE [next EXCEPT !.accepted = <<Decision(item, "accepted", number)>>, !.phase = "accept"]

\* A mutant: a call that failed is recorded like one that did not.
Failed_Accepted(item) == Next_(item)

Failed_(item) ==
    IF item.kind = "epic" THEN [cmd EXCEPT !.epics = Tail(@)] ELSE [cmd EXCEPT !.tickets = Tail(@)]

\* Epics first. A call that fails may have filed the issue all the same.
File ==
    /\ cmd.phase = "file" /\ cmd.epics \o cmd.tickets # <<>>
    /\ LET item == Head(cmd.epics \o cmd.tickets)
       IN  \/ /\ issues' = Append(issues, Issue_(item)) /\ cmd' = Next_(item)
              /\ UNCHANGED mishaps
           \/ /\ Mishap /\ issues' \in {issues, Append(issues, Issue_(item))}
              /\ cmd' = Failed_(item)
    /\ UNCHANGED <<ledger, notes, commands, people>>

\* A ledger that cannot be read makes the title one that failed; it was filed.
Accept ==
    /\ cmd.phase = "accept" /\ cmd' = [cmd EXCEPT !.phase = "file", !.accepted = <<>>]
    /\ IF ledger.ok THEN Decided(cmd.accepted[1]) ELSE UNCHANGED <<ledger, notes, mishaps>>
    /\ UNCHANGED <<issues, commands, people>>

Exits ==
    /\ cmd.phase = "file" /\ cmd.epics \o cmd.tickets = <<>> /\ CommandEnds
    /\ UNCHANGED <<issues, ledger, notes, commands, people, mishaps>>

\* The ledger is written in place: a death in the middle leaves a prefix of its
\* list, or what YAML cannot read.
Dies_B ==
    /\ cmd.phase # "idle" /\ Mishap /\ CommandEnds
    /\ \/ UNCHANGED ledger
       \/ /\ cmd.phase \in {"dupes", "accept"} /\ ledger.ok
          /\ \/ ledger' = [ledger EXCEPT !.ok = FALSE]
             \/ \E n \in 0..Len(ledger.list) : ledger' = [ledger EXCEPT !.list = SubSeq(@, 1, n)]
    /\ UNCHANGED <<issues, notes, commands, people>>

\* A person files an issue, or the loop a pull request: a command that runs has
\* not seen it.
PersonOpens(title, axis, kind) ==
    /\ people < MaxPeople /\ people' = people + 1
    /\ issues' = Append(issues, [title |-> title, kind |-> kind, axis |-> axis, open |-> TRUE,
                                 parent |-> 0, by |-> "person", blind |-> TRUE])
    /\ cmd' = IF cmd.phase = "idle" THEN cmd ELSE [cmd EXCEPT !.blind = TRUE]
    /\ UNCHANGED <<ledger, notes, commands, mishaps>>

Closes(n) ==
    /\ people < MaxPeople /\ people' = people + 1
    /\ issues[n].open /\ issues' = [issues EXCEPT ![n].open = FALSE]
    /\ UNCHANGED <<ledger, notes, cmd, commands, mishaps>>

BacklogNext ==
    \/ \E report \in Reports : ApplyReport(report)
    \/ RecordDupe \/ DupesDone \/ Brainstorm \/ Answered \/ File \/ Accept \/ Exits \/ Dies_B
    \/ \E title \in DOMAIN Norm, axis \in Axes, kind \in {"ticket", "pull"} :
          PersonOpens(title, axis, kind)
    \/ \E n \in DOMAIN issues : Closes(n)

BacklogSpec == BacklogInit /\ [][BacklogNext]_backlogVars

-----------------------------------------------------------------------------
(* The maestro.                                                            *)

\* 2 for a known dead end, 0 for what the frontier asks, 1 for the rest; the
\* paths are matched by their titles alone.
_bucket(n, rejected) ==
    IF Norm[issues[n].title] \in rejected THEN 2 ELSE IF issues[n].axis \in Frontier THEN 0 ELSE 1

\* A mutant: what leads nowhere is not dispatched.
build_maestro_planDrops(queue, rejected) ==
    Where(queue, LAMBDA n : _bucket(n, rejected) < 2)

\* A stable permutation.
build_maestro_plan(queue, rejected) ==
    Where(queue, LAMBDA n : _bucket(n, rejected) = 0)
        \o Where(queue, LAMBDA n : _bucket(n, rejected) = 1)
        \o Where(queue, LAMBDA n : _bucket(n, rejected) = 2)

RejectedTitles == {Norm[i.title] : i \in ToSet(list_rejected_paths(notes))}

\* Inputs that cannot be read are none at all.
_apply_maestro_plan(queue, readable) ==
    IF ~readable \/ Frontier \cup RejectedTitles = {} THEN queue
    ELSE build_maestro_plan(queue, RejectedTitles)

-----------------------------------------------------------------------------
(* Properties.                                                             *)

\* A source key has one decision in the ledger and one item of a kind in memory.
BacklogTypeOK ==
    /\ \A j, k \in DOMAIN ledger.list : ledger.list[j].key = ledger.list[k].key => j = k
    /\ \A j, k \in DOMAIN notes : notes[j].id = notes[k].id => j = k
    /\ cmd.phase \in {"idle", "session", "dupes", "file", "accept"}
    /\ cmd.phase = "idle" => cmd = NoCommand
    /\ mishaps \in 0..MaxBacklogOdd

\* A report files no issue under a title that is open, in its own run or
\* before, but for what it could not see.
NothingFiledTwice ==
    \A m, n \in DOMAIN issues :
        m < n /\ {m, n} \subseteq Open({"epic", "ticket"}) /\ Norm[issues[m].title] = Norm[issues[n].title]
            => issues[n].blind

\* A ticket is a child of an epic of its own axis and its own report.
TicketHasItsEpic ==
    \A n \in DOMAIN issues :
        issues[n].parent # 0 =>
            LET epic == issues[issues[n].parent]
            IN  /\ epic.kind = "epic" /\ epic.axis = issues[n].axis /\ epic.by = issues[n].by
                /\ issues[n].parent < n

\* What the ledger says was accepted is an issue of that title.
AcceptedWasFiled ==
    \A k \in DOMAIN ledger.list :
        LET d == ledger.list[k]
        IN  d.outcome = "accepted" => d.issue \in DOMAIN issues /\ issues[d.issue].title = d.title

\* A verdict is never revised; only a death in the middle of a write loses any.
VerdictsStand ==
    [][mishaps' = mishaps => IsPrefix(ledger.list, ledger'.list)]_backlogVars

\* The maestro orders the issues and drops none (maestro.py "never dropped"),
\* whatever the memory holds.
PlanKeepsIssues ==
    \A readable \in BOOLEAN :
        LET queue == Where([n \in DOMAIN issues |-> n], LAMBDA n : n \in Open({"ticket"}))
            plan == _apply_maestro_plan(queue, readable)
        IN  ToSet(plan) = ToSet(queue) /\ Len(plan) = Len(queue)

\* cli_product_commands.py: memory is "an *additional* sink mirroring the
\* frontier ledger": a path it rejects is one the ledger rejected.
MemoryMirrorsLedger ==
    cmd.phase = "idle" =>
        \A k \in DOMAIN notes :
            "rejected-path" \in notes[k].tags =>
                \E d \in ToSet(ledger.list) : d.key = notes[k].id[2] /\ d.outcome = "rejected"

\* What the product commands keep of backlog, ledger and memory together.
BacklogSafe ==
    /\ [](BacklogTypeOK /\ NothingFiledTwice /\ TicketHasItsEpic
          /\ AcceptedWasFiled /\ PlanKeepsIssues)
    /\ VerdictsStand
=============================================================================
