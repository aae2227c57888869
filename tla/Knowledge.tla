----------------------------- MODULE Knowledge -----------------------------
(***************************************************************************)
(* What the loop remembers of its merges: the episodes and the skill cards *)
(* that runner/tick.py _record_merged_memory writes through                *)
(* runner/learning.py, the cards skill_librarian.py distils, and the care  *)
(* of the tree of skills in memory/skills.py.                              *)
(*                                                                         *)
(* Each write to the store is a transaction of its own: the process may    *)
(* die, or the store refuse, between any two.                              *)
(***************************************************************************)
EXTENDS MemoryStore, FiniteSetsExt

CONSTANTS
    Tickets,            \* issue numbers
    Prs,                \* urls of pull requests, NoPr among them
    NoPr,
    Cards,              \* what the librarian may answer: [area, signal, target]
    Commits,
    min_leaves,         \* of promote_internal_nodes
    MaxMerges,          \* bound: ticks that record merges
    MaxKnowledgeOdd     \* bound: failures, deaths and calls of the other operations

ASSUME KnowledgeAssumption ==
    /\ {min_leaves, MaxMerges, MaxKnowledgeOdd} \subseteq Nat
    /\ \A c \in Cards : c.area \in Seq(STRING)

VARIABLES
    memory,     \* the store
    duty,       \* "idle", "episode", "forget", "harvest", "node", "prior"
    merged,     \* what the tick records: [issue, pr]
    place,      \* the record it is at
    nodes,      \* the parents left to promote
    skill,      \* the skill being recorded: its id, its key, the priors left, the duty it returns to
    torn,       \* hist: skills whose recording was cut, tickets whose failure is news
    mergeTicks, \* ticks that recorded merges
    odd

knowledgeVars == <<memory, duty, merged, place, nodes, skill, torn, mergeTicks, odd>>

NoSkill == [id |-> NoItem, key |-> NoItem, prior |-> <<>>, back |-> "idle"]

Odd == odd < MaxKnowledgeOdd /\ odd' = odd + 1

Shipped(n) == <<"episodic-shipped", n>>
FailedId(n) == <<"episodic-failed", n>>

Item(id, kind) ==
    [id |-> id, kind |-> kind, key |-> NoItem, area |-> <<>>, tags |-> {}, refs |-> {}, by |-> NoItem]

KnowledgeInit ==
    /\ memory = <<>> /\ duty = "idle" /\ merged = <<>> /\ place = 0 /\ nodes = <<>>
    /\ skill = NoSkill /\ torn = {} /\ mergeTicks = 0 /\ odd = 0

Rest ==
    duty' = "idle" /\ merged' = <<>> /\ place' = 0 /\ nodes' = <<>> /\ skill' = NoSkill

-----------------------------------------------------------------------------
(* Skills.                                                                 *)

\* _coerce_issue, and `seen`: the first record of an issue, or of a pull request.
FirstOf(field) == \A k \in 1..(place - 1) : merged[k][field] # merged[place][field]

derive_skill_key(signal, target) == <<signal, target>>

Skill(source, key, area, tags, refs) ==
    [Item(<<"procedural", source>>, "procedural") EXCEPT
        !.key = key, !.area = area, !.tags = tags, !.refs = refs]

\* A mutant: a card that is harvested again is its own prior.
PriorOrSelf(item) ==
    Where(list_active(memory), LAMBDA old : old.kind = "procedural" /\ old.key = item.key)

\* A mutant: a skill filed elsewhere is no prior.
PriorOfArea(item) ==
    Where(list_active(memory),
          LAMBDA old : /\ old.kind = "procedural" /\ old.key = item.key /\ old.id # item.id
                       /\ old.area = item.area)

\* The active skills of the same signature, but for the item itself.
Prior(item) ==
    Where(list_active(memory),
          LAMBDA old : old.kind = "procedural" /\ old.key = item.key /\ old.id # item.id)

\* record_procedural_skill: the item first, then its priors, one by one.
record_procedural_skill(item, back) ==
    /\ memory' = put(memory, item)
    /\ skill' = [id |-> item.id, key |-> item.key, back |-> back,
                 prior |-> [k \in DOMAIN Prior(item) |-> Prior(item)[k].id]]
    /\ duty' = "prior"

Supersede_ ==
    /\ duty = "prior" /\ skill.prior # <<>>
    /\ CanSupersede(memory, Head(skill.prior), skill.id)
    /\ memory' = supersede(memory, Head(skill.prior), skill.id)
    /\ skill' = [skill EXCEPT !.prior = Tail(@)]
    /\ UNCHANGED <<duty, merged, place, nodes, torn, mergeTicks, odd>>

Recorded_ ==
    /\ duty = "prior" /\ skill.prior = <<>>
    /\ torn' = torn \ {<<"skill", skill.key>>}
    /\ IF skill.back = "idle" THEN Rest
       ELSE /\ duty' = skill.back /\ skill' = NoSkill
            /\ place' = IF skill.back = "harvest" THEN place + 1 ELSE place
            /\ UNCHANGED <<merged, nodes>>
    /\ UNCHANGED <<memory, mergeTicks, odd>>

-----------------------------------------------------------------------------
(* The tick: _record_merged_memory and _harvest_merged_skills.             *)

\* What was merged, but for what the gates refused.
_record_merged_memory ==
    /\ duty = "idle" /\ mergeTicks < MaxMerges /\ mergeTicks' = mergeTicks + 1
    /\ \E outcomes \in SeqOf([issue : Tickets, pr : Prs], 2), refused \in SUBSET Tickets :
         /\ merged' = Where(outcomes, LAMBDA o : o.issue \notin refused)
         /\ merged' # <<>>
    /\ duty' = "episode" /\ place' = 1
    /\ UNCHANGED <<memory, nodes, skill, torn, odd>>

Harvesting == duty' = "harvest" /\ place' = 1

NextRecord ==
    IF place < Len(merged) THEN duty' = "episode" /\ place' = place + 1 ELSE Harvesting

\* record_merged_outcomes, for one issue.
Episode ==
    /\ duty = "episode"
    /\ IF FirstOf("issue")
       THEN /\ memory' = put(memory, Item(Shipped(merged[place].issue), "episodic"))
            /\ duty' = "forget" /\ UNCHANGED place
       ELSE NextRecord /\ UNCHANGED memory
    /\ UNCHANGED <<merged, nodes, skill, torn, mergeTicks, odd>>

\* A mutant: the failure is not forgotten.
ForgottenNot(n) == memory

\* The failed episode of a ticket that has shipped is superseded, if active.
Forgotten(n) ==
    IF \E k \in DOMAIN memory : memory[k].id = FailedId(n) /\ is_active(memory[k])
    THEN supersede(memory, FailedId(n), Shipped(n)) ELSE memory

Forget ==
    /\ duty = "forget" /\ NextRecord
    /\ memory' = Forgotten(merged[place].issue)
    /\ torn' = torn \ {<<"ticket", merged[place].issue>>}
    /\ UNCHANGED <<merged, nodes, skill, mergeTicks, odd>>

\* The store refuses a write: the skills are harvested all the same.
EpisodeFails ==
    /\ duty \in {"episode", "forget"} /\ Odd /\ Harvesting
    /\ torn' = IF duty = "forget" THEN torn \cup {<<"ticket", merged[place].issue>>} ELSE torn
    /\ UNCHANGED <<memory, merged, nodes, skill, mergeTicks>>

\* A card has the fields that are required, or it is no card.
parse_skill_card(card) == card.area # <<>> /\ card.target # <<>>

\* distil_skill_from_merge, and the card of the pull request.
Harvest(card) ==
    record_procedural_skill(
        Skill(<<"harvest", merged[place].pr>>, derive_skill_key(card.signal, card.target), card.area,
              {"area"}, {"pr"}), "harvest")

harvest_skills_from_merge ==
    /\ duty = "harvest" /\ place <= Len(merged)
    /\ \/ /\ merged[place].pr # NoPr /\ FirstOf("pr")
          /\ \E card \in Cards : parse_skill_card(card) /\ Harvest(card)
          /\ UNCHANGED <<merged, place, nodes>>
       \* One seen before, an empty diff, an answer that is no card.
       \/ place' = place + 1 /\ UNCHANGED <<memory, duty, merged, nodes, skill>>
    /\ UNCHANGED <<torn, mergeTicks, odd>>

Harvested ==
    /\ duty = "harvest" /\ place > Len(merged) /\ Rest
    /\ UNCHANGED <<memory, torn, mergeTicks, odd>>

Cut == torn' = IF duty = "prior" /\ skill.prior # <<>> THEN torn \cup {<<"skill", skill.key>>} ELSE torn

\* A diff that cannot be read, or a store that refuses, ends the harvest.
HarvestFails ==
    /\ duty \in {"harvest", "prior", "node"} /\ Odd /\ Rest /\ Cut
    /\ UNCHANGED <<memory, mergeTicks>>

Dies_K ==
    /\ duty # "idle" /\ Odd /\ Rest
    /\ torn' = CASE duty = "forget" -> torn \cup {<<"ticket", merged[place].issue>>}
                 [] duty = "prior" /\ skill.prior # <<>> -> torn \cup {<<"skill", skill.key>>}
                 [] OTHER -> torn
    /\ UNCHANGED <<memory, mergeTicks>>

-----------------------------------------------------------------------------
(* The other operations of the two modules.                                *)

record_failed_outcomes ==
    /\ duty = "idle" /\ Odd
    /\ \E n \in Tickets :
         /\ memory' = put(memory, Item(FailedId(n), "episodic"))
         /\ torn' = torn \cup {<<"ticket", n>>}
    /\ UNCHANGED <<duty, merged, place, nodes, skill, mergeTicks>>

\* A repair that carries its commits as proof.
RecordRepair ==
    /\ duty = "idle" /\ Odd
    /\ \E card \in Cards, commit \in Commits :
         record_procedural_skill(
             Skill(<<"repair">>, derive_skill_key(card.signal, card.target), card.area,
                   IF card.area = <<>> THEN {} ELSE {"area"}, {commit}), "idle")
    /\ UNCHANGED <<merged, place, nodes, torn, mergeTicks>>

\* Cards none of whose commits is live; one without commits is left alone.
Stale(item, live) ==
    /\ is_active(item) /\ item.kind = "procedural" /\ "expired" \notin item.tags
    /\ item.refs \cap Commits # {} /\ item.refs \cap live = {}

\* They are tagged one by one, in the order of the rows: a refusal or a death
\* in between leaves those past `last`.
expire_stale_skills ==
    /\ duty = "idle" /\ Odd
    /\ \E live \in SUBSET Commits, last \in DOMAIN memory :
         memory' = [k \in DOMAIN memory |->
                       IF k <= last /\ Stale(memory[k], live)
                       THEN [memory[k] EXCEPT !.tags = @ \cup {"expired"}] ELSE memory[k]]
    /\ UNCHANGED <<duty, merged, place, nodes, skill, torn, mergeTicks>>

\* A mutant: nodes count as leaves.
LeavesAndNodes(parent) ==
    {k \in DOMAIN memory :
        /\ is_active(memory[k]) /\ memory[k].kind = "procedural"
        /\ "area" \in memory[k].tags /\ "expired" \notin memory[k].tags
        /\ Front(memory[k].area) = parent}

Leaves(parent) ==
    {k \in DOMAIN memory :
        /\ is_active(memory[k]) /\ memory[k].kind = "procedural"
        /\ "area" \in memory[k].tags /\ memory[k].tags \cap {"area-node", "expired"} = {}
        /\ Front(memory[k].area) = parent}

Parents == {p \in {Front(memory[k].area) : k \in DOMAIN memory} \ {<<>>} : Leaves(p) # {}}

\* The groups are made before the first node is recorded.
promote_internal_nodes ==
    /\ duty = "idle" /\ Odd
    /\ nodes' = SetToSeq({p \in Parents : Cardinality(Leaves(p)) >= min_leaves})
    /\ nodes' # <<>> /\ duty' = "node"
    /\ UNCHANGED <<memory, merged, place, skill, torn, mergeTicks>>

Node(parent) ==
    Skill(<<"node">> \o parent, derive_skill_key("", parent), parent, {"area", "area-node"}, {})

PromoteNode ==
    /\ duty = "node" /\ nodes # <<>>
    /\ record_procedural_skill(Node(Head(nodes)), "node")
    /\ nodes' = Tail(nodes)
    /\ UNCHANGED <<merged, place, torn, mergeTicks, odd>>

Promoted ==
    /\ duty = "node" /\ nodes = <<>> /\ Rest
    /\ UNCHANGED <<memory, torn, mergeTicks, odd>>

KnowledgeNext ==
    \/ Supersede_ \/ Recorded_ \/ _record_merged_memory \/ Episode \/ Forget \/ EpisodeFails
    \/ harvest_skills_from_merge \/ Harvested \/ HarvestFails \/ Dies_K
    \/ record_failed_outcomes \/ RecordRepair \/ expire_stale_skills
    \/ promote_internal_nodes \/ PromoteNode \/ Promoted

KnowledgeSpec == KnowledgeInit /\ [][KnowledgeNext]_knowledgeVars

-----------------------------------------------------------------------------
(* Properties.                                                             *)

MemoryIds == {memory[k].id : k \in DOMAIN memory}

\* An item has one row, and what supersedes it is in the store.
KnowledgeTypeOK ==
    /\ duty \in {"idle", "episode", "forget", "harvest", "node", "prior"}
    /\ Cardinality(MemoryIds) = Len(memory)
    /\ \A k \in DOMAIN memory : memory[k].by # NoItem => memory[k].by \in MemoryIds
    /\ duty = "idle" => merged = <<>> /\ nodes = <<>> /\ skill = NoSkill

\* Lineage is kept (learning.py "the chain stays linear"): no items supersede
\* each other in a circle, so from any of them the chain of those that supersede
\* it ends, in one that is active.
LineageEnds ==
    \A rows \in SUBSET DOMAIN memory :
        rows # {} => \E k \in rows : \A l \in rows : memory[l].id # memory[k].by

\* A repair has one current skill (learning.py "a bounded set of current
\* skills"), unless its last recording was cut; the next one mends it.
OneActiveSkill ==
    \A k, l \in DOMAIN memory :
        /\ k # l /\ {memory[k].kind, memory[l].kind} = {"procedural"}
        /\ is_active(memory[k]) /\ is_active(memory[l]) /\ memory[k].key = memory[l].key
        => <<"skill", memory[k].key>> \in torn \/ memory[k].key = skill.key

\* A ticket that shipped is not remembered as failed too, unless it failed
\* since, or the tick was cut between the two writes.
ShippedNotFailed ==
    \A n \in Tickets :
        LET active == {memory[k].id : k \in {l \in DOMAIN memory : is_active(memory[l])}}
        IN  {Shipped(n), FailedId(n)} \subseteq active
              => \/ <<"ticket", n>> \in torn
                 \/ duty = "forget" /\ merged[place].issue = n

\* After a promotion every parent with enough leaves has its node, and no node
\* was promoted for the sake of nodes.
PromotionCovers ==
    [][duty = "node" /\ nodes = <<>> /\ duty' = "idle" /\ UNCHANGED odd =>
         \A p \in Parents :
            Cardinality(Leaves(p)) >= min_leaves =>
                \E k \in DOMAIN memory : memory[k].id = Node(p).id /\ is_active(memory[k])]_knowledgeVars

\* What the memory can be relied on to teach.
KnowledgeSafe ==
    /\ [](KnowledgeTypeOK /\ LineageEnds /\ OneActiveSkill
          /\ ShippedNotFailed)
    /\ PromotionCovers
=============================================================================
