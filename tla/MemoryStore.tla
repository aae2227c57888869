---------------------------- MODULE MemoryStore ----------------------------
(***************************************************************************)
(* The table of curated memory (memory/store.py, memory/models.py): a      *)
(* sequence of items in the order of their rows, each a record with at     *)
(* least its id, its tags and the id of the item that supersedes it.       *)
(***************************************************************************)
EXTENDS Naturals, Sequences, SequencesExt, Selection

NoItem == <<>>

get(store, id) == Where(store, LAMBDA item : item.id = id)

is_active(item) == item.by = NoItem

\* A mutant: a row for every write.
putAppends(store, item) == Append(store, item)

\* An upsert: the row keeps its place and takes all of the item, the item that
\* supersedes it included.
put(store, item) ==
    IF get(store, item.id) = <<>> THEN Append(store, item)
    ELSE [k \in DOMAIN store |-> IF store[k].id = item.id THEN item ELSE store[k]]

\* The code raises when either is absent: see CanSupersede.
CanSupersede(store, id, by) == get(store, id) # <<>> /\ get(store, by) # <<>>

supersede(store, id, by) ==
    [k \in DOMAIN store |-> IF store[k].id = id THEN [store[k] EXCEPT !.by = by] ELSE store[k]]

list_active(store) == Where(store, is_active)

Tagged(store, tag) == Where(list_active(store), LAMBDA item : tag \in item.tags)

list_rejected_paths(store) == Tagged(store, "rejected-path")

list_research_notes(store) == Reverse(Tagged(store, "research"))
=============================================================================
