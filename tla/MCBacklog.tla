----------------------------- MODULE MCBacklog ------------------------------
(* The product commands on two reports over two axes.                       *)
EXTENDS Backlog, TLC

\* Titles of which two differ in case only, on two axes.
NormOf == "A" :> "a" @@ "a" :> "a" @@ "B" :> "b"
Proposal(title, axis) == [title |-> title, axis |-> axis, story |-> TRUE]
ReportsOf ==
    {[hash |-> "r1", epics |-> <<Proposal("A", "x")>>,
      tickets |-> <<Proposal("B", "x"), Proposal("a", "y")>>],
     [hash |-> "r2", epics |-> <<Proposal("A", "y")>>,
      tickets |-> <<Proposal("B", "x"), [Proposal("a", "x") EXCEPT !.story = FALSE]>>]}
CosmeticOf == {<<"A", "y">>}
=============================================================================
