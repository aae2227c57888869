----------------------------- MODULE Selection ------------------------------
(***************************************************************************)
(* What a comprehension with a condition keeps of a list, in its order.    *)
(* (SelectSeq says the same; the provers know nothing of it.)              *)
(***************************************************************************)
EXTENDS Naturals, Sequences

\* The elements of s at the given positions.
ElementsAt(s, positions) ==
    LET Taken[n \in 0..Len(s)] ==
          IF n = 0 THEN <<>>
          ELSE IF n \in positions THEN Append(Taken[n - 1], s[n]) ELSE Taken[n - 1]
    IN  Taken[Len(s)]

Where(s, Test(_)) == ElementsAt(s, {k \in DOMAIN s : Test(s[k])})
=============================================================================
