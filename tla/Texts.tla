------------------------------- MODULE Texts -------------------------------
(***************************************************************************)
(* The operators of SequencesExt that the formats are built from, without  *)
(* the rest: SequencesExt extends Bags, whose theorems every instance of a *)
(* format would state again, and proofs about several formats would drag   *)
(* along.                                                                  *)
(***************************************************************************)
EXTENDS Sequences, FiniteSetsExt, Functions

\* The sequences in ss, one after the other.
FlattenSeq(ss) ==
  LET flat[i \in 0..Len(ss)] == IF i = 0 THEN <<>> ELSE flat[i - 1] \o ss[i]
  IN  flat[Len(ss)]

\* Where in s the first, or the last, element is that passes the test; 0 for none.
Passing(s, Test(_)) == {i \in 1..Len(s) : Test(s[i])}
SelectInSeq(s, Test(_)) ==
  IF Passing(s, Test) # {} THEN Min(Passing(s, Test)) ELSE 0
SelectLastInSeq(s, Test(_)) ==
  IF Passing(s, Test) # {} THEN Max(Passing(s, Test)) ELSE 0

\* The elements of a set in some order.
SetToSeq(S) == CHOOSE s \in [1..Cardinality(S) -> S] : IsInjective(s)
=============================================================================
