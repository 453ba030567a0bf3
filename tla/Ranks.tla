------------------------------- MODULE Ranks -------------------------------
(***************************************************************************)
(* The place of a number in a set: what a loop that goes up the locations  *)
(* of an index and counts has counted when it comes to one of them, and    *)
(* what a loop that goes up a list and skips some of it has kept.          *)
(***************************************************************************)
EXTENDS Integers, FiniteSets

\* How many members of a set of numbers come before one.
Rank(x, S) == Cardinality({y \in S : y < x})

\* The numbers of a set in order, and the entries of a list at such positions.
RankOrder(S) == [n \in 1 .. Cardinality(S) |-> CHOOSE x \in S : Rank(x, S) = n - 1]
Picked(list, S) == [n \in 1 .. Cardinality(S) |-> list[RankOrder(S)[n]]]
=============================================================================
