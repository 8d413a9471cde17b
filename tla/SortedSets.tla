----------------------------- MODULE SortedSets -----------------------------
(***************************************************************************)
(* A set of numbers as the sequence of its elements in their order: the    *)
(* rows of a query that are sorted by their identifier, the positions of a *)
(* loop over a list.                                                       *)
(***************************************************************************)
EXTENDS Integers, FiniteSets

(* How many elements of S are before i.                                    *)
Rank(S, i) == Cardinality({j \in S : j < i})

(* The k-th element is the one with k - 1 elements before it.              *)
Sorted(S) == [k \in 1..Cardinality(S) |-> CHOOSE i \in S : Rank(S, i) = k - 1]
=============================================================================
