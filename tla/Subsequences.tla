---------------------------- MODULE Subsequences ----------------------------
(***************************************************************************)
(* What a filter over a list keeps: the elements at some of its indices,   *)
(* in the order they stood.                                                *)
(***************************************************************************)
EXTENDS Integers, FiniteSets

\* How many members of I are at most i: the place of i among them.
Place(I, i) == Cardinality({j \in I : j <= i})

\* The n-th member of I, from the smallest.
Nth(I, n) == CHOOSE i \in I : Place(I, i) = n

\* The elements of s at the indices in I, in order.
Only(s, I) == [n \in 1 .. Cardinality(I) |-> s[Nth(I, n)]]
=============================================================================
