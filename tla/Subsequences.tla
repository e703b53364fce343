---------------------------- MODULE Subsequences ----------------------------
(***************************************************************************)
(* The members of a finite set of numbers in ascending order, and the part *)
(* of a sequence at given positions.  Loops of the code that copy the      *)
(* elements of a vector that pass a test, or erase some of them, are       *)
(* written with these operators.                                           *)
(***************************************************************************)
EXTENDS Integers, Sequences, FiniteSets

\* How many members of S come before x.
Rank(S, x) == Cardinality({y \in S : y < x})

\* The members of S, the smallest first.
Ascending(S) == [k \in 1 .. Cardinality(S) |-> CHOOSE x \in S : Rank(S, x) = k - 1]

\* The elements of s at the positions in I, in their order.
Subsequence(s, I) == [k \in 1 .. Cardinality(I) |-> s[Ascending(I)[k]]]
=============================================================================
