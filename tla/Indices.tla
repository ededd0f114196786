------------------------------ MODULE Indices ------------------------------
(***************************************************************************)
(* The items of a sequence at some of its indices, in their order: what    *)
(* filter() leaves of an iterator.                                         *)
(***************************************************************************)
EXTENDS Naturals, Sequences, FiniteSets

\* The k-th of some numbers.
Smallest(S, k) == CHOOSE n \in S : Cardinality({m \in S : m <= n}) = k

Those(s, S) == [k \in 1..Cardinality(S) |-> s[Smallest(S, k)]]
=============================================================================
