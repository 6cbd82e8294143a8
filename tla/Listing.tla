------------------------------ MODULE Listing ------------------------------
(***************************************************************************)
(* Finite sets as sequences: what a loop that appends, a filter or a sort  *)
(* leaves in a slice.                                                      *)
(***************************************************************************)
EXTENDS Integers, FiniteSets

\* The elements of S in the order `before`, a set of pairs.
Listed(S, before) ==
    [k \in 1..Cardinality(S) |-> CHOOSE x \in S : Cardinality({y \in S : <<y, x>> \in before}) = k - 1]

\* The elements of a sequence at some of its indices.
Picked(s, indices) ==
    LET is == Listed(indices, {p \in indices \X indices : p[1] < p[2]})
    IN [k \in DOMAIN is |-> s[is[k]]]
=============================================================================
