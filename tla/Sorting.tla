------------------------------- MODULE Sorting -------------------------------
(***************************************************************************)
(* What slices.Sort and slices.SortFunc leave: the members of a finite set *)
(* in the order of a relation, which is strict and total on the set.       *)
(***************************************************************************)
EXTENDS Naturals, FiniteSets

\* The k-th member has k - 1 members before it.
InOrder(S, before) ==
    [k \in 1..Cardinality(S) |->
        CHOOSE x \in S : Cardinality({y \in S : <<y, x>> \in before}) = k - 1]
==============================================================================
