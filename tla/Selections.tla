----------------------------- MODULE Selections ------------------------------
(***************************************************************************)
(* Lists made from lists and from sets: Python's [x for x in xs if ...]    *)
(* and sorted(xs), in a form the provers can look into.                    *)
(***************************************************************************)
EXTENDS SequencesExt

\* The items of s that are in S, in their order.
Selected(s, S) == FlattenSeq([i \in DOMAIN s |-> IF s[i] \in S THEN <<s[i]>> ELSE <<>>])

\* The members of S by a total order: the n-th has n - 1 before it.
Sorted(S, Before(_, _)) ==
  [n \in 1..Cardinality(S) |-> CHOOSE x \in S : Cardinality({y \in S : Before(y, x)}) = n - 1]
=============================================================================
