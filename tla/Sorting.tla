------------------------------ MODULE Sorting -------------------------------
(* A finite set of spans, sorted: Python's sorted(), of no two equals.     *)
EXTENDS Naturals, FiniteSets

(* The members of a finite set in their order. *)
Sorted(S, Before(_, _)) ==
  CHOOSE q \in [1..Cardinality(S) -> S] :
    \A i, j \in 1..Cardinality(S) : i < j => Before(q[i], q[j])
=============================================================================
