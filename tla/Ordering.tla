------------------------------ MODULE Ordering -------------------------------
(***************************************************************************)
(* Finite sets in order, as sequences (sorted).                            *)
(***************************************************************************)
EXTENDS Integers, Sequences, FiniteSets

(* The elements of S in the order R, a set of pairs.                       *)
InOrder(S, R) ==
  [k \in 1..Cardinality(S) |-> CHOOSE x \in S : Cardinality({y \in S : <<y, x>> \in R}) = k - 1]

Ascending(S) == InOrder(S, {p \in S \X S : p[1] < p[2]})
=============================================================================
