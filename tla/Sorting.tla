------------------------------ MODULE Sorting ------------------------------
(***************************************************************************)
(* A finite set in a given order, as Array.prototype.sort and ORDER BY     *)
(* leave it: the k-th member is the one with k - 1 members before it.  The *)
(* order is a set of pairs, and total on the set.                          *)
(***************************************************************************)
EXTENDS Naturals, FiniteSets

\* x and what comes before it.
AtOrBefore(S, order, x) == {y \in S : y = x \/ <<y, x>> \in order}

Sorted(S, order) ==
  [k \in 1 .. Cardinality(S) |-> CHOOSE x \in S : Cardinality(AtOrBefore(S, order, x)) = k]
=============================================================================
