-------------------------------- MODULE Ordering --------------------------------
(* What `sorted(..., key=...)' gives for elements whose keys differ.         *)
EXTENDS Integers, FiniteSets

Ordered(S, key(_)) ==
  [i \in 1..Cardinality(S) |-> CHOOSE x \in S : Cardinality({y \in S : key(y) < key(x)}) = i - 1]

(* The first n of them.                                                      *)
Least(S, n, key(_)) == {x \in S : Cardinality({y \in S : key(y) < key(x)}) < n}
=============================================================================
