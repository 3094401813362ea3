-------------------------------- MODULE Lists --------------------------------
(* Deletion while a linked list is walked (LL_FOREACH_SAFE, LL_DELETE).    *)
EXTENDS Integers, FiniteSets

(* The elements at the places in S, in their order: the k-th is the one    *)
(* with k of the places up to its own.                                     *)
Kept(list, S) ==
  [k \in 1 .. Cardinality(S) |-> list[CHOOSE i \in S : Cardinality({j \in S : j <= i}) = k]]
=============================================================================
