------------------------------- MODULE Arrays -------------------------------
(***************************************************************************)
(* Array.filter, as the operation history and the operational transform    *)
(* use it: the elements at some positions, in their order.  It is defined  *)
(* by the positions, without recursion, so that it can be reasoned about.  *)
(***************************************************************************)
EXTENDS Integers, FiniteSets

\* Of some positions the one with n - 1 before it
Nth(K, n) == CHOOSE i \in K : Cardinality({j \in K : j < i}) = n - 1

\* The elements of an array at some positions
Filtered(s, K) == [n \in 1..Cardinality(K) |-> s[Nth(K, n)]]
=============================================================================
