------------------------------ MODULE Ascending ------------------------------
(***************************************************************************)
(* Numbers of a finite set in ascending order, as keyset paging and the    *)
(* positions of a list put them.                                           *)
(***************************************************************************)
EXTENDS Integers, FiniteSets

Smaller(m, n) == IF m < n THEN m ELSE n

\* The k-th smallest number of S: k - 1 of them are below it.
Nth(S, k) == CHOOSE i \in S : Cardinality({j \in S : j < i}) = k - 1

\* At most n numbers of S, the smallest ones in order.
First(n, S) == [k \in 1..Smaller(n, Cardinality(S)) |-> Nth(S, k)]
=============================================================================
