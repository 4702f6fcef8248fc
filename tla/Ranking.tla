------------------------------ MODULE Ranking ------------------------------
(***************************************************************************)
(* Lists made of sets: the members of a set in an order, and the elements  *)
(* of a sequence at some of its places.  An order is the function that     *)
(* gives each member those before it, which says what a sort.Slice in the  *)
(* code compares and can be reasoned about as sets are.                    *)
(***************************************************************************)
EXTENDS Integers, Sequences, FiniteSets

\* The members of DOMAIN B, each behind those that B puts before it.
InOrder(B) ==
  [n \in 1 .. Cardinality(DOMAIN B) |-> CHOOSE x \in DOMAIN B : Cardinality(B[x]) = n - 1]

\* Pairs of numbers by the first, then by the second.
InRows(P) == InOrder([p \in P |-> {r \in P : r[1] < p[1] \/ (r[1] = p[1] /\ r[2] < p[2])}])

\* The elements of s at the places of S, in their order.
Picked(s, S) ==
  LET at == InOrder([i \in S |-> {j \in S : j < i}])
  IN  [n \in 1 .. Cardinality(S) |-> s[at[n]]]
=============================================================================
