------------------------------ MODULE Sublists ------------------------------
(* What is left of a list when some of its members are taken out of it.      *)
EXTENDS Integers, Sequences, FiniteSets

\* The k-th of a set of positions.
Nth(P, k) == CHOOSE i \in P : Cardinality(P \cap (1 .. i)) = k

\* The members of a list at a set of its positions, in their order.
Sublist(s, P) == [k \in 1 .. Cardinality(P) |-> s[Nth(P, k)]]

=============================================================================
