------------------------------ MODULE Selection ------------------------------
(****************************************************************************)
(* The entries of a sequence at given indices, in their order.  It is what  *)
(* SelectSeq returns for the indices whose entries pass its test, without a *)
(* recursion over the sequence, so that proofs can speak of a single entry. *)
(****************************************************************************)
EXTENDS Naturals, Sequences, FiniteSets

\* How many of the indices K are not above i.
Rank(K, i) == Cardinality({j \in K : j <= i})

Selected(s, K) == [n \in 1..Cardinality(K) |-> s[CHOOSE i \in K : Rank(K, i) = n]]

=============================================================================
