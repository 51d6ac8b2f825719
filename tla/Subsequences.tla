---------------------------- MODULE Subsequences ----------------------------
(* What is left of a list when some of its entries are taken out, as the   *)
(* code's loops over lists do that drop what they do not keep.  (SelectSeq *)
(* with a set of positions for its test, which can be proved about.)       *)
EXTENDS Integers, Sequences, FiniteSets

(* How many of the positions K are not behind i.                           *)
Rank(K, i) == Cardinality({j \in K : j <= i})

(* The entries of s at the positions K, in their order.                    *)
Picked(s, K) ==
  [n \in 1..Cardinality(K) |-> s[CHOOSE i \in K : Rank(K, i) = n]]
=============================================================================
