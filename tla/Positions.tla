------------------------------- MODULE Positions -------------------------------
(***************************************************************************)
(* A list filtered by a condition, as Python's comprehensions do it: the   *)
(* elements at some positions, in their order.  SelectSeq says the same;   *)
(* here the positions are a set, so that theorems can speak of them.       *)
(***************************************************************************)
EXTENDS Naturals, Sequences, FiniteSets

IsSeq(s) == s \in Seq({s[i] : i \in DOMAIN s})

\* How many of the positions there are up to p, and the n-th of them.
Rank(at, p) == Cardinality({q \in at : q <= p})
Nth(at, n) == CHOOSE p \in at : Rank(at, p) = n

Kept(s, at) == [n \in 1..Cardinality(at) |-> s[Nth(at, n)]]
===============================================================================
