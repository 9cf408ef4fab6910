-------------------------------- MODULE Places --------------------------------
(***************************************************************************)
(* Places in a list, and what is picked from it at some of them.           *)
(***************************************************************************)
EXTENDS Integers, FiniteSets

\* How many of the places I come up to i: the place of i among them.
Rank(i, I) == Cardinality({j \in I : j <= i})

\* The members of a list at the places in I, in their order there.
Picked(s, I) ==
  [n \in 1..Cardinality(I) |-> s[CHOOSE i \in I : Rank(i, I) = n]]
===============================================================================
