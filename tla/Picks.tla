------------------------------- MODULE Picks --------------------------------
(***************************************************************************)
(* The elements of a sequence at some of its places, in their order: what  *)
(* a filter leaves of a list.                                              *)
(***************************************************************************)
EXTENDS Naturals, Sequences, FiniteSets

\* The place that comes n-th among the places.
PlaceOf(places, n) == CHOOSE p \in places : Cardinality({q \in places : q <= p}) = n

Picked(s, places) == [n \in 1..Cardinality(places) |-> s[PlaceOf(places, n)]]
=============================================================================
