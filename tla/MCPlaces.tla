------------------------------- MODULE MCPlaces -------------------------------
(* A small instance of Places: two stations at one of two locations. *)
EXTENDS Places

CONSTANTS here, there

MCAtFirst == [p \in Points |-> IF p <= 2 THEN here ELSE None]
=============================================================================
