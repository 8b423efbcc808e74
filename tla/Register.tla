------------------------------- MODULE Register -------------------------------
(***************************************************************************)
(* The stations of the register, and how they are numbered.                *)
(***************************************************************************)
EXTENDS Integers, FiniteSets, FiniteSetsExt

CONSTANT Points    \* ids of stations

VARIABLE stations  \* stations

At(l) == {p \in Points : stations[p].made /\ stations[p].at = l}

(* KG*RPE*E with three digits of location_seq, while there are fewer than  *)
(* a thousand locations, and two digits or more of station_seq: the text   *)
(* tells both numbers.                                                     *)
EvseId(location, station) == <<location, station>>

(* station_seq: one more than the greatest there is at the location. *)
NextAt_Count(l) == Cardinality(At(l)) + 1
NextAt(l) == Max({stations[p].seq : p \in At(l)} \cup {0}) + 1

(* Two stations never have one EVSE id, in whatever order they are         *)
(* created, moved from location to location and deleted.                   *)
EvseIdsAreUnique ==
  \A p, q \in Points :
    p # q /\ stations[p].made /\ stations[q].made => stations[p].evse # stations[q].evse
=============================================================================
