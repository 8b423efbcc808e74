------------------------------- MODULE MCNotices -------------------------------
(* A small instance of Notices: one client with two devices, and two       *)
(* stations that may fall silent together.                                 *)
EXTENDS Notices

CONSTANTS ann, pam

MCUser == [d \in Devices |-> ann]
MCEventSets == {{"charging.progress", "charging.error", "station.offline"}}

Alike == Permutations(Devices) \cup Permutations(Stations)
=============================================================================
