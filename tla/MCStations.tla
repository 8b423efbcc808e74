----------------------------- MODULE MCStations -----------------------------
(* Small instances of Stations: every connection bears the station's key,  *)
(* which may be refused all the same.                                      *)
EXTENDS Stations

MCPresents == [c \in Connections |-> "station key"]
=============================================================================
