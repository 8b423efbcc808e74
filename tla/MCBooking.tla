----------------------------- MODULE MCBooking -----------------------------
(* Two clients who compete for the connectors of a station. *)
EXTENDS Booking

CONSTANTS ann, bob
=============================================================================
