----------------------------- MODULE MCCharging -----------------------------
(* Small instances of Charging: one or two clients, a session of each, and *)
(* a second one of the first client.                                       *)
EXTENDS Charging

CONSTANTS ann, bob, s1, s2, s3

MCClient == [s \in Sessions |-> IF s = s2 THEN bob ELSE ann]
MCReserve == [s \in Sessions |-> 1]
MCFunds == [k \in Clients |-> 3]
=============================================================================
