-------------------------- MODULE MCTransactions201 --------------------------
(* A small instance of Transactions201: one session of one client, and a    *)
(* station of two EVSEs, on either of which the client may plug in.         *)
EXTENDS Transactions201, TLC

CONSTANTS ann, s1, e1, e2

MCClient == [s \in Sessions |-> ann]
MCReserve == [s \in Sessions |-> 1]
MCFunds == [k \in Clients |-> 1]

EVSESymmetry == Permutations(EVSEs)
=============================================================================
