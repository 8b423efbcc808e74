------------------------------- MODULE MCAccess -------------------------------
(* A small instance of Access: one browser, a superadmin and a colleague. *)
EXTENDS Access

LOCAL INSTANCE TLC

CONSTANTS ada, pam, p1

MCInitially ==
  [o \in Staff |->
     IF o = ada THEN [made |-> TRUE, role |-> "superadmin", active |-> TRUE,
                      phone |-> p1, client |-> FALSE]
     ELSE [made |-> FALSE, role |-> "operator", active |-> FALSE,
           phone |-> None, client |-> FALSE]]

Slots == Permutations(Requests)
=============================================================================
