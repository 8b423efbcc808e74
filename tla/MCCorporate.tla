------------------------------ MODULE MCCorporate ------------------------------
(* A small instance of Corporate: one company and two of its people. *)
EXTENDS Corporate
=============================================================================
