------------------------------ MODULE MCTopUp ------------------------------
(* Small instances of TopUp: one client with a single Namba link, or with  *)
(* a card payment and a QR invoice that supersedes it.                     *)
EXTENDS TopUp

CONSTANTS c1, qr, link, card

MCOwner == [i \in Invoices |-> c1]
MCProvider == [i \in Invoices |-> CASE i = qr -> "ODENGI"
                                    [] i = link -> "NAMBA_ONE"
                                    [] i = card -> "OBANK"]
MCAmount == [i \in Invoices |-> IF i = qr THEN 1 ELSE 2]
=============================================================================
