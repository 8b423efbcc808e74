--------------------------- MODULE PrepaidAccount ---------------------------
(***************************************************************************)
(* What a top-up promises, whoever reports the payment: the client pays an *)
(* invoice at the provider, and some time later its whole amount is added  *)
(* to the client's balance, once.                                          *)
(***************************************************************************)
EXTENDS Integers

CONSTANTS Clients, Invoices, Owner, Amount

VARIABLES
  paid,      \* invoices the provider was paid for
  credited,  \* invoices whose amount reached the balance
  balance

Init ==
  /\ paid = {} /\ credited = {}
  /\ balance = [c \in Clients |-> 0]

Pay(i) ==
  /\ i \notin paid
  /\ paid' = paid \cup {i}
  /\ UNCHANGED <<credited, balance>>

Credit(i) ==
  /\ i \in paid \ credited
  /\ credited' = credited \cup {i}
  /\ balance' = [balance EXCEPT ![Owner[i]] = @ + Amount[i]]
  /\ UNCHANGED paid

Next == \E i \in Invoices : Pay(i) \/ Credit(i)

Spec == Init /\ [][Next]_<<paid, credited, balance>>
=============================================================================
