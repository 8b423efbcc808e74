---------------------------- MODULE ReservedFunds ----------------------------
(***************************************************************************)
(* What a charging session promises about money, whoever ends it: the      *)
(* client's reservation is held while the session runs, one session at a   *)
(* time, and is settled once, for a price the client can pay.              *)
(***************************************************************************)
EXTENDS Integers

CONSTANTS Clients, Sessions, Client, Reserve, Funds

VARIABLES
  held,     \* sessions whose reservation is held
  settled,  \* sessions that have been paid for
  paid,     \* what the client has given for each session
  balance

Init ==
  /\ held = {} /\ settled = {}
  /\ paid = [s \in Sessions |-> 0]
  /\ balance = Funds

Hold(s) ==
  /\ s \notin held \cup settled
  /\ \A r \in held : Client[r] # Client[s]
  /\ balance[Client[s]] >= Reserve[s]
  /\ held' = held \cup {s}
  /\ paid' = [paid EXCEPT ![s] = Reserve[s]]
  /\ balance' = [balance EXCEPT ![Client[s]] = @ - Reserve[s]]
  /\ UNCHANGED settled

(* The price of session s is p: the rest of the reservation is returned,   *)
(* what is missing is taken from the balance.                              *)
Settle(s, p) ==
  /\ s \in held
  /\ p <= Reserve[s] + balance[Client[s]]
  /\ held' = held \ {s}
  /\ settled' = settled \cup {s}
  /\ paid' = [paid EXCEPT ![s] = p]
  /\ balance' = [balance EXCEPT ![Client[s]] = @ + Reserve[s] - p]

Next == \E s \in Sessions :
          \/ Hold(s)
          \/ \E p \in 0..(Reserve[s] + balance[Client[s]]) : Settle(s, p)

Spec == Init /\ [][Next]_<<held, settled, paid, balance>>
=============================================================================
