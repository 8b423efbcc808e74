--------------------------- MODULE ChargingProofs ---------------------------
(***************************************************************************)
(* For every set of clients, sessions and connectors, every reservation,   *)
(* tariff and price, and every bound: the tables keep their types, no      *)
(* client falls below zero, money follows the status of a session, a       *)
(* settled session stays settled and settles for no more than it writes.   *)
(* Without reboots, a session never pays its client and the sessions       *)
(* implement ReservedFunds; a session alone, at a price that has not       *)
(* risen, never has paid more than its row shows.                          *)
(***************************************************************************)
EXTENDS Charging, WellFoundedInduction, TLAPS

(* Of naturals up to n there is a greatest one: the furthest below n is    *)
(* the least of the distances.                                             *)
LEMMA GreatestExists ==
  ASSUME NEW n \in Nat, NEW T, T \subseteq 0..n, T # {}
  PROVE  \E x \in T : \A y \in T : y <= x
<1> DEFINE S == {n - t : t \in T}
<1>1. S \subseteq Nat /\ S # {}
  <2>1. \A t \in T : t \in Nat /\ t <= n /\ n - t \in Nat
    OBVIOUS
  <2>2. PICK t \in T : TRUE
    OBVIOUS
  <2> QED BY <2>1, <2>2
<1>2. PICK x \in S : \A y \in S : ~ (<<y, x>> \in OpToRel(<, Nat))
  BY <1>1, NatLessThanWellFounded, WFMin
<1>3. PICK m \in T : x = n - m
  BY <1>2
<1>4. \A u \in T : u <= m
  <2> TAKE u \in T
  <2>1. n - u \in S /\ n - u \in Nat /\ n - m \in Nat /\ m \in Nat /\ u \in Nat
    BY <1>1
  <2>2. ~ (n - u < n - m)
    BY <1>2, <1>3, <2>1 DEF OpToRel
  <2> QED BY <2>1, <2>2
<1> QED BY <1>4

(* The last transaction of a non-empty set of them is one of the set. *)
LEMMA LatestFacts ==
  ASSUME NEW n \in Nat, NEW T, T \subseteq 1..n, T # {}
  PROVE  Latest(T) \in T
<1>1. T \subseteq 0..n
  OBVIOUS
<1> QED BY <1>1, GreatestExists DEF Latest

----------------------------------------------------------------------------
(* What the helpers return *)

LEMMA ConstantFacts ==
  /\ Client \in [Sessions -> Clients]
  /\ \A s \in Sessions : Client[s] \in Clients /\ Reserve[s] \in Nat /\ Reserve[s] > 0
  /\ Funds \in [Clients -> Nat]
  /\ None \notin Sessions /\ None \notin Clients /\ None \notin Int
  /\ Tariff \in Nat /\ Price \in Nat /\ MaxEnergy \in Nat /\ MaxTx \in Nat
BY SessionsAssumption, RatesAssumption, BoundsAssumption

LEMMA CostFacts ==
  ASSUME NEW n \in Nat
  PROVE  n * Tariff \in Nat /\ n * Price \in Nat
BY ConstantFacts

(* A row of the log of transactions is replaced by another. *)
LEMMA TxChange ==
  ASSUME TypeOK, NEW t \in DOMAIN txs, NEW x \in Transactions,
         txs' = [txs EXCEPT ![t] = x]
  PROVE  /\ txs' \in Seq(Transactions)
         /\ Len(txs') = Len(txs) /\ DOMAIN txs' = DOMAIN txs
         /\ Entries' = Entries
<1>1. txs \in Seq(Transactions)
  BY DEF TypeOK
<1>2. txs' \in Seq(Transactions) /\ Len(txs') = Len(txs) /\ DOMAIN txs' = DOMAIN txs
  BY <1>1
<1> QED BY <1>2 DEF Entries

LEMMA TxFacts ==
  ASSUME TypeOK
  PROVE  /\ Len(txs) \in Nat /\ DOMAIN txs = 1..Len(txs)
         /\ \A t \in DOMAIN txs :
              /\ txs[t] \in Transactions
              /\ txs[t].connector \in Connectors /\ txs[t].tag \in Clients
              /\ txs[t].session \in Sessions \cup {None}
              /\ txs[t].status \in {"Started", "Stopped"}
              /\ txs[t].device \in {"running", "ended", "over", "orphan"}
              /\ txs[t].delivered \in Nat /\ txs[t].sampled \in Nat \cup {None}
<1>1. txs \in Seq(Transactions)
  BY DEF TypeOK
<1>2. Len(txs) \in Nat /\ DOMAIN txs = 1..Len(txs)
      /\ \A t \in DOMAIN txs : txs[t] \in Transactions
  BY <1>1
<1> QED BY <1>2 DEF Transactions

(* The energy a stop is settled for is never negative, whatever MeterValues *)
(* left in the row.                                                        *)
LEMMA ActualEnergyFacts ==
  ASSUME TypeOK, NEW s \in Sessions
  PROVE  ActualEnergy(s) \in Nat
<1>1. energy[s] \in Int
  BY DEF TypeOK
<1>2. CASE energy[s] > 0
  BY <1>1, <1>2 DEF ActualEnergy
<1>3. CASE ~ (energy[s] > 0) /\ TxsOf(s) = {}
  BY <1>3 DEF ActualEnergy
<1>4. CASE ~ (energy[s] > 0) /\ TxsOf(s) # {}
  <2>1. Latest(TxsOf(s)) \in TxsOf(s)
    BY <1>4, TxFacts, LatestFacts DEF TxsOf
  <2>2. Latest(TxsOf(s)) \in DOMAIN txs
    BY <2>1 DEF TxsOf
  <2> DEFINE x == txs[Latest(TxsOf(s))]
  <2>3. x.delivered \in Nat /\ x.sampled \in Nat \cup {None}
    BY <2>2, TxFacts
  <2>4. ActualEnergy(s) = IF x.sampled # None THEN x.sampled
                          ELSE IF x.status = "Stopped" THEN x.delivered ELSE 0
    BY <1>4 DEF ActualEnergy
  <2> QED BY <2>3, <2>4
<1> QED BY <1>2, <1>3, <1>4

(* A settlement touches one client and one session, takes no more than     *)
(* there is, and leaves the session with one price.                        *)
LEMMA SettleFacts ==
  ASSUME TypeOK, NEW s \in Sessions, NEW cost \in Nat,
         Settle(s, cost)
  PROVE  /\ balance' \in [Clients -> Int]
         /\ paid' \in [Sessions -> Int]
         /\ \A r \in Sessions \ {s} : paid'[r] = paid[r]
         /\ Solvent => Solvent'
         /\ Solvent /\ paid[s] = Reserve[s] =>
              \E p \in 0..(Reserve[s] + balance[Client[s]]) :
                /\ paid' = [paid EXCEPT ![s] = p]
                /\ balance' = [balance EXCEPT ![Client[s]] = @ + Reserve[s] - p]
<1> DEFINE k == Client[s]
<1>0. /\ k \in Clients /\ Reserve[s] \in Nat
      /\ balance \in [Clients -> Int]
      /\ paid \in [Sessions -> Int]
  BY ConstantFacts DEF TypeOK
<1>1. CASE cost > Reserve[s]
  <2> DEFINE x == Extra(s, cost)
  <2>1. x \in Int /\ x <= balance[k] /\ x <= cost - Reserve[s]
        /\ (balance[k] >= 0 => x >= 0)
    BY <1>0, <1>1 DEF Extra, Least
  <2>2. /\ balance' = [balance EXCEPT ![k] = @ - x]
        /\ paid' = [paid EXCEPT ![s] = @ + x]
    BY <1>1 DEF Settle
  <2> HIDE DEF x
  <2>3. /\ balance' \in [Clients -> Int]
        /\ paid' \in [Sessions -> Int]
        /\ \A r \in Sessions \ {s} : paid'[r] = paid[r]
    BY <1>0, <2>1, <2>2
  <2>4. Solvent => Solvent'
    BY <1>0, <2>1, <2>2 DEF Solvent
  <2>5. ASSUME Solvent, paid[s] = Reserve[s]
        PROVE  \E p \in 0..(Reserve[s] + balance[k]) :
                /\ paid' = [paid EXCEPT ![s] = p]
                /\ balance' = [balance EXCEPT ![k] = @ + Reserve[s] - p]
    <3>1. balance[k] >= 0
      BY <1>0, <2>5 DEF Solvent
    <3>2. Reserve[s] + x \in 0..(Reserve[s] + balance[k])
      BY <1>0, <2>1, <3>1
    <3>3. balance[k] - x = balance[k] + Reserve[s] - (Reserve[s] + x)
      BY <1>0, <2>1
    <3> QED BY <2>2, <2>5, <3>2, <3>3
  <2> QED BY <2>3, <2>4, <2>5
<1>2. CASE ~ (cost > Reserve[s])
  <2>1. /\ balance' = [balance EXCEPT ![k] = @ + (Reserve[s] - cost)]
        /\ paid' = [paid EXCEPT ![s] = @ - (Reserve[s] - cost)]
    BY <1>2 DEF Settle
  <2>2. Reserve[s] - cost \in Nat
    BY <1>0, <1>2
  <2>3. /\ balance' \in [Clients -> Int]
        /\ paid' \in [Sessions -> Int]
        /\ \A r \in Sessions \ {s} : paid'[r] = paid[r]
    BY <1>0, <2>1, <2>2
  <2>4. Solvent => Solvent'
    BY <1>0, <2>1, <2>2 DEF Solvent
  <2>5. ASSUME Solvent, paid[s] = Reserve[s]
        PROVE  \E p \in 0..(Reserve[s] + balance[k]) :
                /\ paid' = [paid EXCEPT ![s] = p]
                /\ balance' = [balance EXCEPT ![k] = @ + Reserve[s] - p]
    <3>1. balance[k] >= 0
      BY <1>0, <2>5 DEF Solvent
    <3>2. cost \in 0..(Reserve[s] + balance[k])
      BY <1>0, <1>2, <3>1
    <3>3. balance[k] + (Reserve[s] - cost) = balance[k] + Reserve[s] - cost
          /\ Reserve[s] - (Reserve[s] - cost) = cost
      BY <1>0
    <3> QED BY <2>1, <2>5, <3>2, <3>3
  <2> QED BY <2>3, <2>4, <2>5
<1> QED BY <1>1, <1>2

----------------------------------------------------------------------------
(* Types *)

LEMMA SessionForFacts ==
  ASSUME TypeOK, NEW c \in Connectors, NEW k \in Clients
  PROVE  /\ SessionFor(c, k) \in Sessions \cup {None}
         /\ SessionFor(c, k) # None =>
              pending[c] = SessionFor(c, k) \/ SessionFor(c, k) \in StartedOf(k)
<1>1. pending[c] \in Sessions \cup {None}
  BY DEF TypeOK
<1>2. StartedOf(k) \subseteq Sessions
  BY DEF StartedOf
<1>3. StartedOf(k) # {} => (CHOOSE s \in StartedOf(k) : TRUE) \in StartedOf(k)
  OBVIOUS
<1> QED BY <1>1, <1>2, <1>3 DEF SessionFor

(* A StartTransaction appends one well-formed row. *)
LEMMA OpenFacts ==
  ASSUME TypeOK, NEW c \in Connectors, NEW k \in Clients, NEW n \in Nat,
         NEW old \in Seq(Transactions), Len(old) = Len(txs),
         OpenTransaction(c, k, n, old)
  PROVE  /\ txs' \in Seq(Transactions)
         /\ Len(txs') = Len(txs) + 1
         /\ DOMAIN txs' = DOMAIN txs \cup {Len(txs) + 1}
         /\ \A t \in DOMAIN txs : txs'[t] = old[t]
         /\ txs'[Len(txs) + 1].session = SessionFor(c, k)
         /\ linked' \in [Sessions -> (DOMAIN txs') \cup {None}]
         /\ pending' \in [Connectors -> Sessions \cup {None}]
         /\ entry' \in [Connectors -> Entries' \cup {None}]
         /\ last' \in Entries' \cup {None}
         /\ connectors' \in [Connectors -> Plugs]
<1> DEFINE s == SessionFor(c, k)
           t == Len(txs) + 1
           e == [tx |-> t, session |-> s, limit |-> s # None /\ s \notin Unlimited]
           x == [connector |-> c, tag |-> k, session |-> s, status |-> "Started",
                 device |-> "running", delivered |-> n, sampled |-> None]
<1>1. s \in Sessions \cup {None}
  BY SessionForFacts
<1>2. x \in Transactions
  BY <1>1 DEF Transactions
<1>3. /\ txs' = Append(old, x)
      /\ pending' = [pending EXCEPT ![c] = None]
      /\ linked' = IF s = None THEN linked ELSE [linked EXCEPT ![s] = t]
      /\ entry' = [entry EXCEPT ![c] = e] /\ last' = e
      /\ connectors' = [connectors EXCEPT ![c] = "occupied"]
  BY DEF OpenTransaction
<1>4. Len(txs) \in Nat /\ DOMAIN txs = 1..Len(txs) /\ DOMAIN old = 1..Len(txs)
  BY TxFacts
<1> HIDE DEF x
<1>5. txs' \in Seq(Transactions) /\ Len(txs') = t /\ txs'[t] = x
      /\ \A u \in 1..Len(txs) : txs'[u] = old[u]
  BY <1>2, <1>3, <1>4
<1>6. DOMAIN txs' = DOMAIN txs \cup {t}
  BY <1>4, <1>5
<1>7. linked' \in [Sessions -> (DOMAIN txs') \cup {None}]
  BY <1>1, <1>3, <1>6 DEF TypeOK
<1>8. e \in Entries' /\ Entries \subseteq Entries'
  BY <1>1, <1>4, <1>5 DEF Entries
<1> HIDE DEF e
<1>9. /\ pending' \in [Connectors -> Sessions \cup {None}]
      /\ entry' \in [Connectors -> Entries' \cup {None}]
      /\ last' \in Entries' \cup {None}
      /\ connectors' \in [Connectors -> Plugs]
  BY <1>3, <1>8 DEF TypeOK, Plugs
<1>10. x.session = s
  BY DEF x
<1> QED BY <1>4, <1>5, <1>6, <1>7, <1>9, <1>10

(* What MeterValues does to memory, commands and the energy of a session. *)
LEMMA MeterFacts ==
  ASSUME TypeOK, NEW t \in DOMAIN txs, MeterValues(t)
  PROVE  /\ energy' \in [Sessions -> Int]
         /\ stopping' \subseteq DOMAIN txs
         /\ entry' \in [Connectors -> Entries \cup {None}]
         /\ last' \in Entries \cup {None}
<1> DEFINE c == txs[t].connector
           found == IF entry[c] # None THEN entry[c] ELSE last
<1>1. /\ c \in Connectors /\ txs[t].delivered \in Nat
      /\ Len(txs) \in Nat /\ DOMAIN txs = 1..Len(txs)
  BY TxFacts
<1>2. /\ energy \in [Sessions -> Int] /\ stopping \subseteq DOMAIN txs
      /\ entry \in [Connectors -> Entries \cup {None}]
      /\ last \in Entries \cup {None}
  BY DEF TypeOK
<1>3. CASE found = None
  BY <1>2, <1>3 DEF MeterValues, memory
<1>4. CASE found # None
  <2> DEFINE e == Relink(found, c)
  <2>1. found \in Entries
    BY <1>1, <1>2, <1>4
  <2>2. e \in Entries
    <3> DEFINE S == {s \in Sessions : status[s] = "started" /\ plug[s] = c}
    <3>1. CASE found.session = None /\ S # {}
      <4>1. (CHOOSE s \in S : TRUE) \in Sessions
        BY <3>1
      <4>2. e = [found EXCEPT !.session = CHOOSE s \in S : TRUE]
        BY <3>1 DEF Relink
      <4> QED BY <2>1, <4>1, <4>2 DEF Entries
    <3>2. CASE ~ (found.session = None /\ S # {})
      BY <2>1, <3>2 DEF Relink
    <3> QED BY <3>1, <3>2
  <2>3. e.session \in Sessions \cup {None} /\ e.tx \in 0..Len(txs)
    BY <2>2 DEF Entries
  <2>4. Readings(t, e) \subseteq Int
    BY <1>1, ConstantFacts DEF Readings
  <2>5. PICK n \in Readings(t, e) :
          /\ energy' = IF e.session # None /\ status[e.session] = "started"
                       THEN [energy EXCEPT ![e.session] = n] ELSE energy
          /\ stopping' = IF e.limit /\ e.tx # 0 /\ AtLimit(e.session, n)
                         THEN stopping \cup {e.tx} ELSE stopping
          /\ entry' = IF entry[c] # None THEN [entry EXCEPT ![c] = e] ELSE entry
          /\ last' = IF last = found THEN e ELSE last
    BY <1>4 DEF MeterValues
  <2> HIDE DEF e, found
  <2>6. n \in Int
    BY <2>4
  <2> QED BY <1>1, <1>2, <2>2, <2>3, <2>5, <2>6
<1> QED BY <1>3, <1>4

(* The actions that leave the transactions alone leave Entries alone. *)
LEMMA SameTxs == txs' = txs => Entries' = Entries
BY DEF Entries

(* Both kinds of stop finalize a session with a natural energy and cost. *)
LEMMA FinalizeTypes ==
  ASSUME TypeOK, NEW s \in Sessions, NEW n \in Nat, NEW cost \in Nat,
         Finalize(s, n, cost)
  PROVE  /\ status' \in [Sessions -> Statuses]
         /\ energy' \in [Sessions -> Int]
         /\ amount' \in [Sessions -> Nat]
         /\ processed' \in [Sessions -> BOOLEAN]
         /\ plug' = plug /\ linked' = linked
BY DEF TypeOK, Finalize, Statuses

LEMMA StartTypes ==
  ASSUME TypeOK, NEW s \in Sessions,
         \/ \E c \in Connectors : StartSession(s, c)
         \/ \E d \in BOOLEAN : SendStartCommand(s, d) \/ SendStopCommand(s, d)
  PROVE  TypeOK'
<1> USE DEF accounts, rows, memory, requests, bounds
<1>0. txs' = txs /\ Entries' = Entries
  BY SameTxs DEF StartSession, SendStartCommand, SendStopCommand
<1>1. ASSUME NEW c \in Connectors, StartSession(s, c)
      PROVE  TypeOK'
  BY <1>0, <1>1, ConstantFacts DEF StartSession, TypeOK, Statuses, Plugs
<1>2. ASSUME NEW d \in BOOLEAN, SendStartCommand(s, d)
      PROVE  TypeOK'
  <2>1. [tx |-> 0, session |-> s, limit |-> TRUE] \in Entries
    BY TxFacts DEF Entries
  <2> QED BY <1>0, <1>2, <2>1, ConstantFacts DEF SendStartCommand, TypeOK
<1>3. ASSUME NEW d \in BOOLEAN, SendStopCommand(s, d)
      PROVE  TypeOK'
  <2>1. TxsOf(s) # {} => Latest(TxsOf(s)) \in DOMAIN txs
    BY TxFacts, LatestFacts DEF TxsOf
  <2>2. stopping' \subseteq DOMAIN txs
    BY <1>3, <2>1 DEF SendStopCommand, TypeOK
  <2> QED BY <1>0, <1>3, <2>2 DEF SendStopCommand, TypeOK
<1> QED BY <1>1, <1>2, <1>3

LEMMA OpenTypes ==
  ASSUME TypeOK, NEW c \in Connectors, NEW k \in Clients, NEW n \in Nat,
         NEW old \in Seq(Transactions), Len(old) = Len(txs),
         OpenTransaction(c, k, n, old),
         asked' \in [Connectors -> Clients \cup {None}]
  PROVE  TypeOK'
<1> USE DEF accounts, rows, memory, requests, bounds
<1>1. /\ txs' \in Seq(Transactions)
      /\ DOMAIN txs \subseteq DOMAIN txs'
      /\ linked' \in [Sessions -> (DOMAIN txs') \cup {None}]
      /\ pending' \in [Connectors -> Sessions \cup {None}]
      /\ entry' \in [Connectors -> Entries' \cup {None}]
      /\ last' \in Entries' \cup {None}
      /\ connectors' \in [Connectors -> Plugs]
  BY OpenFacts
<1>2. UNCHANGED <<balance, paid, status, plug, energy, amount, processed,
                  starting, sending, stopping, reboots, crashes>>
  BY DEF OpenTransaction
<1> QED BY <1>1, <1>2 DEF TypeOK

LEMMA ChargingTypes ==
  ASSUME TypeOK, NEW t \in DOMAIN txs,
         \/ RepeatStartTransaction(t) \/ Deliver(t) \/ MeterValues(t)
         \/ StationEnds(t) \/ CrashInStopTransaction(t)
  PROVE  TypeOK'
<1> USE DEF accounts, rows, memory, requests, bounds
<1>0. /\ txs[t] \in Transactions /\ txs[t].connector \in Connectors
      /\ txs[t].tag \in Clients /\ txs[t].delivered \in Nat
      /\ txs \in Seq(Transactions)
  BY TxFacts DEF TypeOK
<1>1. CASE RepeatStartTransaction(t)
  <2> DEFINE x == [txs[t] EXCEPT !.device = "orphan"]
             old == [txs EXCEPT ![t] = x]
  <2>1. x \in Transactions
    BY <1>0 DEF Transactions
  <2> HIDE DEF x
  <2>2. old \in Seq(Transactions) /\ Len(old) = Len(txs)
    BY <1>0, <2>1
  <2>3. old = [txs EXCEPT ![t].device = "orphan"]
    BY DEF x
  <2> HIDE DEF old
  <2>4. OpenTransaction(txs[t].connector, txs[t].tag, txs[t].delivered, old)
        /\ asked' = asked
    BY <1>1, <2>3 DEF RepeatStartTransaction
  <2> QED BY <1>0, <2>2, <2>4, OpenTypes DEF TypeOK
<1>2. CASE Deliver(t)
  <2>1. [txs[t] EXCEPT !.delivered = @ + 1] \in Transactions
    BY <1>0 DEF Transactions
  <2>2. txs' = [txs EXCEPT ![t] = [txs[t] EXCEPT !.delivered = @ + 1]]
    BY <1>2 DEF Deliver
  <2>3. txs' \in Seq(Transactions) /\ DOMAIN txs' = DOMAIN txs /\ Entries' = Entries
    BY <2>1, <2>2, TxChange
  <2> QED BY <1>2, <2>3 DEF Deliver, TypeOK
<1>3. CASE MeterValues(t)
  <2>1. [txs[t] EXCEPT !.sampled = txs[t].delivered] \in Transactions
    BY <1>0 DEF Transactions
  <2>2. txs' = [txs EXCEPT ![t] = [txs[t] EXCEPT !.sampled = txs[t].delivered]]
    BY <1>3 DEF MeterValues
  <2>3. txs' \in Seq(Transactions) /\ DOMAIN txs' = DOMAIN txs /\ Entries' = Entries
    BY <2>1, <2>2, TxChange
  <2>4. /\ energy' \in [Sessions -> Int]
        /\ stopping' \subseteq DOMAIN txs
        /\ entry' \in [Connectors -> Entries \cup {None}]
        /\ last' \in Entries \cup {None}
    BY <1>3, MeterFacts
  <2>5. UNCHANGED <<balance, paid, status, plug, amount, processed,
                    linked, connectors, pending, starting, sending, asked,
                    reboots, crashes>>
    BY <1>3 DEF MeterValues
  <2> QED BY <2>3, <2>4, <2>5 DEF TypeOK
<1>4. CASE StationEnds(t)
  <2>1. [txs[t] EXCEPT !.device = "ended"] \in Transactions
    BY <1>0 DEF Transactions
  <2>2. txs' = [txs EXCEPT ![t] = [txs[t] EXCEPT !.device = "ended"]]
    BY <1>4 DEF StationEnds
  <2>3. txs' \in Seq(Transactions) /\ DOMAIN txs' = DOMAIN txs /\ Entries' = Entries
    BY <2>1, <2>2, TxChange
  <2> QED BY <1>4, <2>3 DEF StationEnds, TypeOK
<1>5. CASE CrashInStopTransaction(t)
  <2>1. [txs[t] EXCEPT !.status = "Stopped"] \in Transactions
    BY <1>0 DEF Transactions
  <2>2. txs' = [txs EXCEPT ![t] = [txs[t] EXCEPT !.status = "Stopped"]]
    BY <1>5 DEF CrashInStopTransaction
  <2>3. txs' \in Seq(Transactions) /\ DOMAIN txs' = DOMAIN txs /\ Entries' = Entries
    BY <2>1, <2>2, TxChange
  <2> QED BY <1>5, <2>3 DEF CrashInStopTransaction, Restarts, TypeOK
<1> QED BY <1>1, <1>2, <1>3, <1>4, <1>5

LEMMA StopTransactionTypes ==
  ASSUME TypeOK, NEW t \in DOMAIN txs, NEW a \in BOOLEAN, StopTransaction(t, a)
  PROVE  TypeOK'
<1> USE DEF accounts, rows, memory, requests, bounds
<1> DEFINE s == txs[t].session
           c == txs[t].connector
           n == txs[t].delivered
           x == [txs[t] EXCEPT !.status = "Stopped",
                               !.device = IF a THEN "over" ELSE "ended"]
<1>1. /\ txs[t] \in Transactions /\ c \in Connectors /\ n \in Nat
      /\ s \in Sessions \cup {None}
  BY TxFacts
<1>2. x \in Transactions
  BY <1>1 DEF Transactions
<1>3. txs' = [txs EXCEPT ![t] = x]
  BY DEF StopTransaction
<1> HIDE DEF x
<1>4. txs' \in Seq(Transactions) /\ DOMAIN txs' = DOMAIN txs /\ Entries' = Entries
  BY <1>2, <1>3, TxChange
<1>5. /\ balance' \in [Clients -> Int]
      /\ paid' \in [Sessions -> Int]
      /\ status' \in [Sessions -> Statuses] /\ energy' \in [Sessions -> Int]
      /\ amount' \in [Sessions -> Nat] /\ processed' \in [Sessions -> BOOLEAN]
      /\ plug' = plug /\ linked' = linked
  <2>1. CASE txs[t].status = "Started" /\ s # None
    <3>1. s \in Sessions /\ SettleByStation(s, n)
      BY <1>1, <2>1 DEF StopTransaction
    <3>2. n * Tariff \in Nat
      BY <1>1, CostFacts
    <3> DEFINE cost == n * Tariff
    <3>3. Finalize(s, n, cost) /\ (Settle(s, cost) \/ UNCHANGED accounts)
      BY <3>1 DEF SettleByStation
    <3> HIDE DEF cost, s, n
    <3>4. /\ status' \in [Sessions -> Statuses] /\ energy' \in [Sessions -> Int]
          /\ amount' \in [Sessions -> Nat] /\ processed' \in [Sessions -> BOOLEAN]
          /\ plug' = plug /\ linked' = linked
      BY <1>1, <3>1, <3>2, <3>3, FinalizeTypes DEF cost
    <3>5. /\ balance' \in [Clients -> Int]
          /\ paid' \in [Sessions -> Int]
      <4>1. CASE Settle(s, cost)
        BY <3>1, <3>2, <4>1, SettleFacts DEF cost
      <4>2. CASE UNCHANGED accounts
        BY <4>2 DEF TypeOK
      <4> QED BY <3>3, <4>1, <4>2
    <3> QED BY <3>4, <3>5
  <2>2. CASE ~ (txs[t].status = "Started" /\ s # None)
    BY <2>2 DEF StopTransaction, TypeOK
  <2> QED BY <2>1, <2>2
<1>6. /\ connectors' = [connectors EXCEPT ![c] = "available"]
      /\ entry' = [entry EXCEPT ![c] = None] /\ last' = None
      /\ UNCHANGED <<pending, starting, sending, stopping, asked, reboots, crashes>>
  BY DEF StopTransaction
<1> QED BY <1>4, <1>5, <1>6 DEF TypeOK, Plugs

LEMMA StopSessionTypes ==
  ASSUME TypeOK, NEW s \in Sessions, StopSession(s)
  PROVE  TypeOK'
<1> USE DEF accounts, rows, memory, requests, bounds
<1> DEFINE n == ActualEnergy(s)
           cost == n * Price
<1>1. n \in Nat
  BY ActualEnergyFacts
<1>2. cost \in Nat
  BY <1>1, CostFacts
<1>3. /\ Settle(s, cost) /\ Finalize(s, n, cost)
      /\ connectors' = [connectors EXCEPT ![plug[s]] = "available"]
      /\ sending' = sending \cup {s}
      /\ UNCHANGED <<txs, pending, entry, last, starting, stopping, asked,
                      reboots, crashes>>
  BY DEF StopSession
<1> HIDE DEF n, cost
<1>4. /\ balance' \in [Clients -> Int]
      /\ paid' \in [Sessions -> Int]
  BY <1>2, <1>3, SettleFacts
<1>5. /\ status' \in [Sessions -> Statuses] /\ energy' \in [Sessions -> Int]
      /\ amount' \in [Sessions -> Nat] /\ processed' \in [Sessions -> BOOLEAN]
      /\ plug' = plug /\ linked' = linked
  BY <1>1, <1>2, <1>3, FinalizeTypes
<1>6. Entries' = Entries
  BY <1>3, SameTxs
<1> QED BY <1>3, <1>4, <1>5, <1>6 DEF TypeOK, Plugs

LEMMA RefundFacts ==
  ASSUME TypeOK, NEW k \in Clients
  PROVE  Refund(k) \in Nat
<1> DEFINE S == {s \in Unstarted : Client[s] = k}
<1>1. S \subseteq Sessions
  BY DEF Unstarted
<1>2. S # {} => (CHOOSE s \in S : TRUE) \in Sessions
  BY <1>1
<1> QED BY <1>2 DEF Refund, TypeOK

LEMMA OtherTypes ==
  ASSUME TypeOK,
         \/ \E t \in stopping : HandleRemoteStop(t)
         \/ \E c \in Connectors :
              \/ StartTransaction(c) \/ PendingExpires(c)
              \/ \E v \in StationNotices(c) : StatusNotification(c, v)
         \/ BootNotification \/ Disconnect
         \/ \E saved \in BOOLEAN : Restart(saved)
  PROVE  TypeOK'
<1> USE DEF accounts, rows, memory, requests, bounds
<1>1. ASSUME NEW t \in stopping, HandleRemoteStop(t)
      PROVE  TypeOK'
  <2> DEFINE u == RemoteStopTarget(t)
  <2>1. u \in DOMAIN txs
    <3>1. t \in DOMAIN txs
      BY DEF TypeOK
    <3>2. last # None /\ last.tx # 0 => last.tx \in DOMAIN txs
      <4>1. last # None => last.tx \in 0..Len(txs)
        BY DEF TypeOK, Entries
      <4> QED BY <4>1, TxFacts
    <3> QED BY <3>1, <3>2 DEF RemoteStopTarget
  <2> HIDE DEF u
  <2>2. /\ stopping' = stopping \ {t}
        /\ txs' = IF txs[u].device = "running"
                  THEN [txs EXCEPT ![u].device = "ended"] ELSE txs
    BY <1>1 DEF HandleRemoteStop, u
  <2>3. txs' \in Seq(Transactions) /\ DOMAIN txs' = DOMAIN txs /\ Entries' = Entries
    <3>1. CASE txs[u].device = "running"
      <4>1. txs[u] \in Transactions
        BY <2>1, TxFacts
      <4>2. [txs[u] EXCEPT !.device = "ended"] \in Transactions
        BY <4>1 DEF Transactions
      <4>3. txs' = [txs EXCEPT ![u] = [txs[u] EXCEPT !.device = "ended"]]
        BY <2>2, <3>1
      <4> QED BY <2>1, <4>2, <4>3, TxChange
    <3>2. CASE txs[u].device # "running"
      <4>1. txs' = txs
        BY <2>2, <3>2
      <4> QED BY <4>1, SameTxs DEF TypeOK
    <3> QED BY <3>1, <3>2
  <2> QED BY <1>1, <2>2, <2>3 DEF HandleRemoteStop, TypeOK
<1>2. ASSUME NEW c \in Connectors, StartTransaction(c)
      PROVE  TypeOK'
  <2>1. /\ asked[c] \in Clients /\ OpenTransaction(c, asked[c], 0, txs)
        /\ asked' \in [Connectors -> Clients \cup {None}]
    BY <1>2 DEF StartTransaction, TypeOK
  <2> QED BY <2>1, OpenTypes DEF TypeOK
<1>3. ASSUME NEW c \in Connectors, NEW v \in StationNotices(c),
             StatusNotification(c, v)
      PROVE  TypeOK'
  <2>1. v \in Plugs /\ txs' = txs /\ Entries' = Entries
    BY <1>3, SameTxs DEF StationNotices, Plugs, StatusNotification
  <2> QED BY <1>3, <2>1 DEF StatusNotification, TypeOK
<1>4. CASE BootNotification
  <2>1. txs' = txs /\ Entries' = Entries
    BY <1>4, SameTxs DEF BootNotification
  <2>2. balance' \in [Clients -> Int]
    BY <1>4, RefundFacts DEF BootNotification, TypeOK
  <2>3. /\ status' \in [Sessions -> Statuses] /\ energy' \in [Sessions -> Int]
        /\ amount' \in [Sessions -> Nat] /\ paid' \in [Sessions -> Int]
        /\ connectors' \in [Connectors -> Plugs]
        /\ asked' \in [Connectors -> Clients \cup {None}] /\ reboots' \in Nat
    BY <1>4 DEF BootNotification, TypeOK, Statuses, Plugs
  <2>4. UNCHANGED <<plug, processed, linked, pending, entry, last, starting,
                    sending, stopping, crashes>>
    BY <1>4 DEF BootNotification
  <2> QED BY <2>1, <2>2, <2>3, <2>4 DEF TypeOK
<1>5. CASE Disconnect
  <2>1. txs' = txs /\ Entries' = Entries
    BY <1>5, SameTxs DEF Disconnect
  <2> QED BY <1>5, <2>1 DEF Disconnect, TypeOK
<1>6. ASSUME NEW saved \in BOOLEAN, Restart(saved)
      PROVE  TypeOK'
  <2>1. txs' = txs /\ Entries' = Entries
    BY <1>6, SameTxs DEF Restart
  <2> QED BY <1>6, <2>1 DEF Restart, Restarts, TypeOK
<1>7. ASSUME NEW c \in Connectors, PendingExpires(c)
      PROVE  TypeOK'
  <2>1. txs' = txs /\ Entries' = Entries
    BY <1>7, SameTxs DEF PendingExpires
  <2> QED BY <1>7, <2>1 DEF PendingExpires, TypeOK
<1> QED BY <1>1, <1>2, <1>3, <1>4, <1>5, <1>6, <1>7

LEMMA TypeStep == TypeOK /\ [Next]_vars => TypeOK'
<1> SUFFICES ASSUME TypeOK, [Next]_vars PROVE TypeOK'
  OBVIOUS
<1>1. CASE Next
  BY <1>1, StartTypes, ChargingTypes, OtherTypes, StopTransactionTypes,
     StopSessionTypes DEF Next
<1>2. CASE UNCHANGED vars
  <2>1. Entries' = Entries
    BY <1>2, SameTxs DEF vars
  <2> QED BY <1>2, <2>1 DEF vars, accounts, rows, memory, requests, bounds, TypeOK
<1> QED BY <1>1, <1>2

LEMMA TypeInit == Init => TypeOK
<1> SUFFICES ASSUME Init PROVE TypeOK
  OBVIOUS
<1>1. txs \in Seq(Transactions) /\ DOMAIN txs = {}
  BY DEF Init
<1>2. /\ balance \in [Clients -> Int]
      /\ paid \in [Sessions -> Int] /\ energy \in [Sessions -> Int]
      /\ amount \in [Sessions -> Nat] /\ reboots \in Nat /\ crashes \in Nat
  BY ConstantFacts DEF Init
<1>3. /\ status \in [Sessions -> Statuses]
      /\ plug \in [Sessions -> Connectors \cup {None}]
      /\ processed \in [Sessions -> BOOLEAN]
      /\ linked \in [Sessions -> (DOMAIN txs) \cup {None}]
      /\ connectors \in [Connectors -> Plugs]
      /\ pending \in [Connectors -> Sessions \cup {None}]
      /\ entry \in [Connectors -> Entries \cup {None}]
      /\ last \in Entries \cup {None}
      /\ asked \in [Connectors -> Clients \cup {None}]
      /\ starting \subseteq Sessions /\ sending \subseteq Sessions
      /\ stopping \subseteq DOMAIN txs
  BY <1>1 DEF Init, Statuses, Plugs
<1> QED BY <1>1, <1>2, <1>3 DEF TypeOK

(* The tables and the memory of the charge point keep their types; no      *)
(* reading of another transaction's meter ever becomes a negative price.   *)
THEOREM TypeCorrect == Spec => []TypeOK
BY TypeInit, TypeStep, PTL DEF Spec

----------------------------------------------------------------------------
(* Money *)

(* The steps that touch the money or the status of a session are of five   *)
(* kinds: a start, a settlement, a correction of settled figures, a reboot *)
(* and everything else.                                                    *)
Quiet == UNCHANGED <<balance, paid, status, amount, processed>>

Billed(s) == \E n \in Nat, cost \in Nat :
               Settle(s, cost) /\ Finalize(s, n, cost)

Corrected(s) ==
  /\ processed[s] /\ UNCHANGED <<balance, paid>>
  /\ \E n \in Nat, cost \in Nat : Finalize(s, n, cost)

Billable(s) ==
  \/ status[s] = "started"
  \/ ~ processed[s] /\ \E t \in DOMAIN txs : txs[t].session = s

LEMMA StationSettles ==
  ASSUME TypeOK, NEW t \in DOMAIN txs, NEW a \in BOOLEAN, StopTransaction(t, a)
  PROVE  \/ Quiet
         \/ \E s \in Sessions : (Billable(s) /\ Billed(s)) \/ Corrected(s)
<1> DEFINE s == txs[t].session
           n == txs[t].delivered
<1>1. CASE txs[t].status = "Started" /\ s # None
  <2>1. s \in Sessions /\ n \in Nat
    BY <1>1, TxFacts
  <2>2. SettleByStation(s, n)
    BY <1>1 DEF StopTransaction
  <2>3. n * Tariff \in Nat
    BY <2>1, CostFacts
  <2> DEFINE cost == n * Tariff
  <2>4. /\ Finalize(s, n, cost)
        /\ IF processed[s] THEN UNCHANGED accounts ELSE Settle(s, cost)
    BY <2>2 DEF SettleByStation
  <2>5. cost \in Nat
    BY <2>3
  <2> HIDE DEF cost
  <2>6. CASE processed[s]
    BY <2>1, <2>4, <2>5, <2>6 DEF Corrected, accounts
  <2>7. CASE ~ processed[s]
    <3>1. Billed(s)
      BY <2>1, <2>4, <2>5, <2>7 DEF Billed
    <3>2. Billable(s)
      BY <2>7 DEF Billable
    <3> QED BY <2>1, <3>1, <3>2
  <2> QED BY <2>6, <2>7
<1>2. CASE ~ (txs[t].status = "Started" /\ s # None)
  BY <1>2 DEF StopTransaction, Quiet, accounts, rows
<1> QED BY <1>1, <1>2

LEMMA StopSettles ==
  ASSUME TypeOK, NEW s \in Sessions, StopSession(s)
  PROVE  Billable(s) /\ Billed(s)
<1> DEFINE n == ActualEnergy(s)
           cost == n * Price
<1>1. n \in Nat
  BY ActualEnergyFacts
<1>2. cost \in Nat
  BY <1>1, CostFacts
<1>3. Settle(s, cost) /\ Finalize(s, n, cost) /\ status[s] = "started"
  BY DEF StopSession
<1> HIDE DEF n, cost
<1> QED BY <1>1, <1>2, <1>3 DEF Billed, Billable

LEMMA StepKinds ==
  ASSUME TypeOK, [Next]_vars
  PROVE  \/ Quiet
         \/ \E s \in Sessions, c \in Connectors : StartSession(s, c)
         \/ \E s \in Sessions : (Billable(s) /\ Billed(s)) \/ Corrected(s)
         \/ BootNotification
<1> USE DEF accounts, rows
<1>1. ASSUME NEW s \in Sessions, NEW d \in BOOLEAN,
             SendStartCommand(s, d) \/ SendStopCommand(s, d)
      PROVE  Quiet
  BY <1>1 DEF SendStartCommand, SendStopCommand, Quiet
<1>2. ASSUME NEW c \in Connectors,
             \/ PendingExpires(c) \/ StartTransaction(c)
             \/ \E v \in StationNotices(c) : StatusNotification(c, v)
      PROVE  Quiet
  BY <1>2 DEF PendingExpires, StartTransaction, OpenTransaction,
              StatusNotification, Quiet
<1>3. ASSUME NEW t \in DOMAIN txs,
             \/ RepeatStartTransaction(t) \/ Deliver(t) \/ MeterValues(t)
             \/ StationEnds(t) \/ CrashInStopTransaction(t)
      PROVE  Quiet
  BY <1>3 DEF RepeatStartTransaction, OpenTransaction, Deliver, MeterValues,
              StationEnds, CrashInStopTransaction, Quiet
<1>4. ASSUME \/ \E t \in stopping : HandleRemoteStop(t)
             \/ Disconnect
             \/ \E saved \in BOOLEAN : Restart(saved)
             \/ UNCHANGED vars
      PROVE  Quiet
  BY <1>4 DEF HandleRemoteStop, Disconnect, Restart, Quiet, vars
<1> QED BY <1>1, <1>2, <1>3, <1>4, StationSettles, StopSettles DEF Next

(* The inductive invariant: an unsettled row keeps its amount, and only a  *)
(* stopped session is settled.                                             *)
Marks ==
  \A s \in Sessions :
    /\ status[s] = "started" => amount[s] = Reserve[s]
    /\ processed[s] => status[s] = "stopped"

Inv == TypeOK /\ Solvent /\ MoneyFollowsStatus /\ Marks

LEMMA InvInit == Init => Inv
<1> SUFFICES ASSUME Init PROVE Inv
  OBVIOUS
<1>1. TypeOK
  BY TypeInit
<1>2. Solvent
  BY ConstantFacts DEF Init, Solvent
<1>3. MoneyFollowsStatus /\ Marks
  BY DEF Init, MoneyFollowsStatus, Marks
<1> QED BY <1>1, <1>2, <1>3 DEF Inv

LEMMA StartKeepsMoney ==
  ASSUME Inv, NEW s \in Sessions, NEW c \in Connectors, StartSession(s, c)
  PROVE  Solvent' /\ MoneyFollowsStatus' /\ Marks'
<1> DEFINE k == Client[s]
<1>1. /\ k \in Clients /\ Reserve[s] \in Nat
      /\ balance \in [Clients -> Int] /\ paid \in [Sessions -> Int]
      /\ status \in [Sessions -> Statuses] /\ amount \in [Sessions -> Nat]
      /\ processed \in [Sessions -> BOOLEAN]
  BY ConstantFacts DEF Inv, TypeOK
<1>2. /\ status[s] = "none" /\ balance[k] >= Reserve[s]
      /\ balance' = [balance EXCEPT ![k] = @ - Reserve[s]]
      /\ paid' = [paid EXCEPT ![s] = Reserve[s]]
      /\ status' = [status EXCEPT ![s] = "started"]
      /\ amount' = [amount EXCEPT ![s] = Reserve[s]]
      /\ processed' = processed
  BY DEF StartSession, accounts, rows
<1>3. Solvent'
  BY <1>1, <1>2 DEF Inv, Solvent
<1>4. ~ processed[s]
  BY <1>2 DEF Inv, Marks
<1>5. MoneyFollowsStatus'
  BY <1>1, <1>2, <1>4 DEF Inv, MoneyFollowsStatus
<1>6. Marks'
  BY <1>1, <1>2, <1>4 DEF Inv, Marks
<1> QED BY <1>3, <1>5, <1>6

LEMMA BilledKeepsMoney ==
  ASSUME Inv, NEW s \in Sessions, Billed(s) \/ Corrected(s)
  PROVE  Solvent' /\ MoneyFollowsStatus' /\ Marks'
<1>1. PICK n \in Nat, cost \in Nat : Finalize(s, n, cost)
  BY DEF Billed, Corrected
<1>2. /\ Solvent' /\ \A r \in Sessions \ {s} : paid'[r] = paid[r]
  <2>1. CASE Billed(s)
    BY <2>1, SettleFacts DEF Billed, Inv
  <2>2. CASE Corrected(s)
    BY <2>2 DEF Corrected, Inv, Solvent
  <2> QED BY <2>1, <2>2
<1>3. /\ status \in [Sessions -> Statuses] /\ amount \in [Sessions -> Nat]
      /\ processed \in [Sessions -> BOOLEAN]
  BY DEF Inv, TypeOK
<1>4. /\ status' = [status EXCEPT ![s] = "stopped"]
      /\ amount' = [amount EXCEPT ![s] = cost]
      /\ processed' = [processed EXCEPT ![s] = TRUE]
  BY <1>1 DEF Finalize
<1>5. MoneyFollowsStatus'
  BY <1>2, <1>3, <1>4 DEF Inv, MoneyFollowsStatus
<1>6. Marks'
  BY <1>3, <1>4 DEF Inv, Marks
<1> QED BY <1>2, <1>5, <1>6

LEMMA BootKeepsMoney ==
  ASSUME Inv, BootNotification
  PROVE  Solvent' /\ MoneyFollowsStatus' /\ Marks'
<1>1. /\ balance \in [Clients -> Int] /\ paid \in [Sessions -> Int]
      /\ \A k \in Clients : Refund(k) \in Nat
  BY RefundFacts DEF Inv, TypeOK
<1>2. /\ balance' = [k \in Clients |-> balance[k] + Refund(k)]
      /\ status' = [s \in Sessions |-> IF s \in Unstarted THEN "error" ELSE status[s]]
      /\ amount' = [s \in Sessions |-> IF s \in Unstarted THEN 0 ELSE amount[s]]
      /\ paid' = [s \in Sessions |->
                    IF s \in Unstarted THEN paid[s] - amount[s] ELSE paid[s]]
      /\ processed' = processed
  BY DEF BootNotification
<1>3. Solvent'
  BY <1>1, <1>2 DEF Inv, Solvent
<1>4. \A s \in Unstarted : status[s] = "started" /\ paid[s] = Reserve[s]
                          /\ amount[s] = Reserve[s] /\ ~ processed[s]
  BY DEF Inv, MoneyFollowsStatus, Marks, Unstarted
<1>5. MoneyFollowsStatus'
  BY <1>1, <1>2, <1>4, ConstantFacts DEF Inv, MoneyFollowsStatus
<1>6. Marks'
  BY <1>2, <1>4 DEF Inv, Marks
<1> QED BY <1>3, <1>5, <1>6

LEMMA InvStep == Inv /\ [Next]_vars => Inv'
<1> SUFFICES ASSUME Inv, [Next]_vars PROVE Inv'
  OBVIOUS
<1>1. TypeOK'
  BY TypeStep DEF Inv
<1>2. CASE Quiet
  BY <1>1, <1>2 DEF Inv, Quiet, Solvent, MoneyFollowsStatus, Marks
<1>3. CASE ~ Quiet
  BY <1>1, <1>3, StepKinds, StartKeepsMoney, BilledKeepsMoney, BootKeepsMoney DEF Inv
<1> QED BY <1>2, <1>3

LEMMA Invariance == Spec => []Inv
BY InvInit, InvStep, PTL DEF Spec

(* No order of reservations, settlements and refunds takes a client below  *)
(* zero.                                                                   *)
THEOREM NobodyOwes == Spec => []Solvent
<1>1. Inv => Solvent
  BY DEF Inv
<1> QED BY <1>1, Invariance, PTL

(* What a client has paid is what the status of the session says.          *)
THEOREM PaidFollowsStatus == Spec => []MoneyFollowsStatus
<1>1. Inv => MoneyFollowsStatus
  BY DEF Inv
<1> QED BY <1>1, Invariance, PTL

(* A settled session is never charged or refunded again.                   *)
THEOREM SettledForGood == Spec => SettledIsFinal
<1>1. Inv /\ [Next]_vars =>
        [\A s \in Sessions : processed[s] =>
           paid'[s] = paid[s] /\ processed'[s] /\ status'[s] = "stopped"]_vars
  <2> SUFFICES ASSUME Inv, [Next]_vars, NEW s \in Sessions, processed[s]
               PROVE  paid'[s] = paid[s] /\ processed'[s] /\ status'[s] = "stopped"
    OBVIOUS
  <2>1. status[s] = "stopped" /\ status \in [Sessions -> Statuses]
        /\ processed \in [Sessions -> BOOLEAN] /\ paid \in [Sessions -> Int]
    BY DEF Inv, Marks, TypeOK
  <2>2. CASE Quiet
    BY <2>1, <2>2 DEF Quiet
  <2>3. ASSUME NEW r \in Sessions, NEW c \in Connectors, StartSession(r, c)
        PROVE  paid'[s] = paid[s] /\ processed'[s] /\ status'[s] = "stopped"
    <3>1. r # s
      BY <2>1, <2>3 DEF StartSession
    <3> QED BY <2>1, <2>3, <3>1 DEF StartSession
  <2>4. ASSUME NEW r \in Sessions, Billable(r), Billed(r)
        PROVE  paid'[s] = paid[s] /\ processed'[s] /\ status'[s] = "stopped"
    <3>1. r # s
      BY <2>1, <2>4 DEF Billable
    <3>2. paid'[s] = paid[s]
      BY <2>4, <3>1, SettleFacts DEF Billed, Inv
    <3> QED BY <2>1, <2>4, <3>1, <3>2 DEF Billed, Finalize
  <2>5. ASSUME NEW r \in Sessions, Corrected(r)
        PROVE  paid'[s] = paid[s] /\ processed'[s] /\ status'[s] = "stopped"
    BY <2>1, <2>5 DEF Corrected, Finalize
  <2>6. CASE BootNotification
    <3>1. s \notin Unstarted
      BY <2>1 DEF Unstarted
    <3> QED BY <2>1, <2>6, <3>1 DEF BootNotification
  <2> QED BY <2>2, <2>3, <2>4, <2>5, <2>6, StepKinds DEF Inv
<1> QED BY <1>1, Invariance, PTL DEF Spec, SettledIsFinal

----------------------------------------------------------------------------
(* Without reboots.  No session is in error, and every transaction,        *)
(* pending key and start request names a session that has been started.    *)
Known ==
  /\ \A s \in Sessions : status[s] # "error"
  /\ \A s \in starting : status[s] # "none"
  /\ \A c \in Connectors : pending[c] # None => status[pending[c]] # "none"
  /\ \A t \in DOMAIN txs : txs[t].session # None => status[txs[t].session] # "none"

(* No step takes a session back to "none", and only a reboot to "error".   *)
LEMMA StatusGrows ==
  ASSUME TypeOK, [Next]_vars
  PROVE  /\ \A s \in Sessions : status[s] # "none" => status'[s] # "none"
         /\ ~ BootNotification =>
              \A s \in Sessions : status[s] # "error" => status'[s] # "error"
<1>0. status \in [Sessions -> Statuses]
  BY DEF TypeOK
<1>1. CASE Quiet
  BY <1>1 DEF Quiet
<1>2. ASSUME NEW r \in Sessions, NEW c \in Connectors, StartSession(r, c)
      PROVE  status' = [status EXCEPT ![r] = "started"]
  BY <1>2 DEF StartSession
<1>3. ASSUME NEW r \in Sessions, Billed(r) \/ Corrected(r)
      PROVE  status' = [status EXCEPT ![r] = "stopped"]
  BY <1>3 DEF Billed, Corrected, Finalize
<1>4. CASE BootNotification
  BY <1>0, <1>4 DEF BootNotification
<1> QED BY <1>0, <1>1, <1>2, <1>3, <1>4, StepKinds

(* A start request is the session just started; a pending key is that of   *)
(* a start request; a transaction is of a pending or a started session.    *)
LEMMA StartingStep ==
  ASSUME TypeOK, [Next]_vars
  PROVE  starting' \subseteq starting \cup {s \in Sessions : status'[s] # "none"}
<1> USE DEF requests
<1>0. status \in [Sessions -> Statuses]
  BY DEF TypeOK
<1>1. ASSUME NEW s \in Sessions, NEW c \in Connectors, StartSession(s, c)
      PROVE  starting' \subseteq starting \cup {r \in Sessions : status'[r] # "none"}
  BY <1>0, <1>1 DEF StartSession
<1>2. ASSUME NEW s \in Sessions,
             \/ \E d \in BOOLEAN : SendStartCommand(s, d) \/ SendStopCommand(s, d)
             \/ StopSession(s)
      PROVE  starting' \subseteq starting
  BY <1>2 DEF SendStartCommand, SendStopCommand, StopSession
<1>3. ASSUME NEW c \in Connectors,
             \/ PendingExpires(c) \/ StartTransaction(c)
             \/ \E v \in StationNotices(c) : StatusNotification(c, v)
      PROVE  starting' \subseteq starting
  BY <1>3 DEF PendingExpires, StartTransaction, OpenTransaction, StatusNotification
<1>4. ASSUME NEW t \in DOMAIN txs,
             \/ RepeatStartTransaction(t) \/ Deliver(t) \/ MeterValues(t)
             \/ StationEnds(t) \/ CrashInStopTransaction(t)
             \/ \E a \in BOOLEAN : StopTransaction(t, a)
      PROVE  starting' \subseteq starting
  BY <1>4 DEF RepeatStartTransaction, OpenTransaction, Deliver, MeterValues,
              StationEnds, CrashInStopTransaction, Restarts, StopTransaction
<1>5. ASSUME \/ \E t \in stopping : HandleRemoteStop(t)
             \/ BootNotification \/ Disconnect
             \/ \E saved \in BOOLEAN : Restart(saved)
             \/ UNCHANGED vars
      PROVE  starting' \subseteq starting
  BY <1>5 DEF HandleRemoteStop, BootNotification, Disconnect, Restart, Restarts, vars
<1> QED BY <1>1, <1>2, <1>3, <1>4, <1>5 DEF Next

LEMMA PendingStep ==
  ASSUME TypeOK, [Next]_vars, NEW c \in Connectors, pending'[c] # None
  PROVE  pending'[c] = pending[c] \/ pending'[c] \in starting
<1> DEFINE G == pending'[c] = pending[c] \/ pending'[c] \in starting
<1>0. pending \in [Connectors -> Sessions \cup {None}]
  BY DEF TypeOK
<1>1. ASSUME NEW s \in Sessions, NEW d \in BOOLEAN, SendStartCommand(s, d)
      PROVE  G
  BY <1>0, <1>1 DEF SendStartCommand
<1>2. ASSUME NEW s \in Sessions,
             \/ \E b \in Connectors : StartSession(s, b)
             \/ \E d \in BOOLEAN : SendStopCommand(s, d)
             \/ StopSession(s)
      PROVE  G
  BY <1>2 DEF StartSession, SendStopCommand, StopSession
<1>3. ASSUME NEW b \in Connectors,
             \/ PendingExpires(b) \/ StartTransaction(b)
             \/ \E v \in StationNotices(b) : StatusNotification(b, v)
      PROVE  G
  BY <1>0, <1>3 DEF PendingExpires, StartTransaction, OpenTransaction, StatusNotification
<1>4. ASSUME NEW t \in DOMAIN txs,
             \/ RepeatStartTransaction(t) \/ Deliver(t) \/ MeterValues(t)
             \/ StationEnds(t) \/ CrashInStopTransaction(t)
             \/ \E a \in BOOLEAN : StopTransaction(t, a)
      PROVE  G
  BY <1>0, <1>4, TxFacts DEF RepeatStartTransaction, OpenTransaction, Deliver,
     MeterValues, StationEnds, CrashInStopTransaction, StopTransaction
<1>5. ASSUME \/ \E t \in stopping : HandleRemoteStop(t)
             \/ BootNotification \/ Disconnect
             \/ \E saved \in BOOLEAN : Restart(saved)
             \/ UNCHANGED vars
      PROVE  G
  BY <1>5 DEF HandleRemoteStop, BootNotification, Disconnect, Restart, vars
<1> QED BY <1>1, <1>2, <1>3, <1>4, <1>5 DEF Next

(* A step leaves the session of every transaction alone, and a new one's   *)
(* is none, started or pending.                                            *)
SessionsKept ==
  \A t \in DOMAIN txs' :
    \/ t \in DOMAIN txs /\ txs'[t].session = txs[t].session
    \/ txs'[t].session \in
         {None} \cup {s \in Sessions : status[s] = "started"}
                \cup {pending[c] : c \in Connectors}

LEMMA OpenKeepsSessions ==
  ASSUME TypeOK, NEW c \in Connectors, NEW k \in Clients, NEW n \in Nat,
         NEW old \in Seq(Transactions), Len(old) = Len(txs),
         OpenTransaction(c, k, n, old),
         \A t \in DOMAIN txs : old[t].session = txs[t].session
  PROVE  SessionsKept
<1>1. /\ DOMAIN txs' = DOMAIN txs \cup {Len(txs) + 1}
      /\ \A t \in DOMAIN txs : txs'[t] = old[t]
      /\ txs'[Len(txs) + 1].session = SessionFor(c, k)
  BY OpenFacts
<1>2. SessionFor(c, k) \in {None} \cup {s \in Sessions : status[s] = "started"}
                                  \cup {pending[d] : d \in Connectors}
  BY SessionForFacts DEF StartedOf
<1> QED BY <1>1, <1>2 DEF SessionsKept

LEMMA TxStep ==
  ASSUME TypeOK, [Next]_vars
  PROVE  SessionsKept
<1>0. /\ \A t \in DOMAIN txs : txs[t] \in Transactions
      /\ txs \in Seq(Transactions)
  BY TxFacts DEF TypeOK
<1>1. ASSUME txs' = txs
      PROVE  SessionsKept
  BY <1>1 DEF SessionsKept
<1>2. ASSUME NEW t \in DOMAIN txs, NEW a \in BOOLEAN, StopTransaction(t, a)
      PROVE  \A u \in DOMAIN txs' : u \in DOMAIN txs /\ txs'[u].session = txs[u].session
  <2>1. txs' = [txs EXCEPT ![t] = [txs[t] EXCEPT !.status = "Stopped",
                                    !.device = IF a THEN "over" ELSE "ended"]]
    BY <1>2 DEF StopTransaction
  <2> QED BY <1>0, <2>1 DEF Transactions
<1>3. ASSUME NEW s \in Sessions,
             \/ \E c \in Connectors : StartSession(s, c)
             \/ \E d \in BOOLEAN : SendStartCommand(s, d) \/ SendStopCommand(s, d)
             \/ StopSession(s)
      PROVE  txs' = txs
  BY <1>3 DEF StartSession, SendStartCommand, SendStopCommand, StopSession
<1>4. ASSUME NEW c \in Connectors,
             \/ PendingExpires(c)
             \/ \E v \in StationNotices(c) : StatusNotification(c, v)
      PROVE  txs' = txs
  BY <1>4 DEF PendingExpires, StatusNotification
<1>5. ASSUME NEW c \in Connectors, StartTransaction(c)
      PROVE  SessionsKept
  <2>1. asked[c] \in Clients /\ OpenTransaction(c, asked[c], 0, txs)
    BY <1>5 DEF StartTransaction, TypeOK
  <2> QED BY <1>0, <2>1, OpenKeepsSessions
<1>6. ASSUME NEW t \in DOMAIN txs, RepeatStartTransaction(t)
      PROVE  SessionsKept
  <2> DEFINE x == [txs[t] EXCEPT !.device = "orphan"]
             old == [txs EXCEPT ![t] = x]
  <2>1. x \in Transactions /\ x.session = txs[t].session
    BY <1>0 DEF Transactions
  <2>2. old = [txs EXCEPT ![t].device = "orphan"]
    OBVIOUS
  <2> HIDE DEF x
  <2>3. old \in Seq(Transactions) /\ Len(old) = Len(txs)
        /\ \A u \in DOMAIN txs : old[u].session = txs[u].session
    BY <1>0, <2>1
  <2> HIDE DEF old
  <2>4. OpenTransaction(txs[t].connector, txs[t].tag, txs[t].delivered, old)
    BY <1>6, <2>2 DEF RepeatStartTransaction
  <2>5. /\ txs[t].connector \in Connectors /\ txs[t].tag \in Clients
        /\ txs[t].delivered \in Nat
    BY TxFacts
  <2> QED BY <2>3, <2>4, <2>5, OpenKeepsSessions
<1>7. ASSUME NEW t \in DOMAIN txs,
             \/ Deliver(t) \/ MeterValues(t) \/ StationEnds(t)
             \/ CrashInStopTransaction(t)
      PROVE  \A u \in DOMAIN txs' : u \in DOMAIN txs /\ txs'[u].session = txs[u].session
  <2>1. \/ txs' = [txs EXCEPT ![t] = [txs[t] EXCEPT !.delivered = @ + 1]]
        \/ txs' = [txs EXCEPT ![t] = [txs[t] EXCEPT !.sampled = txs[t].delivered]]
        \/ txs' = [txs EXCEPT ![t] = [txs[t] EXCEPT !.device = "ended"]]
        \/ txs' = [txs EXCEPT ![t] = [txs[t] EXCEPT !.status = "Stopped"]]
    <3>1. MeterValues(t) =>
            txs' = [txs EXCEPT ![t] = [txs[t] EXCEPT !.sampled = txs[t].delivered]]
      BY Zenon DEF MeterValues
    <3> QED BY <1>7, <3>1 DEF Deliver, StationEnds, CrashInStopTransaction
  <2> DEFINE x == [txs[t] EXCEPT !.delivered = @ + 1]
             y == [txs[t] EXCEPT !.sampled = txs[t].delivered]
             z == [txs[t] EXCEPT !.device = "ended"]
             w == [txs[t] EXCEPT !.status = "Stopped"]
  <2>2. x.session = txs[t].session /\ y.session = txs[t].session
        /\ z.session = txs[t].session /\ w.session = txs[t].session
    BY <1>0 DEF Transactions
  <2> HIDE DEF x, y, z, w
  <2>3. DOMAIN txs' = DOMAIN txs /\ txs'[t].session = txs[t].session
        /\ \A u \in DOMAIN txs \ {t} : txs'[u] = txs[u]
    BY <2>1, <2>2 DEF x, y, z, w
  <2> QED BY <2>3
<1>8. ASSUME NEW t \in stopping, HandleRemoteStop(t)
      PROVE  \A u \in DOMAIN txs' : u \in DOMAIN txs /\ txs'[u].session = txs[u].session
  BY <1>0, <1>8 DEF HandleRemoteStop, Transactions
<1>9. ASSUME \/ BootNotification \/ Disconnect
             \/ \E saved \in BOOLEAN : Restart(saved)
             \/ UNCHANGED vars
      PROVE  txs' = txs
  BY <1>9 DEF BootNotification, Disconnect, Restart, vars
<1> QED BY <1>1, <1>2, <1>3, <1>4, <1>5, <1>6, <1>7, <1>8, <1>9 DEF Next, SessionsKept

LEMMA KnownStep ==
  ASSUME MaxReboots = 0, Inv, Known, [Next]_vars
  PROVE  Known' /\ ~ BootNotification
<1>1. ~ BootNotification
  BY DEF BootNotification, Inv, TypeOK
<1>2. TypeOK /\ TypeOK'
  BY TypeStep DEF Inv
<1>3. /\ \A s \in Sessions : status[s] # "none" => status'[s] # "none"
      /\ \A s \in Sessions : status'[s] # "error"
  BY <1>1, <1>2, StatusGrows DEF Known
<1>4. \A s \in starting' : status'[s] # "none"
  BY <1>2, <1>3, StartingStep DEF Known, TypeOK
<1>5. \A c \in Connectors : pending'[c] # None => status'[pending'[c]] # "none"
  <2> SUFFICES ASSUME NEW c \in Connectors, pending'[c] # None
               PROVE  status'[pending'[c]] # "none"
    OBVIOUS
  <2>1. pending'[c] = pending[c] \/ pending'[c] \in starting
    BY <1>2, PendingStep
  <2>2. pending'[c] \in Sessions
    BY <1>2 DEF TypeOK
  <2>3. status[pending'[c]] # "none"
    BY <2>1 DEF Known
  <2> QED BY <1>3, <2>2, <2>3
<1>6. \A t \in DOMAIN txs' :
        txs'[t].session # None => status'[txs'[t].session] # "none"
  <2> SUFFICES ASSUME NEW t \in DOMAIN txs', txs'[t].session # None
               PROVE  status'[txs'[t].session] # "none"
    OBVIOUS
  <2> DEFINE s == txs'[t].session
  <2>1. \/ t \in DOMAIN txs /\ s = txs[t].session
        \/ s \in {r \in Sessions : status[r] = "started"}
        \/ \E c \in Connectors : s = pending[c]
    BY <1>2, TxStep DEF SessionsKept
  <2>2. s \in Sessions
    <3>1. \A u \in DOMAIN txs : txs[u].session \in Sessions \cup {None}
      BY <1>2, TxFacts
    <3>2. \A c \in Connectors : pending[c] \in Sessions \cup {None}
      BY <1>2 DEF TypeOK
    <3> QED BY <2>1, <3>1, <3>2
  <2>3. status[s] # "none"
    BY <2>1 DEF Known
  <2> QED BY <1>3, <2>2, <2>3
<1> QED BY <1>1, <1>3, <1>4, <1>5, <1>6 DEF Known

LEMMA KnownInit == Init => Known
BY DEF Init, Known

(* What is billed without reboots is a running session's reservation.      *)
LEMMA BilledIsHeld ==
  ASSUME Inv, Known, NEW s \in Sessions, Billable(s)
  PROVE  status[s] = "started" /\ paid[s] = Reserve[s] /\ ~ processed[s]
<1>1. status[s] \in Statuses
  BY DEF Inv, TypeOK
<1>2. CASE status[s] = "started"
  BY <1>2 DEF Inv, MoneyFollowsStatus
<1>3. CASE ~ processed[s] /\ \E t \in DOMAIN txs : txs[t].session = s
  <2>1. status[s] # "none" /\ status[s] # "error"
    BY <1>3, ConstantFacts DEF Known
  <2>2. status[s] # "stopped"
    BY <1>3 DEF Inv, MoneyFollowsStatus
  <2>3. status[s] = "started"
    BY <1>1, <2>1, <2>2 DEF Statuses
  <2> QED BY <2>3 DEF Inv, MoneyFollowsStatus
<1> QED BY <1>2, <1>3 DEF Billable

(* Every step starts a hold, settles one, or leaves the promise alone.     *)
LEMMA PromiseStep ==
  ASSUME Inv, Known, [Next]_vars, ~ BootNotification
  PROVE  \/ UNCHANGED <<heldMap, settledMap, paid, balance>>
         \/ \E s \in Sessions :
              \/ Promise!Hold(s)
              \/ \E p \in 0..(Reserve[s] + balance[Client[s]]) : Promise!Settle(s, p)
<1>0. /\ status \in [Sessions -> Statuses] /\ processed \in [Sessions -> BOOLEAN]
      /\ TypeOK /\ Solvent
  BY DEF Inv, TypeOK
<1>1. CASE Quiet
  BY <1>1 DEF Quiet, heldMap, settledMap
<1>2. ASSUME NEW s \in Sessions, NEW c \in Connectors, StartSession(s, c)
      PROVE  Promise!Hold(s)
  <2>1. /\ status[s] = "none" /\ StartedOf(Client[s]) = {}
        /\ balance[Client[s]] >= Reserve[s]
        /\ status' = [status EXCEPT ![s] = "started"] /\ processed' = processed
        /\ paid' = [paid EXCEPT ![s] = Reserve[s]]
        /\ balance' = [balance EXCEPT ![Client[s]] = @ - Reserve[s]]
    BY <1>2 DEF StartSession
  <2>2. ~ processed[s]
    BY <2>1 DEF Inv, Marks
  <2>3. heldMap' = heldMap \cup {s} /\ settledMap' = settledMap
    BY <1>0, <2>1 DEF heldMap, settledMap
  <2>4. s \notin heldMap \cup settledMap
    BY <2>1, <2>2 DEF heldMap, settledMap
  <2>5. \A r \in heldMap : Client[r] # Client[s]
    BY <2>1 DEF heldMap, StartedOf
  <2> QED BY <2>1, <2>3, <2>4, <2>5 DEF Promise!Hold
<1>3. ASSUME NEW s \in Sessions, Billable(s), Billed(s)
      PROVE  \E p \in 0..(Reserve[s] + balance[Client[s]]) : Promise!Settle(s, p)
  <2>1. status[s] = "started" /\ paid[s] = Reserve[s] /\ ~ processed[s]
    BY <1>3, BilledIsHeld
  <2>2. PICK p \in 0..(Reserve[s] + balance[Client[s]]) :
               /\ paid' = [paid EXCEPT ![s] = p]
               /\ balance' = [balance EXCEPT ![Client[s]] = @ + Reserve[s] - p]
    BY <1>0, <1>3, <2>1, SettleFacts DEF Billed
  <2>3. /\ status' = [status EXCEPT ![s] = "stopped"]
        /\ processed' = [processed EXCEPT ![s] = TRUE]
    BY <1>3 DEF Billed, Finalize
  <2>4. /\ s \in heldMap
        /\ heldMap' = heldMap \ {s} /\ settledMap' = settledMap \cup {s}
    BY <1>0, <2>1, <2>3 DEF heldMap, settledMap
  <2>5. Reserve[s] \in Nat /\ balance[Client[s]] \in Int
    BY <1>0, ConstantFacts DEF TypeOK
  <2>6. p <= Reserve[s] + balance[Client[s]]
    BY <2>5
  <2> QED BY <2>2, <2>4, <2>6 DEF Promise!Settle
<1>4. ASSUME NEW s \in Sessions, Corrected(s)
      PROVE  UNCHANGED <<heldMap, settledMap, paid, balance>>
  <2>1. processed[s] /\ status[s] = "stopped"
    BY <1>4 DEF Corrected, Inv, Marks
  <2>2. /\ status' = [status EXCEPT ![s] = "stopped"]
        /\ processed' = [processed EXCEPT ![s] = TRUE]
        /\ UNCHANGED <<balance, paid>>
    BY <1>4 DEF Corrected, Finalize
  <2> QED BY <1>0, <2>1, <2>2 DEF heldMap, settledMap
<1> QED BY <1>0, <1>1, <1>2, <1>3, <1>4, StepKinds

KInv == Inv /\ Known /\ NeverPaidToCharge

LEMMA KInvInit == Init => KInv
<1> SUFFICES ASSUME Init PROVE KInv
  OBVIOUS
<1>1. NeverPaidToCharge
  BY DEF Init, NeverPaidToCharge
<1> QED BY <1>1, InvInit, KnownInit DEF KInv

LEMMA KInvStep ==
  ASSUME MaxReboots = 0, KInv, [Next]_vars
  PROVE  KInv'
<1>1. Inv' /\ Known' /\ ~ BootNotification
  BY InvStep, KnownStep DEF KInv
<1>2. paid \in [Sessions -> Int] /\ Inv /\ Known
  BY DEF KInv, Inv, TypeOK
<1>3. NeverPaidToCharge'
  <2>1. ASSUME UNCHANGED paid
        PROVE  NeverPaidToCharge'
    BY <2>1 DEF KInv, NeverPaidToCharge
  <2>2. ASSUME NEW s \in Sessions, NEW p \in Nat, paid' = [paid EXCEPT ![s] = p]
        PROVE  NeverPaidToCharge'
    BY <1>2, <2>2 DEF KInv, NeverPaidToCharge
  <2>3. ASSUME NEW s \in Sessions, Promise!Hold(s)
        PROVE  NeverPaidToCharge'
    BY <2>2, <2>3, ConstantFacts DEF Promise!Hold
  <2>4. ASSUME NEW s \in Sessions, NEW p \in 0..(Reserve[s] + balance[Client[s]]),
               Promise!Settle(s, p)
        PROVE  NeverPaidToCharge'
    <3>1. Reserve[s] \in Nat /\ balance[Client[s]] \in Int
      BY <1>2, ConstantFacts DEF Inv, TypeOK
    <3>2. p \in Nat
      BY <3>1
    <3> QED BY <2>2, <2>4, <3>2 DEF Promise!Settle
  <2> QED BY <1>1, <1>2, <2>1, <2>3, <2>4, PromiseStep
<1> QED BY <1>1, <1>3 DEF KInv

(* If the station never reboots, no interleaving of settlements leaves a   *)
(* client with more money than it had before it charged.                   *)
THEOREM NobodyIsPaidToCharge ==
  ASSUME MaxReboots = 0
  PROVE  Spec => []NeverPaidToCharge
<1>1. KInv /\ [Next]_vars => KInv'
  BY KInvStep
<1>2. KInv => NeverPaidToCharge
  BY DEF KInv
<1> QED BY <1>1, <1>2, KInvInit, PTL DEF Spec

(* If the station never reboots, whatever it sends and in which order, and *)
(* whenever the backend restarts, each reservation is held once and        *)
(* settled once, for no more than the client has.                          *)
THEOREM ChargingImplementsReservedFunds ==
  ASSUME MaxReboots = 0
  PROVE  Spec => ImplementsReservedFunds
<1>1. KInv /\ [Next]_vars => KInv'
  BY KInvStep
<1>2. Init => Promise!Init
  BY DEF Init, Promise!Init, heldMap, settledMap
<1>3. KInv /\ [Next]_vars => [Promise!Next]_<<heldMap, settledMap, paid, balance>>
  <2> SUFFICES ASSUME KInv, [Next]_vars
               PROVE  [Promise!Next]_<<heldMap, settledMap, paid, balance>>
    OBVIOUS
  <2>1. Inv /\ Known /\ ~ BootNotification
    BY KnownStep DEF KInv
  <2> QED BY <2>1, PromiseStep DEF Promise!Next
<1> QED
  BY <1>1, <1>2, <1>3, KInvInit, PTL
     DEF Spec, ImplementsReservedFunds, Promise!Spec, heldMap, settledMap

----------------------------------------------------------------------------
(* What a session costs and what its row shows *)

(* A settlement takes no more than its price from a client who has not     *)
(* given more than the reservation.                                        *)
LEMMA SettledAtCost ==
  ASSUME Inv, NEW s \in Sessions, ~ processed[s], NEW cost \in Nat, Settle(s, cost)
  PROVE  paid'[s] <= cost
<1>1. /\ Reserve[s] \in Nat /\ Client[s] \in Clients
      /\ paid \in [Sessions -> Int] /\ balance \in [Clients -> Int]
      /\ status[s] \in Statuses
  BY ConstantFacts DEF Inv, TypeOK
<1>2. paid[s] <= Reserve[s]
  BY <1>1 DEF Inv, MoneyFollowsStatus, Statuses
<1>3. CASE cost > Reserve[s]
  <2>1. paid' = [paid EXCEPT ![s] = @ + Extra(s, cost)]
    BY <1>3 DEF Settle
  <2>2. Extra(s, cost) \in Int /\ Extra(s, cost) <= cost - Reserve[s]
    BY <1>1 DEF Extra, Least
  <2> QED BY <1>1, <1>2, <2>1, <2>2
<1>4. CASE ~ (cost > Reserve[s])
  <2>1. paid' = [paid EXCEPT ![s] = @ - (Reserve[s] - cost)]
    BY <1>4 DEF Settle
  <2> QED BY <1>1, <1>2, <2>1
<1> QED BY <1>3, <1>4

(* The step that settles a session, whichever it is, takes no more than    *)
(* the amount it writes into the row.                                      *)
BilledAsShown ==
  [][\A s \in Sessions : ~ processed[s] /\ processed'[s] => paid'[s] <= amount'[s]]_vars

(* Whatever reboots, crashes and repeats, and whichever session a station's *)
(* transaction was linked to, no settlement takes more than it shows.      *)
THEOREM NoHiddenCharge == Spec => BilledAsShown
<1>1. Inv /\ [Next]_vars =>
        [\A s \in Sessions : ~ processed[s] /\ processed'[s] => paid'[s] <= amount'[s]]_vars
  <2> SUFFICES ASSUME Inv, [Next]_vars, NEW s \in Sessions, ~ processed[s], processed'[s]
               PROVE  paid'[s] <= amount'[s]
    OBVIOUS
  <2>1. processed \in [Sessions -> BOOLEAN] /\ amount \in [Sessions -> Nat]
    BY DEF Inv, TypeOK
  <2>2. ~ Quiet /\ ~ BootNotification
        /\ ~ \E r \in Sessions, c \in Connectors : StartSession(r, c)
    BY DEF Quiet, BootNotification, StartSession
  <2>3. PICK r \in Sessions : Billed(r) \/ Corrected(r)
    BY <2>2, StepKinds DEF Inv
  <2>4. \A q \in Sessions \ {r} : processed'[q] = processed[q]
    BY <2>1, <2>3 DEF Billed, Corrected, Finalize
  <2>5. r = s
    BY <2>4
  <2>6. Billed(s)
    BY <2>3, <2>5 DEF Corrected
  <2>7. PICK n \in Nat, cost \in Nat : Settle(s, cost) /\ Finalize(s, n, cost)
    BY <2>6 DEF Billed
  <2>8. amount'[s] = cost
    BY <2>1, <2>7 DEF Finalize
  <2> QED BY <2>7, <2>8, SettledAtCost
<1> QED BY <1>1, Invariance, PTL DEF Spec, BilledAsShown

----------------------------------------------------------------------------
(* A session alone at its station.  The figures of a settled session may   *)
(* be corrected, so that more is needed for what it paid never to exceed   *)
(* them.  With a second session it may: an entry lost in a crash makes the *)
(* readings of one be counted from the other's start.                      *)

(* What the meter of the last transaction says. *)
Reached == IF txs = << >> THEN 0 ELSE txs[Len(txs)].delivered

(* Only the last transaction goes on, and none has counted further.        *)
Newest ==
  \A t \in DOMAIN txs :
    /\ t # Len(txs) => txs[t].device = "orphan"
    /\ txs[t].delivered <= Reached
    /\ txs[t].sampled # None => txs[t].sampled <= txs[t].delivered

(* A session asks for one transaction, before there is any.                *)
Fresh ==
  /\ \A s \in starting : status[s] # "none"
  /\ (starting # {} \/ \E s \in Sessions : status[s] = "none")
       => txs = << >> /\ \A c \in Connectors : asked[c] = None
  /\ \A c, d \in Connectors : asked[c] # None => txs = << >> /\ (asked[d] # None => c = d)

(* What is in memory is about the last transaction. *)
Ours ==
  /\ \A c \in Connectors : entry[c] # None =>
       txs # << >> /\ entry[c].tx = Len(txs) /\ c = txs[Len(txs)].connector
  /\ last # None => last.tx = Len(txs)

Figures ==
  \A s \in Sessions :
    /\ energy[s] <= Reached
    /\ processed[s] => paid[s] <= amount[s] /\ amount[s] <= Reached * Tariff

AInv == Inv /\ Newest /\ Fresh /\ Ours /\ Figures

LEMMA CostsGrow ==
  ASSUME NEW m \in Nat, NEW n \in Nat, m <= n
  PROVE  m * Tariff <= n * Tariff
BY ConstantFacts

LEMMA ReachedFacts ==
  ASSUME TypeOK
  PROVE  /\ Reached \in Nat
         /\ txs # << >> <=> Len(txs) > 0
         /\ txs # << >> => Len(txs) \in DOMAIN txs /\ Reached = txs[Len(txs)].delivered
<1>1. txs \in Seq(Transactions)
  BY DEF TypeOK
<1>2. txs # << >> <=> Len(txs) > 0
  BY <1>1
<1>3. txs # << >> => Len(txs) \in DOMAIN txs
  BY <1>2, TxFacts
<1> QED BY <1>2, <1>3, TxFacts DEF Reached

(* The transactions stay, with their meters; samples may be taken.         *)
Along ==
  /\ Len(txs') = Len(txs) /\ DOMAIN txs' = DOMAIN txs
  /\ \A t \in DOMAIN txs :
       /\ txs'[t].connector = txs[t].connector
       /\ txs'[t].delivered = txs[t].delivered
       /\ txs'[t].sampled \in {txs[t].sampled, txs[t].delivered}
       /\ txs[t].device = "orphan" => txs'[t].device = "orphan"

LEMMA AlongKeeps ==
  ASSUME TypeOK, TypeOK', Newest, Along
  PROVE  /\ Newest' /\ Reached' = Reached
         /\ txs' = << >> <=> txs = << >>
<1>1. txs' = << >> <=> txs = << >>
  <2>1. txs \in Seq(Transactions) /\ txs' \in Seq(Transactions)
    BY DEF TypeOK
  <2> QED BY <2>1 DEF Along
<1>2. Reached' = Reached
  BY <1>1, ReachedFacts DEF Along, Reached
<1>3. Newest'
  <2> SUFFICES ASSUME NEW t \in DOMAIN txs
               PROVE  /\ t # Len(txs) => txs'[t].device = "orphan"
                      /\ txs'[t].delivered <= Reached
                      /\ txs'[t].sampled # None => txs'[t].sampled <= txs'[t].delivered
    BY <1>2 DEF Newest, Along
  <2>1. txs[t].delivered \in Nat
    BY TxFacts
  <2> QED BY <2>1 DEF Newest, Along
<1> QED BY <1>1, <1>2, <1>3

(* A step of any kind, after which no more is asked for or remembered.     *)
LEMMA AlongKeepsAll ==
  ASSUME AInv, Inv', Along,
         starting' \subseteq starting,
         \A c \in Connectors : asked'[c] \in {asked[c], None},
         \A s \in Sessions : status'[s] = "none" <=> status[s] = "none",
         \A c \in Connectors : entry'[c] # None =>
           entry[c] # None /\ entry'[c].tx = entry[c].tx,
         last' # None => last # None /\ last'.tx = last.tx,
         \A s \in Sessions :
           /\ energy'[s] <= Reached
           /\ processed'[s] => paid'[s] <= amount'[s] /\ amount'[s] <= Reached * Tariff
  PROVE  AInv'
<1>1. /\ Newest' /\ Reached' = Reached
      /\ txs' = << >> <=> txs = << >>
  BY AlongKeeps DEF AInv, Inv
<1>2. starting \subseteq Sessions /\ starting' \subseteq Sessions
  BY DEF AInv, Inv, TypeOK
<1>3. Fresh'
  BY <1>1, <1>2 DEF AInv, Fresh
<1>4. Ours'
  <2>1. txs # << >> => txs'[Len(txs)].connector = txs[Len(txs)].connector
    BY ReachedFacts DEF AInv, Inv, Along
  <2> QED BY <1>1, <2>1 DEF AInv, Ours, Along
<1>5. Figures'
  BY <1>1 DEF Figures
<1> QED BY <1>1, <1>3, <1>4, <1>5 DEF AInv

LEMMA SameIsAlong == TypeOK /\ txs' = txs => Along
BY TxFacts DEF Along

(* One transaction is changed in its state or its sample.                  *)
LEMMA ChangeIsAlong ==
  ASSUME TypeOK, NEW t \in DOMAIN txs, txs[t].device # "orphan",
         NEW x \in Transactions, txs' = [txs EXCEPT ![t] = x],
         x.connector = txs[t].connector, x.delivered = txs[t].delivered,
         x.sampled \in {txs[t].sampled, txs[t].delivered}
  PROVE  Along
<1>1. txs \in Seq(Transactions)
  BY DEF TypeOK
<1>2. Len(txs') = Len(txs) /\ DOMAIN txs' = DOMAIN txs
  BY TxChange
<1>3. txs'[t] = x /\ \A u \in DOMAIN txs \ {t} : txs'[u] = txs[u]
  BY <1>1
<1> QED BY <1>2, <1>3 DEF Along

(* Only the transaction's state changes. *)
LEMMA StateIsAlong ==
  ASSUME TypeOK, NEW t \in DOMAIN txs, txs[t].device # "orphan",
         NEW v \in {"Started", "Stopped"}, NEW d \in {"running", "ended", "over", "orphan"},
         txs' = [txs EXCEPT ![t] = [txs[t] EXCEPT !.status = v, !.device = d]]
  PROVE  Along
<1> DEFINE x == [txs[t] EXCEPT !.status = v, !.device = d]
<1>1. txs[t] \in Transactions
  BY TxFacts
<1>2. /\ x \in Transactions /\ x.connector = txs[t].connector
      /\ x.delivered = txs[t].delivered /\ x.sampled = txs[t].sampled
  BY <1>1 DEF Transactions
<1> HIDE DEF x
<1>3. txs' = [txs EXCEPT ![t] = x]
  BY DEF x
<1> QED BY <1>2, <1>3, ChangeIsAlong

LEMMA RunsLast ==
  ASSUME TypeOK, Newest, NEW t \in DOMAIN txs, txs[t].device # "orphan"
  PROVE  t = Len(txs) /\ txs # << >> /\ Reached = txs[t].delivered
<1>1. t = Len(txs)
  BY DEF Newest
<1>2. Len(txs) > 0
  BY TxFacts
<1> QED BY <1>1, <1>2, ReachedFacts

LEMMA ActualIsReached ==
  ASSUME AInv, NEW s \in Sessions
  PROVE  ActualEnergy(s) \in Nat /\ ActualEnergy(s) <= Reached
<1>1. ActualEnergy(s) \in Nat /\ Reached \in Nat
  BY ActualEnergyFacts, ReachedFacts DEF AInv, Inv
<1>2. CASE energy[s] > 0
  <2>1. ActualEnergy(s) = energy[s]
    BY <1>2 DEF ActualEnergy
  <2>2. energy[s] <= Reached
    BY DEF AInv, Figures
  <2> QED BY <1>1, <2>1, <2>2
<1>3. CASE ~ (energy[s] > 0) /\ TxsOf(s) = {}
  BY <1>1, <1>3 DEF ActualEnergy
<1>4. CASE ~ (energy[s] > 0) /\ TxsOf(s) # {}
  <2> DEFINE t == Latest(TxsOf(s))
  <2>1. t \in DOMAIN txs
    BY <1>4, TxFacts, LatestFacts DEF TxsOf, AInv, Inv
  <2>2. ActualEnergy(s) = IF txs[t].sampled # None THEN txs[t].sampled
                          ELSE IF txs[t].status = "Stopped" THEN txs[t].delivered ELSE 0
    BY <1>4 DEF ActualEnergy
  <2> HIDE DEF t
  <2>3. /\ txs[t].delivered \in Nat /\ txs[t].sampled \in Nat \cup {None}
    BY <2>1, TxFacts DEF AInv, Inv
  <2>4. txs[t].delivered <= Reached
        /\ (txs[t].sampled # None => txs[t].sampled <= txs[t].delivered)
    BY <2>1 DEF AInv, Newest
  <2> QED BY <1>1, <2>2, <2>3, <2>4
<1> QED BY <1>2, <1>3, <1>4

----------------------------------------------------------------------------
(* ... and the steps *)

LEMMA AInit == Init => AInv
<1> SUFFICES ASSUME Init PROVE AInv
  OBVIOUS
<1>1. Inv
  BY InvInit
<1>2. /\ txs = << >> /\ starting = {} /\ last = None
      /\ \A c \in Connectors : asked[c] = None /\ entry[c] = None
      /\ \A s \in Sessions : energy[s] = 0 /\ processed[s] = FALSE
  BY DEF Init
<1>3. DOMAIN txs = {}
  BY <1>2
<1>4. Newest
  BY <1>3 DEF Newest
<1>5. Fresh /\ Ours
  BY <1>2 DEF Fresh, Ours
<1>6. Figures
  BY <1>2 DEF Figures, Reached
<1> QED BY <1>1, <1>4, <1>5, <1>6 DEF AInv

LEMMA AloneStarts ==
  ASSUME AInv, Inv', \A r, s \in Sessions : r = s, NEW s \in Sessions,
         \/ \E c \in Connectors : StartSession(s, c)
         \/ \E d \in BOOLEAN : SendStartCommand(s, d)
  PROVE  AInv'
<1> USE DEF accounts, rows, memory, requests, bounds
<1>0. /\ txs = << >> /\ (\A c \in Connectors : asked[c] = None)
      /\ starting \subseteq Sessions /\ txs' = txs
      /\ asked \in [Connectors -> Clients \cup {None}]
      /\ status \in [Sessions -> Statuses]
      /\ (\A c \in Connectors : entry[c] = None)
      /\ Newest' /\ Reached' = Reached /\ Len(txs) = 0
  <2>1. txs = << >> /\ \A c \in Connectors : asked[c] = None
    BY DEF StartSession, SendStartCommand, AInv, Fresh
  <2>2. starting \subseteq Sessions /\ status \in [Sessions -> Statuses]
        /\ asked \in [Connectors -> Clients \cup {None}]
    BY DEF AInv, Inv, TypeOK
  <2>3. txs' = txs
    BY DEF StartSession, SendStartCommand
  <2>4. \A c \in Connectors : entry[c] = None
    BY <2>1 DEF AInv, Ours
  <2>5. Newest' /\ Reached' = Reached
    BY <2>3 DEF AInv, Newest, Reached
  <2> QED BY <2>1, <2>2, <2>3, <2>4, <2>5
<1>1. ASSUME NEW c \in Connectors, StartSession(s, c) PROVE AInv'
  <2>1. /\ status[s] = "none" /\ status' = [status EXCEPT ![s] = "started"]
        /\ starting' = starting \cup {s}
        /\ UNCHANGED <<asked, entry, last, energy, processed>>
    BY <1>1 DEF StartSession
  <2>2. Fresh'
    BY <1>0, <2>1 DEF AInv, Fresh
  <2>3. Ours'
    BY <1>0, <2>1 DEF AInv, Ours
  <2>4. ~ processed[s]
    BY <2>1 DEF AInv, Inv, Marks
  <2>5. Figures'
    BY <1>0, <2>1, <2>4 DEF AInv, Figures
  <2> QED BY <1>0, <2>2, <2>3, <2>5 DEF AInv
<1>2. ASSUME NEW d \in BOOLEAN, SendStartCommand(s, d) PROVE AInv'
  <2> DEFINE c == plug[s]
  <2>1. /\ s \in starting /\ starting' = starting \ {s}
        /\ asked' = IF d THEN [asked EXCEPT ![c] = Client[s]] ELSE asked
        /\ last' = IF d /\ s \notin Unlimited
                   THEN [tx |-> 0, session |-> s, limit |-> TRUE] ELSE last
        /\ UNCHANGED <<entry, energy, processed, status, paid, amount>>
    BY <1>2 DEF SendStartCommand
  <2>2. starting' = {} /\ status[s] # "none" /\ \A r \in Sessions : status[r] # "none"
    BY <1>0, <2>1 DEF AInv, Fresh
  <2>3. \A e \in Connectors : asked'[e] # None => e = c
    BY <1>0, <2>1
  <2>4. Fresh'
    BY <1>0, <2>1, <2>2, <2>3 DEF Fresh
  <2>5. Ours'
    BY <1>0, <2>1 DEF AInv, Ours
  <2>6. Figures'
    BY <1>0, <2>1 DEF AInv, Figures
  <2> QED BY <1>0, <2>4, <2>5, <2>6 DEF AInv
<1> QED BY <1>1, <1>2

(* What a StartTransaction adds goes on from what was reached.             *)
LEMMA AloneOpens ==
  ASSUME AInv, Inv', NEW c \in Connectors, NEW k \in Clients,
         NEW old \in Seq(Transactions), Len(old) = Len(txs),
         OpenTransaction(c, k, Reached, old),
         \A t \in DOMAIN txs : /\ old[t].device = "orphan"
                               /\ old[t].delivered = txs[t].delivered
                               /\ old[t].sampled = txs[t].sampled,
         txs # << >> => c = txs[Len(txs)].connector,
         starting = {}, \A s \in Sessions : status[s] # "none",
         \A d \in Connectors : asked'[d] = None
  PROVE  AInv'
<1> DEFINE t == Len(txs) + 1
           x == txs'[t]
<1>1. /\ Len(txs) \in Nat /\ DOMAIN txs = 1..Len(txs) /\ Reached \in Nat
      /\ None \notin Nat
  BY TxFacts, ReachedFacts, ConstantFacts DEF AInv, Inv
<1>2. /\ Len(txs') = t /\ DOMAIN txs' = DOMAIN txs \cup {t}
      /\ \A u \in DOMAIN txs : txs'[u] = old[u]
  BY <1>1, OpenFacts DEF AInv, Inv
<1>3. x.connector = c /\ x.delivered = Reached /\ x.sampled = None
  BY <1>1 DEF OpenTransaction
<1>4. txs' # << >> /\ Reached' = Reached
  <2>1. Len(txs') # 0
    BY <1>1, <1>2
  <2>2. txs' # << >>
    BY <2>1
  <2> QED BY <1>2, <1>3, <2>2 DEF Reached
<1> HIDE DEF x
<1>5. Newest'
  <2> SUFFICES ASSUME NEW u \in DOMAIN txs'
               PROVE  /\ u # t => txs'[u].device = "orphan"
                      /\ txs'[u].delivered <= Reached
                      /\ txs'[u].sampled # None => txs'[u].sampled <= txs'[u].delivered
    BY <1>2, <1>4 DEF Newest
  <2>1. CASE u = t
    BY <1>1, <1>3, <2>1 DEF x
  <2>2. CASE u # t
    <3>1. u \in DOMAIN txs /\ txs'[u] = old[u]
      BY <1>2, <2>2
    <3> QED BY <3>1 DEF AInv, Newest
  <2> QED BY <2>1, <2>2
<1>6. /\ last'.tx = t /\ entry' = [entry EXCEPT ![c] = last']
      /\ UNCHANGED <<starting, status, energy, amount, processed, paid>>
  BY DEF OpenTransaction, accounts, requests
<1>7. Fresh'
  BY <1>6 DEF Fresh
<1>8. Ours'
  <2>1. entry \in [Connectors -> Entries \cup {None}]
    BY DEF AInv, Inv, TypeOK
  <2>2. \A d \in Connectors \ {c} : entry[d] = None /\ entry'[d] = None
    BY <1>6, <2>1 DEF AInv, Ours
  <2>3. entry'[c] = last'
    BY <1>6, <2>1
  <2> QED BY <1>2, <1>3, <1>4, <1>6, <2>2, <2>3 DEF Ours, x
<1>9. Figures'
  BY <1>4, <1>6 DEF AInv, Figures
<1> QED BY <1>5, <1>7, <1>8, <1>9 DEF AInv

LEMMA AlonePlugsIn ==
  ASSUME AInv, Inv',
         \/ \E c \in Connectors : StartTransaction(c)
         \/ \E t \in DOMAIN txs : RepeatStartTransaction(t)
  PROVE  AInv'
<1>0. TypeOK /\ txs \in Seq(Transactions) /\ asked \in [Connectors -> Clients \cup {None}]
  BY DEF AInv, Inv, TypeOK
<1>1. ASSUME NEW c \in Connectors, StartTransaction(c) PROVE AInv'
  <2>1. asked[c] # None /\ asked' = [asked EXCEPT ![c] = None]
        /\ OpenTransaction(c, asked[c], 0, txs)
    BY <1>1 DEF StartTransaction
  <2>2. txs = << >> /\ \A d \in Connectors : asked[d] # None => d = c
    BY <2>1 DEF AInv, Fresh
  <2>3. Reached = 0 /\ DOMAIN txs = {}
    BY <2>2 DEF Reached
  <2>4. starting = {} /\ \A s \in Sessions : status[s] # "none"
    BY <2>1 DEF AInv, Fresh
  <2>5. asked[c] \in Clients /\ \A d \in Connectors : asked'[d] = None
    BY <1>0, <2>1, <2>2
  <2> QED BY <1>0, <2>1, <2>2, <2>3, <2>4, <2>5, AloneOpens
<1>2. ASSUME NEW t \in DOMAIN txs, RepeatStartTransaction(t) PROVE AInv'
  <2> DEFINE x == [txs[t] EXCEPT !.device = "orphan"]
             old == [txs EXCEPT ![t] = x]
  <2>1. txs[t].device = "running" /\ asked' = asked
    BY <1>2 DEF RepeatStartTransaction
  <2>2. t = Len(txs) /\ txs # << >> /\ Reached = txs[t].delivered
    BY <1>0, <2>1, RunsLast DEF AInv
  <2>3. txs[t] \in Transactions /\ txs[t].connector \in Connectors /\ txs[t].tag \in Clients
    BY <1>0, TxFacts
  <2>4. /\ x \in Transactions /\ x.device = "orphan"
        /\ x.delivered = txs[t].delivered /\ x.sampled = txs[t].sampled
    BY <2>3 DEF Transactions
  <2> HIDE DEF x
  <2>5. /\ old \in Seq(Transactions) /\ Len(old) = Len(txs) /\ old[t] = x
        /\ \A u \in DOMAIN txs \ {t} : old[u] = txs[u]
    BY <1>0, <2>4
  <2>6. \A u \in DOMAIN txs : /\ old[u].device = "orphan"
                              /\ old[u].delivered = txs[u].delivered
                              /\ old[u].sampled = txs[u].sampled
    BY <2>2, <2>4, <2>5 DEF AInv, Newest
  <2>7. OpenTransaction(txs[t].connector, txs[t].tag, Reached, old)
    BY <1>2, <2>2 DEF RepeatStartTransaction, x
  <2> HIDE DEF old
  <2>8. /\ starting = {} /\ \A s \in Sessions : status[s] # "none"
        /\ \A c \in Connectors : asked'[c] = None
    BY <2>1, <2>2 DEF AInv, Fresh
  <2> QED BY <2>2, <2>3, <2>5, <2>6, <2>7, <2>8, AloneOpens
<1> QED BY <1>1, <1>2

LEMMA AloneDelivers ==
  ASSUME AInv, Inv', NEW t \in DOMAIN txs, Deliver(t)
  PROVE  AInv'
<1> USE DEF accounts, rows, memory, requests
<1> DEFINE x == [txs[t] EXCEPT !.delivered = @ + 1]
<1>0. TypeOK /\ txs \in Seq(Transactions) /\ txs[t] \in Transactions
      /\ txs[t].delivered \in Nat /\ None \notin Nat
  BY TxFacts, ConstantFacts DEF AInv, Inv, TypeOK
<1>1. /\ t = Len(txs) /\ txs # << >> /\ Reached = txs[t].delivered
  BY <1>0, RunsLast DEF AInv, Deliver
<1>2. /\ x \in Transactions /\ x.connector = txs[t].connector
      /\ x.delivered = txs[t].delivered + 1 /\ x.sampled = txs[t].sampled
  BY <1>0 DEF Transactions
<1>3. txs' = [txs EXCEPT ![t] = x]
      /\ UNCHANGED <<balance, paid, status, energy, amount, processed, entry, last,
                     starting, asked>>
  BY DEF Deliver
<1> HIDE DEF x
<1>4. Len(txs') = Len(txs) /\ DOMAIN txs' = DOMAIN txs /\ txs'[t] = x
      /\ \A u \in DOMAIN txs \ {t} : txs'[u] = txs[u]
  BY <1>0, <1>2, <1>3, TxChange
<1>5. txs' # << >> /\ Reached' = Reached + 1
  <2>1. txs' # << >>
    BY <1>1, <1>4, ReachedFacts DEF Inv, AInv
  <2> QED BY <1>1, <1>2, <1>4, <2>1 DEF Reached
<1>6. Newest'
  <2> SUFFICES ASSUME NEW u \in DOMAIN txs
               PROVE  /\ u # Len(txs) => txs'[u].device = "orphan"
                      /\ txs'[u].delivered <= Reached + 1
                      /\ txs'[u].sampled # None => txs'[u].sampled <= txs'[u].delivered
    BY <1>4, <1>5 DEF Newest
  <2>1. /\ txs[u].delivered \in Nat /\ txs[u].sampled \in Nat \cup {None}
        /\ u # Len(txs) => txs[u].device = "orphan"
        /\ txs[u].delivered <= Reached
        /\ txs[u].sampled # None => txs[u].sampled <= txs[u].delivered
    BY <1>0, TxFacts DEF AInv, Newest
  <2> QED BY <1>0, <1>1, <1>2, <1>4, <2>1
<1>7. Fresh'
  BY <1>1, <1>3, <1>5 DEF AInv, Fresh
<1>8. Ours'
  BY <1>1, <1>2, <1>3, <1>4, <1>5 DEF AInv, Ours
<1>9. Figures'
  <2> SUFFICES ASSUME NEW s \in Sessions
               PROVE  /\ energy[s] <= Reached + 1
                      /\ processed[s] => paid[s] <= amount[s]
                                         /\ amount[s] <= (Reached + 1) * Tariff
    BY <1>3, <1>5 DEF Figures
  <2>1. Reached \in Nat /\ energy[s] \in Int /\ amount[s] \in Nat
    BY <1>0, <1>1 DEF TypeOK
  <2>2. Reached * Tariff <= (Reached + 1) * Tariff
    BY <2>1, CostsGrow
  <2>3. Reached * Tariff \in Nat /\ (Reached + 1) * Tariff \in Nat
    BY <2>1, CostFacts
  <2> QED BY <2>1, <2>2, <2>3 DEF AInv, Figures
<1> QED BY <1>6, <1>7, <1>8, <1>9 DEF AInv

(* What MeterValues writes is the last transaction's own meter.            *)
LEMMA AloneMeters ==
  ASSUME AInv, Inv', NEW t \in DOMAIN txs, MeterValues(t)
  PROVE  AInv'
<1> USE DEF accounts, requests, memory
<1> DEFINE c == txs[t].connector
           found == IF entry[c] # None THEN entry[c] ELSE last
           x == [txs[t] EXCEPT !.sampled = txs[t].delivered]
<1>0. /\ TypeOK /\ txs[t] \in Transactions /\ c \in Connectors
      /\ txs[t].delivered \in Nat /\ Reached \in Nat
      /\ energy \in [Sessions -> Int] /\ entry \in [Connectors -> Entries \cup {None}]
      /\ last \in Entries \cup {None}
  BY TxFacts, ReachedFacts DEF AInv, Inv, TypeOK
<1>1. t = Len(txs) /\ txs # << >> /\ Reached = txs[t].delivered
  BY <1>0, RunsLast DEF AInv, MeterValues
<1>2. Along
  <2>1. /\ x \in Transactions /\ x.connector = txs[t].connector
        /\ x.delivered = txs[t].delivered /\ x.sampled = txs[t].delivered
    BY <1>0 DEF Transactions
  <2>2. txs' = [txs EXCEPT ![t] = x] /\ txs[t].device # "orphan"
    BY DEF MeterValues
  <2> HIDE DEF x
  <2> QED BY <1>0, <2>1, <2>2, ChangeIsAlong
<1>3. UNCHANGED <<starting, asked, status, processed, paid, amount>>
  BY DEF MeterValues
<1>4. /\ \A d \in Connectors : entry'[d] # None =>
           entry[d] # None /\ entry'[d].tx = entry[d].tx
      /\ last' # None => last # None /\ last'.tx = last.tx
      /\ \A s \in Sessions : energy'[s] <= Reached
  <2>1. CASE found = None
    BY <2>1 DEF MeterValues, AInv, Figures
  <2>2. CASE found # None
    <3> DEFINE e == Relink(found, c)
               S == {s \in Sessions : status[s] = "started" /\ plug[s] = c}
    <3>1. found \in Entries /\ found.tx = t
      BY <1>0, <1>1, <2>2 DEF AInv, Ours
    <3>2. e = found \/ e = [found EXCEPT !.session = CHOOSE s \in S : TRUE]
      BY DEF Relink
    <3>3. e.tx = t
      BY <3>1, <3>2 DEF Entries
    <3>4. Readings(t, e) = {Reached}
      BY <1>1, <3>3 DEF Readings
    <3>5. /\ energy' = IF e.session # None /\ status[e.session] = "started"
                       THEN [energy EXCEPT ![e.session] = Reached] ELSE energy
          /\ entry' = IF entry[c] # None THEN [entry EXCEPT ![c] = e] ELSE entry
          /\ last' = IF last = found THEN e ELSE last
      <4>1. \E n \in Readings(t, e) :
              /\ energy' = IF e.session # None /\ status[e.session] = "started"
                           THEN [energy EXCEPT ![e.session] = n] ELSE energy
              /\ entry' = IF entry[c] # None THEN [entry EXCEPT ![c] = e] ELSE entry
              /\ last' = IF last = found THEN e ELSE last
        BY <2>2 DEF MeterValues
      <4> QED BY <3>4, <4>1
    <3> HIDE DEF e
    <3>6. \A s \in Sessions : energy'[s] \in {energy[s], Reached}
      BY <1>0, <3>5
    <3>7. \A s \in Sessions : energy'[s] <= Reached
      BY <1>0, <3>6 DEF AInv, Figures
    <3>8. \A d \in Connectors : entry'[d] # None =>
            entry[d] # None /\ entry'[d].tx = entry[d].tx
      BY <1>0, <3>1, <3>3, <3>5
    <3>9. last' # None => last # None /\ last'.tx = last.tx
      BY <2>2, <3>1, <3>3, <3>5
    <3> QED BY <3>7, <3>8, <3>9
  <2> QED BY <2>1, <2>2
<1>5. \A s \in Sessions : processed'[s] =>
        paid'[s] <= amount'[s] /\ amount'[s] <= Reached * Tariff
  BY <1>3 DEF AInv, Figures
<1> QED BY <1>2, <1>3, <1>4, <1>5, AlongKeepsAll

(* The figures a stop leaves, the client's or the station's.               *)
LEMMA AloneFigures ==
  ASSUME AInv, NEW s \in Sessions, NEW n \in Nat, n <= Reached,
         NEW cost \in Nat, cost <= Reached * Tariff, Finalize(s, n, cost),
         \/ ~ processed[s] /\ Settle(s, cost)
         \/ processed[s] /\ paid' = paid /\ cost = Reached * Tariff
  PROVE  \A r \in Sessions :
           /\ energy'[r] <= Reached
           /\ processed'[r] => paid'[r] <= amount'[r] /\ amount'[r] <= Reached * Tariff
<1>1. /\ status \in [Sessions -> Statuses] /\ energy \in [Sessions -> Int]
      /\ amount \in [Sessions -> Nat] /\ processed \in [Sessions -> BOOLEAN]
      /\ paid \in [Sessions -> Int] /\ Reached \in Nat
  BY ReachedFacts DEF AInv, Inv, TypeOK
<1>2. /\ status' = [status EXCEPT ![s] = "stopped"]
      /\ energy' = [energy EXCEPT ![s] = n]
      /\ amount' = [amount EXCEPT ![s] = cost]
      /\ processed' = [processed EXCEPT ![s] = TRUE]
  BY DEF Finalize
<1>3. Reached * Tariff \in Nat
  BY <1>1, CostFacts
<1>4. paid'[s] <= cost /\ \A r \in Sessions \ {s} : paid'[r] = paid[r]
  <2>1. CASE ~ processed[s] /\ Settle(s, cost)
    BY <2>1, SettledAtCost, SettleFacts DEF AInv, Inv
  <2>2. CASE processed[s] /\ paid' = paid /\ cost = Reached * Tariff
    <3>1. paid[s] <= amount[s] /\ amount[s] <= cost
      BY <2>2 DEF AInv, Figures
    <3> QED BY <1>1, <2>2, <3>1
  <2> QED BY <2>1, <2>2
<1>5. ASSUME NEW r \in Sessions
      PROVE  /\ energy'[r] <= Reached
             /\ processed'[r] => paid'[r] <= amount'[r] /\ amount'[r] <= Reached * Tariff
  <2>1. CASE r = s
    BY <1>1, <1>2, <1>4, <2>1
  <2>2. CASE r # s
    <3>1. energy'[r] = energy[r] /\ amount'[r] = amount[r]
          /\ processed'[r] = processed[r] /\ paid'[r] = paid[r]
      BY <1>1, <1>2, <1>4, <2>2
    <3> QED BY <3>1 DEF AInv, Figures
  <2> QED BY <2>1, <2>2
<1> QED BY <1>5

LEMMA AloneStationStops ==
  ASSUME AInv, Inv', NEW t \in DOMAIN txs, NEW a \in BOOLEAN, StopTransaction(t, a)
  PROVE  AInv'
<1> USE DEF accounts, rows, requests
<1> DEFINE s == txs[t].session
           c == txs[t].connector
           n == txs[t].delivered
           cost == n * Tariff
<1>0. /\ TypeOK /\ c \in Connectors /\ n \in Nat /\ s \in Sessions \cup {None}
      /\ txs[t].device = "ended" /\ Reached \in Nat
      /\ entry \in [Connectors -> Entries \cup {None}]
      /\ status \in [Sessions -> Statuses]
  BY TxFacts, ReachedFacts DEF AInv, Inv, TypeOK, StopTransaction
<1>1. t = Len(txs) /\ txs # << >> /\ Reached = n
  BY <1>0, RunsLast DEF AInv
<1>2. Along
  <2>1. txs' = [txs EXCEPT ![t] = [txs[t] EXCEPT !.status = "Stopped",
                                     !.device = IF a THEN "over" ELSE "ended"]]
    BY DEF StopTransaction
  <2> QED BY <1>0, <2>1, StateIsAlong
<1>3. /\ entry' = [entry EXCEPT ![c] = None] /\ last' = None
      /\ UNCHANGED <<starting, asked>>
  BY DEF StopTransaction
<1>4. \A r \in Sessions : status[r] # "none"
  BY <1>1 DEF AInv, Fresh
<1>5. CASE ~ (txs[t].status = "Started" /\ s # None)
  <2>1. UNCHANGED <<status, energy, amount, processed, paid>>
    BY <1>5 DEF StopTransaction
  <2> QED BY <1>0, <1>2, <1>3, <2>1, AlongKeepsAll DEF AInv, Figures
<1>6. CASE txs[t].status = "Started" /\ s # None
  <2>1. s \in Sessions /\ SettleByStation(s, n)
    BY <1>0, <1>6 DEF StopTransaction
  <2>2. cost \in Nat /\ cost = Reached * Tariff
    BY <1>0, <1>1, CostFacts
  <2>3. /\ Finalize(s, n, cost)
        /\ IF processed[s] THEN paid' = paid ELSE Settle(s, cost)
    BY <2>1 DEF SettleByStation
  <2>4. processed \in [Sessions -> BOOLEAN]
    BY <1>0 DEF TypeOK
  <2> HIDE DEF s, n, cost
  <2>5. \A r \in Sessions :
          /\ energy'[r] <= Reached
          /\ processed'[r] => paid'[r] <= amount'[r] /\ amount'[r] <= Reached * Tariff
    BY <1>0, <1>1, <2>1, <2>2, <2>3, <2>4, AloneFigures
  <2>6. \A r \in Sessions : status'[r] # "none"
    BY <1>0, <1>4, <2>1, <2>3 DEF Finalize
  <2> QED BY <1>0, <1>2, <1>3, <1>4, <2>5, <2>6, AlongKeepsAll
<1> QED BY <1>5, <1>6

LEMMA AloneStops ==
  ASSUME AInv, Inv', Price <= Tariff, NEW s \in Sessions, StopSession(s)
  PROVE  AInv'
<1> USE DEF memory
<1> DEFINE n == ActualEnergy(s)
           cost == n * Price
<1>0. /\ TypeOK /\ Reached \in Nat /\ n \in Nat /\ n <= Reached
      /\ status \in [Sessions -> Statuses] /\ processed \in [Sessions -> BOOLEAN]
      /\ Price \in Nat /\ Tariff \in Nat
  BY ActualIsReached, ReachedFacts, ConstantFacts DEF AInv, Inv, TypeOK
<1>1. /\ status[s] = "started" /\ Settle(s, cost) /\ Finalize(s, n, cost)
      /\ UNCHANGED <<txs, entry, last, starting, asked>>
  BY DEF StopSession
<1> HIDE DEF n
<1>2. ~ processed[s]
  BY <1>1 DEF AInv, Inv, Marks
<1>3. cost \in Nat /\ cost <= Reached * Tariff
  <2>1. n * Price \in Nat /\ n * Tariff \in Nat /\ Reached * Tariff \in Nat
    BY <1>0, CostFacts
  <2>2. n * Price <= n * Tariff
    BY <1>0
  <2>3. n * Tariff <= Reached * Tariff
    BY <1>0, CostsGrow
  <2> QED BY <2>1, <2>2, <2>3
<1> HIDE DEF cost
<1>4. \A r \in Sessions :
        /\ energy'[r] <= Reached
        /\ processed'[r] => paid'[r] <= amount'[r] /\ amount'[r] <= Reached * Tariff
  BY <1>0, <1>1, <1>2, <1>3, AloneFigures
<1>5. \A r \in Sessions : status'[r] = "none" <=> status[r] = "none"
  BY <1>0, <1>1 DEF Finalize
<1>6. Along
  BY <1>0, <1>1, SameIsAlong
<1> QED BY <1>1, <1>4, <1>5, <1>6, AlongKeepsAll

LEMMA AloneBoots ==
  ASSUME AInv, Inv', BootNotification
  PROVE  AInv'
<1> USE DEF memory, requests
<1>1. /\ status' = [s \in Sessions |-> IF s \in Unstarted THEN "error" ELSE status[s]]
      /\ energy' = [s \in Sessions |-> IF s \in Unstarted THEN 0 ELSE energy[s]]
      /\ amount' = [s \in Sessions |-> IF s \in Unstarted THEN 0 ELSE amount[s]]
      /\ paid' = [s \in Sessions |->
                    IF s \in Unstarted THEN paid[s] - amount[s] ELSE paid[s]]
      /\ asked' = [c \in Connectors |-> None]
      /\ UNCHANGED <<processed, txs, entry, last, starting>>
  BY DEF BootNotification
<1>2. TypeOK /\ Reached \in Nat
  BY ReachedFacts DEF AInv, Inv
<1>3. \A s \in Unstarted : status[s] = "started" /\ ~ processed[s]
  BY DEF AInv, Inv, Marks, Unstarted
<1>4. Along
  BY <1>1, <1>2, SameIsAlong
<1>5. \A s \in Sessions :
        /\ energy'[s] <= Reached
        /\ processed'[s] => paid'[s] <= amount'[s] /\ amount'[s] <= Reached * Tariff
  BY <1>1, <1>2, <1>3 DEF AInv, Figures
<1>6. \A s \in Sessions : status'[s] = "none" <=> status[s] = "none"
  BY <1>1, <1>3
<1> QED BY <1>1, <1>4, <1>5, <1>6, AlongKeepsAll

(* The steps that move neither money nor figures.                          *)
LEMMA AlonePasses ==
  ASSUME AInv, Inv',
         \/ \E s \in Sessions, d \in BOOLEAN : SendStopCommand(s, d)
         \/ \E c \in Connectors :
              PendingExpires(c) \/ \E v \in StationNotices(c) : StatusNotification(c, v)
         \/ \E t \in DOMAIN txs : StationEnds(t) \/ CrashInStopTransaction(t)
         \/ \E t \in stopping : HandleRemoteStop(t)
         \/ Disconnect \/ (\E saved \in BOOLEAN : Restart(saved)) \/ UNCHANGED vars
  PROVE  AInv'
<1> USE DEF accounts, rows, memory, requests
<1>0. TypeOK
  BY DEF AInv, Inv
<1>1. /\ UNCHANGED <<status, energy, amount, processed, paid, asked>>
      /\ starting' \in {starting, {}} /\ last' \in {last, None}
      /\ entry' = entry \/ \A c \in Connectors : entry'[c] = None
  BY DEF SendStopCommand, PendingExpires, StatusNotification, StationEnds,
         CrashInStopTransaction, HandleRemoteStop, Disconnect, Restart, Restarts, vars
<1>2. Along
  <2>1. ASSUME NEW t \in DOMAIN txs, NEW v \in {"Started", "Stopped"},
               NEW d \in {"running", "ended", "over", "orphan"},
               txs[t].device # "orphan",
               txs' = [txs EXCEPT ![t] = [txs[t] EXCEPT !.status = v, !.device = d]]
        PROVE  Along
    BY <1>0, <2>1, StateIsAlong
  <2>2. CASE txs' = txs
    BY <1>0, <2>2, SameIsAlong
  <2>3. ASSUME NEW t \in DOMAIN txs, StationEnds(t) \/ CrashInStopTransaction(t)
        PROVE  Along
    <3>1. txs[t] \in Transactions /\ txs[t].status \in {"Started", "Stopped"}
      BY <1>0, <2>3, TxFacts
    <3>2. /\ txs[t].device # "orphan"
          /\ \/ txs' = [txs EXCEPT ![t] = [txs[t] EXCEPT !.device = "ended"]]
             \/ txs[t].device = "ended"
                /\ txs' = [txs EXCEPT ![t] = [txs[t] EXCEPT !.status = "Stopped"]]
      BY <2>3 DEF StationEnds, CrashInStopTransaction
    <3>3. [txs[t] EXCEPT !.device = "ended"]
            = [txs[t] EXCEPT !.status = txs[t].status, !.device = "ended"]
      BY <3>1 DEF Transactions
    <3>4. txs[t].device = "ended" => [txs[t] EXCEPT !.status = "Stopped"]
            = [txs[t] EXCEPT !.status = "Stopped", !.device = "ended"]
      BY <3>1 DEF Transactions
    <3> QED BY <2>1, <2>3, <3>1, <3>2, <3>3, <3>4
  <2>4. ASSUME NEW t \in stopping, HandleRemoteStop(t)
        PROVE  Along
    <3> DEFINE u == RemoteStopTarget(t)
    <3>1. u \in DOMAIN txs
      <4>1. t \in DOMAIN txs /\ last \in Entries \cup {None}
        BY <1>0, <2>4 DEF TypeOK
      <4>2. last # None /\ last.tx # 0 => last.tx \in DOMAIN txs
        BY <1>0, <4>1, TxFacts DEF Entries
      <4> QED BY <4>1, <4>2 DEF RemoteStopTarget
    <3> HIDE DEF u
    <3>2. txs' = IF txs[u].device = "running"
                 THEN [txs EXCEPT ![u] = [txs[u] EXCEPT !.device = "ended"]] ELSE txs
      BY <2>4 DEF HandleRemoteStop, u
    <3>3. txs[u] \in Transactions /\ txs[u].status \in {"Started", "Stopped"}
      BY <1>0, <3>1, TxFacts
    <3>4. [txs[u] EXCEPT !.device = "ended"]
            = [txs[u] EXCEPT !.status = txs[u].status, !.device = "ended"]
      BY <3>3 DEF Transactions
    <3> QED BY <2>1, <2>2, <3>1, <3>2, <3>3, <3>4
  <2>5. txs' = txs \/ (\E t \in stopping : HandleRemoteStop(t))
          \/ \E t \in DOMAIN txs : StationEnds(t) \/ CrashInStopTransaction(t)
    BY DEF SendStopCommand, PendingExpires, StatusNotification, Disconnect, Restart, vars
  <2> QED BY <2>2, <2>3, <2>4, <2>5
<1>3. starting' \subseteq starting
  BY <1>1
<1>4. \A s \in Sessions :
        /\ energy'[s] <= Reached
        /\ processed'[s] => paid'[s] <= amount'[s] /\ amount'[s] <= Reached * Tariff
  BY <1>1 DEF AInv, Figures
<1> QED BY <1>1, <1>2, <1>3, <1>4, AlongKeepsAll

LEMMA AStep ==
  ASSUME \A r, s \in Sessions : r = s, Price <= Tariff, AInv, [Next]_vars
  PROVE  AInv'
<1>1. Inv'
  BY InvStep DEF AInv
<1> QED BY <1>1, AloneStarts, AlonePlugsIn, AloneDelivers, AloneMeters,
           AloneStationStops, AloneStops, AloneBoots, AlonePasses DEF Next

(* A client whose session has the station for itself never pays more than  *)
(* the amount of the row in the end, whatever reboots, crashes and repeats *)
(* settle it or correct its figures, if the price of the station has not   *)
(* risen above the tariff of the session.                                  *)
THEOREM AloneNeverOvercharged ==
  ASSUME \A r, s \in Sessions : r = s, Price <= Tariff
  PROVE  Spec => []NeverOvercharged
<1>1. AInv /\ [Next]_vars => AInv'
  BY AStep
<1>2. AInv => NeverOvercharged
  BY DEF AInv, Figures, NeverOvercharged
<1> QED BY <1>1, <1>2, AInit, PTL DEF Spec
=============================================================================
