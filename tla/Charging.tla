------------------------------ MODULE Charging ------------------------------
(***************************************************************************)
(* Charging sessions on one OCPP 1.6 station: the reservation a session    *)
(* starts with, the RemoteStart/RemoteStop commands, the station's         *)
(* transactions, and the four places that end a session and settle its     *)
(* money: StopTransaction, the client's stop request, the job that stops   *)
(* hanging sessions, and the BootNotification of a rebooted station.       *)
(*                                                                         *)
(* The backend is one event loop over a synchronous database: what runs    *)
(* between two awaits is one step.  The steps a request takes after its    *)
(* commit (saving the pending key, publishing a command) are steps of      *)
(* their own.  Energy is counted in kWh and money in whole soms.           *)
(***************************************************************************)
EXTENDS Integers, Sequences, FiniteSets

CONSTANTS
  Clients,
  Sessions,      \* rows of charging_sessions that may ever be created
  Connectors,
  Client,        \* user_id of a session
  Reserve,       \* reserved_amount of a session
  Unlimited,     \* sessions with limit_type 'none'
  Funds,         \* what each client has on the balance at first
  Tariff,        \* tariff_rate, fixed in the session when it starts
  Price,         \* stations.price_per_kwh, read when it is needed
  None,          \* SQL NULL, a missing key
  MaxTx,         \* bound: transactions the station opens
  MaxEnergy,     \* bound: kWh a transaction delivers
  MaxReboots,    \* bound: BootNotifications
  MaxCrashes,    \* bound: restarts of the backend
  Repeats,       \* may the station repeat a request whose answer it missed?
  Notices        \* may StatusNotifications arrive?

ASSUME SessionsAssumption ==
  /\ Client \in [Sessions -> Clients]
  /\ Reserve \in [Sessions -> Nat \ {0}]
  /\ Unlimited \subseteq Sessions
  /\ Funds \in [Clients -> Nat]
  /\ None \notin Sessions /\ None \notin Clients /\ None \notin Int
ASSUME RatesAssumption == Tariff \in Nat \ {0} /\ Price \in Nat \ {0}
ASSUME BoundsAssumption ==
  /\ MaxTx \in Nat /\ MaxEnergy \in Nat
  /\ MaxReboots \in Nat /\ MaxCrashes \in Nat
  /\ Repeats \in BOOLEAN /\ Notices \in BOOLEAN

VARIABLES
  balance,     \* clients.balance
  status,      \* charging_sessions.status, "none" before the row exists
  plug,        \* charging_sessions.connector_id
  energy,      \* charging_sessions.energy
  amount,      \* charging_sessions.amount
  processed,   \* charging_sessions.payment_processed
  linked,      \* charging_sessions.transaction_id
  paid,        \* history: what the client has paid for the session, net
  connectors,  \* connectors.status
  txs,         \* ocpp_transactions, and what the station does with each
  pending,     \* Redis pending:<station>:<connector>
  entry,       \* active_sessions["<station>:<connector>"]
  last,        \* active_sessions["<station>"]
  starting,    \* start requests between their commit and the pending key
  sending,     \* stop requests between their commit and the command
  stopping,    \* RemoteStopTransactions published and not handled
  asked,       \* whose RemoteStart the station waits to plug in
  reboots, crashes

accounts == <<balance, paid>>
rows     == <<status, plug, energy, amount, processed, linked>>
memory   == <<entry, last>>
requests == <<starting, sending>>
bounds   == <<reboots, crashes>>
vars     == <<accounts, rows, connectors, txs, pending, memory, requests,
              stopping, asked, bounds>>

Least(a, b) == IF a <= b THEN a ELSE b

Statuses == {"none", "started", "stopped", "error"}
Plugs == {"available", "occupied", "faulted"}

(* A transaction is open in the database until a StopTransaction closes it; *)
(* at the station it runs, has ended with its StopTransaction unanswered,  *)
(* or is over.  "orphan": the station never learned this id.               *)
Transactions ==
  [connector: Connectors, tag: Clients, session: Sessions \cup {None},
   status: {"Started", "Stopped"},
   device: {"running", "ended", "over", "orphan"},
   delivered: Nat, sampled: Nat \cup {None}]

Entries == [tx: 0..Len(txs), session: Sessions \cup {None}, limit: BOOLEAN]

At(c, d) == {t \in DOMAIN txs : txs[t].connector = c /\ txs[t].device = d}
Running(c) == At(c, "running")
StartedOf(k) == {s \in Sessions : status[s] = "started" /\ Client[s] = k}
TxsOf(s) == {t \in DOMAIN txs : txs[t].session = s}
Latest(T) == CHOOSE t \in T : \A u \in T : u <= t

Init ==
  /\ balance = Funds
  /\ status = [s \in Sessions |-> "none"]
  /\ plug = [s \in Sessions |-> None]
  /\ energy = [s \in Sessions |-> 0]
  /\ amount = [s \in Sessions |-> 0]
  /\ processed = [s \in Sessions |-> FALSE]
  /\ linked = [s \in Sessions |-> None]
  /\ paid = [s \in Sessions |-> 0]
  /\ connectors = [c \in Connectors |-> "available"]
  /\ txs = << >>
  /\ pending = [c \in Connectors |-> None]
  /\ entry = [c \in Connectors |-> None]
  /\ last = None
  /\ starting = {} /\ sending = {} /\ stopping = {}
  /\ asked = [c \in Connectors |-> None]
  /\ reboots = 0 /\ crashes = 0

----------------------------------------------------------------------------
(* Starting *)

(* start_charging_session up to its commit. *)
StartSession(s, c) ==
  LET k == Client[s] IN
  /\ status[s] = "none"
  /\ balance[k] >= Reserve[s]
  /\ connectors[c] = "available"
  /\ StartedOf(k) = {}
  /\ balance' = [balance EXCEPT ![k] = @ - Reserve[s]]
  /\ paid' = [paid EXCEPT ![s] = Reserve[s]]
  /\ status' = [status EXCEPT ![s] = "started"]
  /\ plug' = [plug EXCEPT ![s] = c]
  /\ amount' = [amount EXCEPT ![s] = Reserve[s]]
  /\ connectors' = [connectors EXCEPT ![c] = "occupied"]
  /\ starting' = starting \cup {s}
  /\ UNCHANGED <<energy, processed, linked, txs, pending, memory, sending,
                 stopping, asked, bounds>>

(* send_start_command: the pending key is saved and, if the station is     *)
(* connected, the command handler keeps the limit in memory until the      *)
(* transaction starts and RemoteStartTransaction reaches the station.      *)
SendStartCommand(s, delivered) ==
  LET c == plug[s] IN
  /\ s \in starting
  /\ starting' = starting \ {s}
  /\ pending' = [pending EXCEPT ![c] = s]
  /\ asked' = IF delivered THEN [asked EXCEPT ![c] = Client[s]] ELSE asked
  /\ last' = IF delivered /\ s \notin Unlimited
             THEN [tx |-> 0, session |-> s, limit |-> TRUE] ELSE last
  /\ UNCHANGED <<accounts, rows, connectors, txs, entry, sending, stopping,
                 bounds>>

(* The key lives 300 seconds. *)
PendingExpires(c) ==
  /\ pending[c] # None
  /\ pending' = [pending EXCEPT ![c] = None]
  /\ UNCHANGED <<accounts, rows, connectors, txs, memory, requests, stopping,
                 asked, bounds>>

(* The session a StartTransaction belongs to: the pending one of its       *)
(* connector, else the started one of the client its id_tag names.         *)
SessionFor(c, k) ==
  IF pending[c] # None THEN pending[c]
  ELSE IF StartedOf(k) = {} THEN None
  ELSE CHOOSE s \in StartedOf(k) : TRUE

(* on_start_transaction, for connector c and the id_tag of client k; the   *)
(* meter has already counted n kWh if the request is a repetition.         *)
OpenTransaction(c, k, n, old) ==
  LET s == SessionFor(c, k)
      t == Len(txs) + 1
      e == [tx |-> t, session |-> s, limit |-> s # None /\ s \notin Unlimited]
  IN
  /\ t <= MaxTx
  /\ txs' = Append(old, [connector |-> c, tag |-> k, session |-> s,
                         status |-> "Started", device |-> "running",
                         delivered |-> n, sampled |-> None])
  /\ pending' = [pending EXCEPT ![c] = None]
  /\ linked' = IF s = None THEN linked ELSE [linked EXCEPT ![s] = t]
  /\ entry' = [entry EXCEPT ![c] = e]
  /\ last' = e
  /\ connectors' = [connectors EXCEPT ![c] = "occupied"]
  /\ UNCHANGED <<accounts, status, plug, energy, amount, processed, requests,
                 stopping, bounds>>

(* The client plugs the cable in and the station opens its transaction,    *)
(* after the StopTransaction of the one before: a station sends what       *)
(* concerns the transactions of a connector in order.                      *)
StartTransaction(c) ==
  /\ asked[c] # None /\ Running(c) = {} /\ At(c, "ended") = {}
  /\ asked' = [asked EXCEPT ![c] = None]
  /\ OpenTransaction(c, asked[c], 0, txs)

(* The answer was lost, the station asks again: a second row, a second id. *)
RepeatStartTransaction(t) ==
  /\ Repeats /\ txs[t].device = "running"
  /\ OpenTransaction(txs[t].connector, txs[t].tag, txs[t].delivered,
                     [txs EXCEPT ![t].device = "orphan"])
  /\ UNCHANGED asked

----------------------------------------------------------------------------
(* Charging *)

Deliver(t) ==
  /\ txs[t].device = "running" /\ txs[t].delivered < MaxEnergy
  /\ txs' = [txs EXCEPT ![t].delivered = @ + 1]
  /\ UNCHANGED <<accounts, rows, connectors, pending, memory, requests,
                 stopping, asked, bounds>>

(* What MeterValues computes for the entry e it found: the meter of t less *)
(* the meter_start of e, which may be any number, even one below zero, if  *)
(* e is another transaction's.                                             *)
Readings(t, e) == IF e.tx = t THEN {txs[t].delivered} ELSE -1..MaxEnergy

(* Charging is stopped at 95% of the limit the reservation was made for. *)
AtLimit(s, n) == n * Price >= Reserve[s]

(* The started session of a connector, for an entry that has none. *)
Relink(e, c) ==
  LET S == {s \in Sessions : status[s] = "started" /\ plug[s] = c} IN
  IF e.session = None /\ S # {}
  THEN [e EXCEPT !.session = CHOOSE s \in S : TRUE] ELSE e

(* on_meter_values for transaction t: the sample is stored, the energy of  *)
(* the session in memory updated while it is started, and a RemoteStop     *)
(* published at its limit.  The entry of the connector comes first, that   *)
(* of the station second.                                                  *)
MeterValues(t) ==
  LET c == txs[t].connector
      found == IF entry[c] # None THEN entry[c] ELSE last
  IN
  /\ txs[t].device = "running"
  /\ txs' = [txs EXCEPT ![t].sampled = txs[t].delivered]
  /\ IF found = None THEN UNCHANGED <<energy, stopping, memory>>
     ELSE LET e == Relink(found, c) IN
          \E n \in Readings(t, e) :
            /\ energy' = IF e.session # None /\ status[e.session] = "started"
                         THEN [energy EXCEPT ![e.session] = n] ELSE energy
            /\ stopping' = IF e.limit /\ e.tx # 0 /\ AtLimit(e.session, n)
                           THEN stopping \cup {e.tx} ELSE stopping
            /\ entry' = IF entry[c] # None THEN [entry EXCEPT ![c] = e] ELSE entry
            /\ last' = IF last = found THEN e ELSE last
  /\ UNCHANGED <<accounts, status, plug, amount, processed, linked, connectors,
                 pending, requests, asked, bounds>>

(* The command handler prefers the transaction in the station's entry to   *)
(* the one the command names; the station ends what it is told to.         *)
RemoteStopTarget(t) == IF last # None /\ last.tx # 0 THEN last.tx ELSE t

HandleRemoteStop(t) ==
  LET u == RemoteStopTarget(t) IN
  /\ t \in stopping
  /\ stopping' = stopping \ {t}
  /\ txs' = IF txs[u].device = "running"
            THEN [txs EXCEPT ![u].device = "ended"] ELSE txs
  /\ UNCHANGED <<accounts, rows, connectors, pending, memory, requests, asked,
                 bounds>>

(* The car is full, the cable pulled, the station loses power. *)
StationEnds(t) ==
  /\ txs[t].device = "running"
  /\ txs' = [txs EXCEPT ![t].device = "ended"]
  /\ UNCHANGED <<accounts, rows, connectors, pending, memory, requests,
                 stopping, asked, bounds>>

StationNotices(c) ==
  {"faulted", "occupied"} \cup (IF Running(c) = {} THEN {"available"} ELSE {})

(* on_status_notification: the station's word replaces the row. *)
StatusNotification(c, v) ==
  /\ Notices
  /\ connectors' = [connectors EXCEPT ![c] = v]
  /\ UNCHANGED <<accounts, rows, txs, pending, memory, requests, stopping,
                 asked, bounds>>

----------------------------------------------------------------------------
(* Ending a session *)

(* The money of session s is settled for a given cost: what the cost       *)
(* leaves of the reservation goes back, what it exceeds it by is charged   *)
(* as far as the balance goes.                                             *)
Extra_Uncapped(s, cost) == cost - Reserve[s]
Extra_Whole(s, cost) == Least(cost, balance[Client[s]])
Extra(s, cost) == Least(cost - Reserve[s], balance[Client[s]])
Settle(s, cost) ==
  LET k == Client[s] IN
  IF cost > Reserve[s]
  THEN /\ balance' = [balance EXCEPT ![k] = @ - Extra(s, cost)]
       /\ paid' = [paid EXCEPT ![s] = @ + Extra(s, cost)]
  ELSE /\ balance' = [balance EXCEPT ![k] = @ + (Reserve[s] - cost)]
       /\ paid' = [paid EXCEPT ![s] = @ - (Reserve[s] - cost)]

(* Both finalize the row alike. *)
Finalize_Unmarked(s, n, cost) ==
  /\ status' = [status EXCEPT ![s] = "stopped"]
  /\ energy' = [energy EXCEPT ![s] = n]
  /\ amount' = [amount EXCEPT ![s] = cost]
  /\ UNCHANGED <<plug, linked, processed>>
Finalize(s, n, cost) ==
  /\ status' = [status EXCEPT ![s] = "stopped"]
  /\ energy' = [energy EXCEPT ![s] = n]
  /\ amount' = [amount EXCEPT ![s] = cost]
  /\ processed' = [processed EXCEPT ![s] = TRUE]
  /\ UNCHANGED <<plug, linked>>

(* StopTransaction settles at the tariff fixed when the session started,   *)
(* unless payment_processed is set: then only the figures are corrected.   *)
SettleByStation_Unguarded(s, n) ==
  Settle(s, n * Tariff) /\ Finalize(s, n, n * Tariff)
SettleByStation(s, n) ==
  /\ IF processed[s] THEN UNCHANGED accounts ELSE Settle(s, n * Tariff)
  /\ Finalize(s, n, n * Tariff)

(* on_stop_transaction.  The transaction is closed by a commit of its own; *)
(* one already closed settles nothing, yet its connector is freed and the  *)
(* memory of the station cleared.  If the answer is lost it comes again.   *)
StopTransaction(t, answered) ==
  LET s == txs[t].session
      c == txs[t].connector
  IN
  /\ txs[t].device = "ended"
  /\ answered \/ Repeats
  /\ IF txs[t].status = "Started" /\ s # None
     THEN SettleByStation(s, txs[t].delivered)
     ELSE UNCHANGED <<accounts, rows>>
  /\ txs' = [txs EXCEPT ![t].status = "Stopped",
                        ![t].device = IF answered THEN "over" ELSE "ended"]
  /\ connectors' = [connectors EXCEPT ![c] = "available"]
  /\ entry' = [entry EXCEPT ![c] = None]
  /\ last' = None
  /\ UNCHANGED <<pending, requests, stopping, asked, bounds>>

(* get_actual_energy_consumed *)
ActualEnergy(s) ==
  IF energy[s] > 0 THEN energy[s]
  ELSE IF TxsOf(s) = {} THEN 0
  ELSE LET x == txs[Latest(TxsOf(s))] IN
       IF x.sampled # None THEN x.sampled
       ELSE IF x.status = "Stopped" THEN x.delivered ELSE 0

(* stop_charging_session, for the client or for the job that stops hanging *)
(* sessions, up to its commit; it charges the station's current price.     *)
StopSession_Linked(s) ==
  LET n == ActualEnergy(s) IN
  /\ status[s] = "started" /\ linked[s] # None
  /\ Settle(s, n * Price)
  /\ Finalize(s, n, n * Price)
  /\ connectors' = [connectors EXCEPT ![plug[s]] = "available"]
  /\ sending' = sending \cup {s}
  /\ UNCHANGED <<txs, pending, memory, starting, stopping, asked, bounds>>
StopSession(s) ==
  LET n == ActualEnergy(s) IN
  /\ status[s] = "started"
  /\ Settle(s, n * Price)
  /\ Finalize(s, n, n * Price)
  /\ connectors' = [connectors EXCEPT ![plug[s]] = "available"]
  /\ sending' = sending \cup {s}
  /\ UNCHANGED <<txs, pending, memory, starting, stopping, asked, bounds>>

(* send_stop_command: nothing is sent if no transaction is linked yet, and *)
(* a command nobody is subscribed to is gone.                              *)
SendStopCommand(s, delivered) ==
  /\ s \in sending
  /\ sending' = sending \ {s}
  /\ stopping' = IF delivered /\ TxsOf(s) # {}
                 THEN stopping \cup {Latest(TxsOf(s))} ELSE stopping
  /\ UNCHANGED <<accounts, rows, connectors, txs, pending, memory, starting,
                 asked, bounds>>

(* on_boot_notification: started sessions without a transaction end in     *)
(* error and get their amount back; if there was one, every occupied       *)
(* connector of the station is freed.  The rebooted station has forgotten  *)
(* the RemoteStarts it waited with; what ran when it went down ends by     *)
(* StationEnds.                                                            *)
Unstarted == {s \in Sessions : status[s] = "started" /\ linked[s] = None}

Refund(k) ==
  LET S == {s \in Unstarted : Client[s] = k} IN
  IF S = {} THEN 0 ELSE amount[CHOOSE s \in S : TRUE]

BootNotification ==
  /\ reboots < MaxReboots
  /\ reboots' = reboots + 1
  /\ status' = [s \in Sessions |-> IF s \in Unstarted THEN "error" ELSE status[s]]
  /\ energy' = [s \in Sessions |-> IF s \in Unstarted THEN 0 ELSE energy[s]]
  /\ amount' = [s \in Sessions |-> IF s \in Unstarted THEN 0 ELSE amount[s]]
  /\ balance' = [k \in Clients |-> balance[k] + Refund(k)]
  /\ paid' = [s \in Sessions |->
                IF s \in Unstarted THEN paid[s] - amount[s] ELSE paid[s]]
  /\ connectors' = [c \in Connectors |->
                      IF Unstarted # {} /\ connectors[c] = "occupied"
                      THEN "available" ELSE connectors[c]]
  /\ asked' = [c \in Connectors |-> None]
  /\ UNCHANGED <<plug, processed, linked, txs, pending, memory, requests,
                 stopping, crashes>>

----------------------------------------------------------------------------
(* Failures *)

(* The station's connection drops: the commands on their way are lost, and *)
(* _cleanup forgets the station's own entry.                               *)
Disconnect ==
  /\ last' = None
  /\ stopping' = {}
  /\ UNCHANGED <<accounts, rows, connectors, txs, pending, entry, requests,
                 asked, bounds>>

(* The backend restarts.  A graceful shutdown saves active_sessions in     *)
(* Redis, a crash loses it; requests past their commit go no further.      *)
Restarts(saved) ==
  /\ crashes < MaxCrashes
  /\ crashes' = crashes + 1
  /\ starting' = {} /\ sending' = {} /\ stopping' = {}
  /\ entry' = IF saved THEN entry ELSE [c \in Connectors |-> None]
  /\ last' = IF saved THEN last ELSE None

Restart(saved) ==
  /\ Restarts(saved)
  /\ UNCHANGED <<accounts, rows, connectors, txs, pending, asked, reboots>>

(* ... between the two commits of a StopTransaction. *)
CrashInStopTransaction(t) ==
  /\ txs[t].device = "ended" /\ txs[t].status = "Started"
  /\ Restarts(FALSE)
  /\ txs' = [txs EXCEPT ![t].status = "Stopped"]
  /\ UNCHANGED <<accounts, rows, connectors, pending, asked, reboots>>

----------------------------------------------------------------------------

Next ==
  \/ \E s \in Sessions :
       \/ \E c \in Connectors : StartSession(s, c)
       \/ \E d \in BOOLEAN : SendStartCommand(s, d) \/ SendStopCommand(s, d)
       \/ StopSession(s)
  \/ \E c \in Connectors :
       \/ PendingExpires(c) \/ StartTransaction(c)
       \/ \E v \in StationNotices(c) : StatusNotification(c, v)
  \/ \E t \in DOMAIN txs :
       \/ RepeatStartTransaction(t) \/ Deliver(t) \/ MeterValues(t)
       \/ StationEnds(t)
       \/ \E a \in BOOLEAN : StopTransaction(t, a)
       \/ CrashInStopTransaction(t)
  \/ \E t \in stopping : HandleRemoteStop(t)
  \/ BootNotification
  \/ Disconnect
  \/ \E saved \in BOOLEAN : Restart(saved)

Spec == Init /\ [][Next]_vars

(* The job that stops hanging sessions runs every 30 minutes, and every    *)
(* started session is hanging once it is 12 hours old.  Nothing is assumed *)
(* of clients, stations or Redis.                                          *)
Fairness == \A s \in Sessions : WF_vars(StopSession(s))
FairSpec == Spec /\ Fairness

----------------------------------------------------------------------------
(* Properties *)

(* The type of every table and of every piece of memory. *)
TypeOK ==
  /\ balance \in [Clients -> Int]
  /\ status \in [Sessions -> Statuses]
  /\ plug \in [Sessions -> Connectors \cup {None}]
  /\ energy \in [Sessions -> Int]
  /\ amount \in [Sessions -> Nat]
  /\ processed \in [Sessions -> BOOLEAN]
  /\ linked \in [Sessions -> (DOMAIN txs) \cup {None}]
  /\ paid \in [Sessions -> Int]
  /\ connectors \in [Connectors -> Plugs]
  /\ txs \in Seq(Transactions)
  /\ pending \in [Connectors -> Sessions \cup {None}]
  /\ entry \in [Connectors -> Entries \cup {None}]
  /\ last \in Entries \cup {None}
  /\ starting \subseteq Sessions /\ sending \subseteq Sessions
  /\ stopping \subseteq DOMAIN txs
  /\ asked \in [Connectors -> Clients \cup {None}]
  /\ reboots \in Nat /\ crashes \in Nat

(* No settlement, refund or reservation takes a client below zero, in any  *)
(* order of the paths that move the balance.                               *)
Solvent == \A k \in Clients : balance[k] >= 0

(* What a client has paid follows the session's status: exactly the        *)
(* reservation while it is started, nothing when it ended in error, and a  *)
(* stopped session has been settled.                                       *)
MoneyFollowsStatus ==
  \A s \in Sessions :
    /\ status[s] = "none" => paid[s] = 0
    /\ status[s] = "started" => paid[s] = Reserve[s] /\ ~processed[s]
    /\ status[s] = "error" => paid[s] = 0 /\ ~processed[s]
    /\ status[s] = "stopped" => processed[s]

(* A settled session is settled for good: a late or repeated               *)
(* StopTransaction, the client and the job never charge or refund it again. *)
SettledIsFinal ==
  [][\A s \in Sessions : processed[s] =>
       paid'[s] = paid[s] /\ processed'[s] /\ status'[s] = "stopped"]_vars

(* Nobody is given money for charging. *)
NeverPaidToCharge == \A s \in Sessions : paid[s] >= 0

(* Nobody pays for a session more than the amount its row and its receipt  *)
(* show.                                                                   *)
NeverOvercharged == \A s \in Sessions : processed[s] => paid[s] <= amount[s]

(* Whatever the stations send and in which order, if none of them reboots, *)
(* each session's reservation is held and settled once.                    *)
heldMap == {s \in Sessions : status[s] = "started"}
settledMap == {s \in Sessions : processed[s]}
Promise == INSTANCE ReservedFunds WITH held <- heldMap, settled <- settledMap
ImplementsReservedFunds == Promise!Spec

(* Every started session ends, with no help of client or station.          *)
EverySessionEnds ==
  \A s \in Sessions : (status[s] = "started") ~> (status[s] # "started")
=============================================================================
