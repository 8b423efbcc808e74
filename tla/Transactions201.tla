--------------------------- MODULE Transactions201 ---------------------------
(***************************************************************************)
(* Charging sessions on an OCPP 2.0.1 station.  The station names its own  *)
(* transactions and reports each with one message, TransactionEvent        *)
(* (Started, Updated, Ended); the handler stores them in the tables of     *)
(* OCPP 1.6, under a number computed from the station's name for the       *)
(* transaction, and keeps one entry per station in memory.                 *)
(*                                                                         *)
(* Meters count whole kWh and never go back; a settlement costs Price a    *)
(* kWh.  What runs between two awaits, or two commits, is one step.        *)
(***************************************************************************)
EXTENDS Integers, Sequences, FiniteSets

CONSTANTS
  Clients, Sessions, EVSEs,
  Client,       \* user_id of a session
  Reserve,      \* reserved_amount of a session
  Funds,        \* balances at first
  Price,        \* the effective rate of the station
  None,
  Troubles,     \* what a station may report of an EVSE besides its use
  FinalReading, \* may an Ended carry the meter, may it lack it?
  MaxTx,        \* bound: transactions the station opens
  MaxMeter,     \* bound: kWh an EVSE counts
  MaxFaults     \* bound: events repeated, reboots, lost connections, restarts

ASSUME StationAssumption ==
  /\ Client \in [Sessions -> Clients]
  /\ Reserve \in [Sessions -> Nat \ {0}]
  /\ Funds \in [Clients -> Nat]
  /\ Price \in Nat \ {0}
  /\ FinalReading \subseteq BOOLEAN
  /\ Troubles \subseteq {"unavailable", "faulted"}
  /\ None \notin Sessions \cup Clients \cup EVSEs
  /\ {MaxTx, MaxMeter, MaxFaults} \subseteq Nat

VARIABLES
  balance,    \* clients.balance
  session,    \* charging_sessions, and what the client has paid for each
  connectors, \* connectors.status
  device,     \* the station's transactions
  meter,      \* the station's meters
  rows,       \* ocpp_transactions
  pending,    \* Redis pending:<station>:<evse>
  entry,      \* active_sessions[<station>]
  starting,   \* start requests between their commit and the command
  sending,    \* stop requests between their commit and the command
  stopping,   \* is a RemoteStopTransaction published and not handled?
  asked,      \* whose RequestStartTransaction an EVSE waits with
  run,        \* which process of the backend is running
  faults

requests == <<starting, sending, stopping>>
station  == <<device, meter, asked>>
bounds   == <<run, faults>>
vars     == <<balance, session, connectors, station, rows, pending, entry,
              requests, bounds>>

Least(a, b) == IF a <= b THEN a ELSE b

SessionRows ==
  [status: {"none", "started", "stopped", "error"}, evse: EVSEs \cup {None},
   energy: Int, amount: Int, processed: BOOLEAN, linked: BOOLEAN, paid: Int]

ConnectorStatus == {"available", "occupied"} \cup Troubles

(* "ended": its Ended is not answered yet. *)
DeviceTransactions ==
  [evse: EVSEs, tag: Clients, start: Nat, state: {"running", "ended", "over"}]

(* _v201_tx_id_to_numeric: hash() of a string is another number in every   *)
(* process, so that the number names the transaction and the process that  *)
(* computed it.                                                            *)
Numeric(t) == <<t, run>>

TransactionRows ==
  [id: (1..MaxTx) \X (0..MaxFaults), session: Sessions \cup {None},
   evse: EVSEs, start: Nat, stop: Int \cup {None}, sampled: Nat \cup {None}]

(* An entry without a number is what a RequestStart left before its        *)
(* transaction started.                                                    *)
Entries ==
  [tx: 0..MaxTx, id: ((1..MaxTx) \X (0..MaxFaults)) \cup {None},
   session: Sessions \cup {None}, evse: EVSEs \cup {None},
   start: Nat, delivered: Int]

StartedOf(k) == {s \in Sessions : session[s].status = "started" /\ Client[s] = k}
RowsOf(s) == {r \in DOMAIN rows : rows[r].session = s}
Latest(R) == CHOOSE r \in R : \A q \in R : q <= r
Earliest(R) == CHOOSE r \in R : \A q \in R : r <= q
RunningAt(c) == {t \in DOMAIN device : device[t].evse = c /\ device[t].state # "over"}

Init ==
  /\ balance = Funds
  /\ session = [s \in Sessions |->
       [status |-> "none", evse |-> None, energy |-> 0, amount |-> 0,
        processed |-> FALSE, linked |-> FALSE, paid |-> 0]]
  /\ connectors = [c \in EVSEs |-> "available"]
  /\ device = << >> /\ rows = << >>
  /\ meter = [c \in EVSEs |-> 0]
  /\ pending = [c \in EVSEs |-> None]
  /\ asked = [c \in EVSEs |-> None]
  /\ entry = None
  /\ starting = {} /\ sending = {} /\ stopping = FALSE
  /\ run = 0 /\ faults = 0

----------------------------------------------------------------------------
(* The client starts a session *)

(* create_charging_session: the row, and the reservation it is paid with. *)
CreateSession(s, c) ==
  /\ session' = [session EXCEPT ![s].status = "started", ![s].evse = c,
                                ![s].amount = Reserve[s], ![s].paid = Reserve[s]]
  /\ balance' = [balance EXCEPT ![Client[s]] = @ - Reserve[s]]

StartSession(s, c) ==
  /\ session[s].status = "none"
  /\ balance[Client[s]] >= Reserve[s]
  /\ connectors[c] = "available"
  /\ StartedOf(Client[s]) = {}
  /\ CreateSession(s, c)
  /\ connectors' = [connectors EXCEPT ![c] = "occupied"]
  /\ starting' = starting \cup {s}
  /\ UNCHANGED <<station, rows, pending, entry, sending, stopping, bounds>>

(* The pending key is saved; if the command is delivered, the handler      *)
(* replaces the station's entry by the session's limit and asks the        *)
(* station to start.                                                       *)
RequestStart(s, delivered) ==
  LET c == session[s].evse IN
  /\ s \in starting
  /\ starting' = starting \ {s}
  /\ pending' = [pending EXCEPT ![c] = s]
  /\ asked' = IF delivered THEN [asked EXCEPT ![c] = Client[s]] ELSE asked
  /\ entry' = IF delivered
              THEN [tx |-> 0, id |-> None, session |-> s, evse |-> None,
                    start |-> 0, delivered |-> 0]
              ELSE entry
  /\ UNCHANGED <<balance, session, connectors, device, meter, rows, sending,
                 stopping, bounds>>

PendingExpires(c) ==
  /\ pending[c] # None
  /\ pending' = [pending EXCEPT ![c] = None]
  /\ UNCHANGED <<balance, session, connectors, station, rows, entry, requests,
                 bounds>>

(* on_status_notification: the station reports an EVSE as it is.  Reserved  *)
(* counts as occupied and everything unknown as unavailable.               *)
StatusNotification(c, v) ==
  /\ v # connectors[c]
  /\ v = "occupied" => \E t \in RunningAt(c) : device[t].state = "running"
  /\ v = "available" => \A t \in RunningAt(c) : device[t].state # "running"
  /\ v \in Troubles => faults < MaxFaults
  /\ faults' = faults + (IF v \in Troubles THEN 1 ELSE 0)
  /\ connectors' = [connectors EXCEPT ![c] = v]
  /\ UNCHANGED <<balance, session, station, rows, pending, entry, requests, run>>

(* on_authorize: every tag a session was started with stays accepted. *)
Authorized(k) == \E s \in Sessions : Client[s] = k /\ session[s].status # "none"

----------------------------------------------------------------------------
(* TransactionEvent *)

(* The session of a Started: the pending one of its EVSE, else the started *)
(* one of the client its id_token names.                                   *)
SessionFor(c, k) ==
  IF pending[c] # None THEN pending[c]
  ELSE IF StartedOf(k) = {} THEN None
  ELSE CHOOSE s \in StartedOf(k) : TRUE

(* The first commit of _handle_transaction_started. *)
RecordStarted(t, c, k, m) ==
  LET s == SessionFor(c, k) IN
  /\ rows' = Append(rows, [id |-> Numeric(t), session |-> s, evse |-> c,
                           start |-> m, stop |-> None, sampled |-> None])
  /\ session' = IF s = None THEN session ELSE [session EXCEPT ![s].linked = TRUE]
  /\ pending' = [pending EXCEPT ![c] = None]

(* All of it. *)
TransactionStarted(t, c, k, m) ==
  /\ RecordStarted(t, c, k, m)
  /\ entry' = [tx |-> t, id |-> Numeric(t), session |-> SessionFor(c, k),
               evse |-> c, start |-> m, delivered |-> 0]
  /\ connectors' = [connectors EXCEPT ![c] = "occupied"]

(* Somebody plugs in: after a RequestStart, or with an accepted tag. *)
Plugs(c, k) ==
  /\ Len(device) < MaxTx /\ RunningAt(c) = {}
  /\ asked[c] = k \/ Authorized(k)
  /\ device' = Append(device, [evse |-> c, tag |-> k, start |-> meter[c],
                               state |-> "running"])
  /\ asked' = IF asked[c] = k THEN [asked EXCEPT ![c] = None] ELSE asked
  /\ UNCHANGED meter

Started(c, k) ==
  /\ Plugs(c, k)
  /\ TransactionStarted(Len(device) + 1, c, k, meter[c])
  /\ UNCHANGED <<balance, requests, bounds>>

(* The answer got lost: the same event, the same transaction, another row. *)
RepeatStarted(t) ==
  /\ faults < MaxFaults /\ device[t].state = "running"
  /\ Len(rows) < 2 * MaxTx
  /\ faults' = faults + 1
  /\ TransactionStarted(t, device[t].evse, device[t].tag, device[t].start)
  /\ UNCHANGED <<balance, station, requests, run>>

Deliver(c) ==
  /\ \E t \in RunningAt(c) : device[t].state = "running"
  /\ meter[c] < MaxMeter
  /\ meter' = [meter EXCEPT ![c] = @ + 1]
  /\ UNCHANGED <<balance, session, connectors, device, asked, rows, pending,
                 entry, requests, bounds>>

(* _check_limits: the cost so far against 90 or 95 % of what was reserved. *)
AtLimit(e, n) ==
  /\ e.tx # 0 /\ e.session # None
  /\ n * Price >= Reserve[e.session]

(* add_meter_values: the reading is filed under the entry's number. *)
Sampled(id, m) ==
  LET R == {r \in DOMAIN rows : rows[r].id = id} IN
  IF id = None \/ R = {} THEN rows ELSE [rows EXCEPT ![Latest(R)].sampled = m]

(* Updated of transaction t: whoever's it is, the station's entry takes    *)
(* the reading.                                                            *)
Updated(t) ==
  LET m == meter[device[t].evse] IN
  /\ device[t].state = "running"
  /\ entry # None
  /\ LET n == m - entry.start
         s == entry.session IN
     /\ rows' = Sampled(entry.id, m)
     /\ entry' = [entry EXCEPT !.delivered = n]
     /\ session' = IF s # None /\ session[s].status = "started"
                   THEN [session EXCEPT ![s].energy = n] ELSE session
     /\ stopping' = (stopping \/ AtLimit(entry, n))
  /\ UNCHANGED <<balance, connectors, station, pending, starting, sending,
                 bounds>>

(* The transaction ends at the station: by itself, or told by the handler, *)
(* which names the entry's transaction, or else sends a number the station *)
(* does not know.                                                          *)
StationEnds(t) ==
  /\ device[t].state = "running"
  /\ device' = [device EXCEPT ![t].state = "ended"]
  /\ UNCHANGED <<balance, session, connectors, meter, asked, rows, pending,
                 entry, requests, bounds>>

RequestStop ==
  /\ stopping /\ stopping' = FALSE
  /\ device' = IF entry # None /\ entry.tx # 0 /\ device[entry.tx].state = "running"
               THEN [device EXCEPT ![entry.tx].state = "ended"] ELSE device
  /\ UNCHANGED <<balance, session, connectors, meter, asked, rows, pending,
                 entry, starting, sending, bounds>>

(* The last reading: the event's, or, without one, what memory says of the *)
(* last transaction of the station.                                        *)
LastReading(t, reading) ==
  IF reading /\ meter[device[t].evse] # 0 THEN meter[device[t].evse]
  ELSE IF entry = None THEN 0 ELSE entry.start + entry.delivered

(* _finalize_charging_session: what the cost exceeds the reservation by is *)
(* charged whether the balance covers it or not.                           *)
Finalize_Unguarded(s, n) ==
  /\ balance' = [balance EXCEPT ![Client[s]] = @ + Reserve[s] - n * Price]
  /\ session' = [session EXCEPT
       ![s].status = "stopped", ![s].energy = n, ![s].amount = n * Price,
       ![s].processed = TRUE,
       ![s].paid = @ - Reserve[s] + n * Price]
Finalize_Twice(s, n) ==
  IF session[s].processed THEN UNCHANGED <<balance, session>>
  ELSE /\ balance' = [balance EXCEPT ![Client[s]] = @ - n * Price]
       /\ session' = [session EXCEPT
            ![s].status = "stopped", ![s].energy = n, ![s].amount = n * Price,
            ![s].processed = TRUE,
            ![s].paid = @ + n * Price]
Finalize_NoEnergy(s, n) ==
  IF session[s].processed \/ n = 0 THEN UNCHANGED <<balance, session>>
  ELSE /\ balance' = [balance EXCEPT ![Client[s]] = @ + Reserve[s] - n * Price]
       /\ session' = [session EXCEPT
            ![s].status = "stopped", ![s].energy = n, ![s].amount = n * Price,
            ![s].processed = TRUE,
            ![s].paid = @ - Reserve[s] + n * Price]
Finalize(s, n) ==
  IF session[s].processed THEN UNCHANGED <<balance, session>>
  ELSE /\ balance' = [balance EXCEPT ![Client[s]] = @ + Reserve[s] - n * Price]
       /\ session' = [session EXCEPT
            ![s].status = "stopped", ![s].energy = n, ![s].amount = n * Price,
            ![s].processed = TRUE,
            ![s].paid = @ - Reserve[s] + n * Price]

(* stop_transaction looks for an open row with the number; without one     *)
(* nothing is settled.                                                     *)
OpenRows(t) == {r \in DOMAIN rows : rows[r].id = Numeric(t) /\ rows[r].stop = None}

(* The connector that is freed is the row's, open or not, or the entry's.  *)
Freed_Entry(t) == IF entry # None THEN entry.evse ELSE None
Freed(t) ==
  IF \E r \in DOMAIN rows : rows[r].id = Numeric(t) THEN device[t].evse
  ELSE IF entry # None THEN entry.evse ELSE None

TransactionEnded(t, reading) ==
  LET m == LastReading(t, reading)
      r == Earliest(OpenRows(t))
      c == Freed(t)
  IN
  /\ IF OpenRows(t) = {} THEN UNCHANGED <<balance, session, rows>>
     ELSE /\ rows' = [rows EXCEPT ![r].stop = m]
          /\ IF rows[r].session = None THEN UNCHANGED <<balance, session>>
             ELSE Finalize(rows[r].session, m - rows[r].start)
  /\ connectors' = IF c = None THEN connectors
                   ELSE [connectors EXCEPT ![c] = "available"]
  /\ entry' = None

(* An Ended whose answer is lost is sent again. *)
Ended(t, reading, answered) ==
  /\ device[t].state = "ended"
  /\ answered \/ faults < MaxFaults
  /\ faults' = IF answered THEN faults ELSE faults + 1
  /\ TransactionEnded(t, reading)
  /\ device' = IF answered THEN [device EXCEPT ![t].state = "over"] ELSE device
  /\ UNCHANGED <<meter, asked, pending, requests, run>>

----------------------------------------------------------------------------
(* The client, the job and the station end sessions *)

ActualEnergy(s) ==
  IF session[s].energy > 0 THEN session[s].energy
  ELSE IF RowsOf(s) = {} THEN 0
  ELSE LET x == rows[Latest(RowsOf(s))] IN
       IF x.sampled # None THEN x.sampled - x.start
       ELSE IF x.stop # None THEN x.stop - x.start ELSE 0

(* calculate_refund_or_charge: here the balance is the limit. *)
Charge(s, cost) ==
  IF cost <= Reserve[s] THEN cost - Reserve[s]
  ELSE IF balance[Client[s]] <= 0 THEN 0
  ELSE Least(cost - Reserve[s], balance[Client[s]])

(* stop_charging_session up to its commit, for the client or the job. *)
StopSession(s) ==
  LET n == ActualEnergy(s)
      more == Charge(s, n * Price) IN
  /\ session[s].status = "started"
  /\ balance' = [balance EXCEPT ![Client[s]] = @ - more]
  /\ session' = [session EXCEPT
       ![s].status = "stopped", ![s].energy = n, ![s].amount = n * Price,
       ![s].processed = TRUE, ![s].paid = @ + more]
  /\ connectors' = [connectors EXCEPT ![session[s].evse] = "available"]
  /\ sending' = sending \cup {s}
  /\ UNCHANGED <<station, rows, pending, entry, starting, stopping, bounds>>

SendStop(s, delivered) ==
  /\ s \in sending
  /\ sending' = sending \ {s}
  /\ stopping' = (stopping \/ (delivered /\ RowsOf(s) # {}))
  /\ UNCHANGED <<balance, session, connectors, station, rows, pending, entry,
                 starting, bounds>>

(* on_boot_notification: sessions without a transaction end in error and   *)
(* get their amount back, and if there was one all occupied connectors are *)
(* freed.                                                                  *)
Unstarted == {s \in Sessions : session[s].status = "started" /\ ~session[s].linked}

Refund(k) ==
  LET S == {s \in Unstarted : Client[s] = k} IN
  IF S = {} THEN 0 ELSE session[CHOOSE s \in S : TRUE].amount

BootNotification ==
  /\ faults < MaxFaults
  /\ faults' = faults + 1
  /\ session' = [s \in Sessions |->
       IF s \in Unstarted
       THEN [session[s] EXCEPT !.status = "error", !.energy = 0, !.amount = 0,
                               !.paid = @ - session[s].amount]
       ELSE session[s]]
  /\ balance' = [k \in Clients |-> balance[k] + Refund(k)]
  /\ connectors' = [c \in EVSEs |->
       IF Unstarted # {} /\ connectors[c] = "occupied"
       THEN "available" ELSE connectors[c]]
  /\ asked' = [c \in EVSEs |-> None]
  /\ UNCHANGED <<device, meter, rows, pending, entry, requests, run>>

----------------------------------------------------------------------------
(* Failures *)

Disconnect ==
  /\ faults < MaxFaults /\ faults' = faults + 1
  /\ entry' = None /\ stopping' = FALSE
  /\ UNCHANGED <<balance, session, connectors, station, rows, pending,
                 starting, sending, run>>

(* A graceful shutdown saves the memory, a crash does not. *)
NewProcess(saved) ==
  /\ faults < MaxFaults /\ faults' = faults + 1
  /\ run' = run + 1
  /\ starting' = {} /\ sending' = {} /\ stopping' = FALSE
  /\ entry' = IF saved THEN entry ELSE None

Restart(saved) ==
  /\ NewProcess(saved)
  /\ UNCHANGED <<balance, session, connectors, station, rows, pending>>

(* ... between the two commits of a Started or of an Ended. *)
CrashInStarted(c, k) ==
  /\ Plugs(c, k)
  /\ RecordStarted(Len(device) + 1, c, k, meter[c])
  /\ NewProcess(FALSE)
  /\ UNCHANGED <<balance, connectors>>

CrashInEnded(t, reading) ==
  /\ device[t].state = "ended" /\ OpenRows(t) # {}
  /\ rows' = [rows EXCEPT ![Earliest(OpenRows(t))].stop = LastReading(t, reading)]
  /\ NewProcess(FALSE)
  /\ UNCHANGED <<balance, session, connectors, station, pending>>

----------------------------------------------------------------------------

Next ==
  \/ \E s \in Sessions :
       \/ \E c \in EVSEs : StartSession(s, c)
       \/ \E d \in BOOLEAN : RequestStart(s, d) \/ SendStop(s, d)
       \/ StopSession(s)
  \/ \E c \in EVSEs :
       \/ PendingExpires(c) \/ Deliver(c)
       \/ \E v \in ConnectorStatus : StatusNotification(c, v)
       \/ \E k \in Clients : Started(c, k) \/ CrashInStarted(c, k)
  \/ \E t \in DOMAIN device :
       \/ RepeatStarted(t) \/ Updated(t) \/ StationEnds(t)
       \/ \E b \in FinalReading :
            \/ \E a \in BOOLEAN : Ended(t, b, a)
            \/ CrashInEnded(t, b)
  \/ RequestStop
  \/ BootNotification
  \/ Disconnect
  \/ \E saved \in BOOLEAN : Restart(saved)

Spec == Init /\ [][Next]_vars

----------------------------------------------------------------------------
(* Properties *)

(* The type of the tables and of what is in memory. *)
TypeOK ==
  /\ balance \in [Clients -> Int]
  /\ session \in [Sessions -> SessionRows]
  /\ connectors \in [EVSEs -> ConnectorStatus]
  /\ device \in Seq(DeviceTransactions)
  /\ meter \in [EVSEs -> 0..MaxMeter]
  /\ rows \in Seq(TransactionRows)
  /\ pending \in [EVSEs -> Sessions \cup {None}]
  /\ asked \in [EVSEs -> Clients \cup {None}]
  /\ entry \in Entries \cup {None}
  /\ starting \subseteq Sessions /\ sending \subseteq Sessions
  /\ stopping \in BOOLEAN
  /\ run \in 0..faults /\ faults \in 0..MaxFaults

(* A session that has been settled by the client, the job or an Ended      *)
(* keeps its figures and its money: no later, repeated or re-linked event  *)
(* of any transaction touches either.                                      *)
SettledIsFrozen ==
  [][\A s \in Sessions : session[s].processed =>
       \A f \in {"status", "energy", "amount", "processed", "paid"} :
         session'[s][f] = session[s][f]]_vars

(* Nobody pays for a session more than the amount its row shows, and only  *)
(* a balance that does not suffice makes it less.                          *)
PaidAsShown ==
  \A s \in Sessions :
    session[s].processed => session[s].paid <= session[s].amount

(* A connector is shown as occupied only while a session that was started  *)
(* on it is open, or a transaction whose Ended is still to be answered.    *)
(* Two things leave it so for ever: a restart in between, since the Ended  *)
(* then has another number, and a transaction on another EVSE that was     *)
(* given the session, since its Ended frees that other one.                *)
OccupiedForAReason ==
  \A c \in EVSEs : connectors[c] = "occupied" =>
    \/ \E s \in Sessions : session[s].status = "started" /\ session[s].evse = c
    \/ RunningAt(c) # {}
    \/ \E r \in DOMAIN rows : rows[r].evse = c /\ rows[r].id[2] # run
    \/ \E r \in DOMAIN rows : /\ rows[r].session # None /\ rows[r].evse # c
                             /\ session[rows[r].session].evse = c

(* An answered Ended has ended the session of its transaction, if the      *)
(* process that answers is the one that stored its Started, once.          *)
EndedSettles ==
  [][\A t \in DOMAIN device :
       LET R == {r \in DOMAIN rows : rows[r].id[1] = t} IN
       /\ device[t].state = "ended" /\ device'[t].state = "over"
       /\ Cardinality(R) = 1
       => \A r \in R : rows[r].id[2] = run /\ rows[r].session # None
            => session'[rows[r].session].status # "started"]_vars
=============================================================================
