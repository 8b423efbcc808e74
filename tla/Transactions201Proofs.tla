------------------------- MODULE Transactions201Proofs -------------------------
(***************************************************************************)
(* For every set of clients, sessions and EVSEs, every reservation and     *)
(* price, and every bound: the tables keep their types, a settled session  *)
(* is frozen and costs no more than it shows, and an answered Ended has    *)
(* ended its session.                                                      *)
(***************************************************************************)
EXTENDS Transactions201, WellFoundedInduction, FiniteSetTheorems, TLAPS

(* Of naturals up to n there is a greatest one: the furthest below n is    *)
(* the least of the distances.                                             *)
LEMMA GreatestExists ==
  ASSUME NEW n \in Nat, NEW T, T \subseteq 0..n, T # {}
  PROVE  \E x \in T : \A y \in T : y <= x
<1> DEFINE S == {n - t : t \in T}
<1>1. S \subseteq Nat /\ S # {}
  <2>1. \A t \in T : t \in Nat /\ t <= n /\ n - t \in Nat
    OBVIOUS
  <2>2. PICK t \in T : TRUE
    OBVIOUS
  <2> QED BY <2>1, <2>2
<1>2. PICK x \in S : \A y \in S : ~ (<<y, x>> \in OpToRel(<, Nat))
  BY <1>1, NatLessThanWellFounded, WFMin
<1>3. PICK m \in T : x = n - m
  BY <1>2
<1>4. \A u \in T : u <= m
  <2> TAKE u \in T
  <2>1. n - u \in S /\ n - u \in Nat /\ n - m \in Nat /\ m \in Nat /\ u \in Nat
    BY <1>1
  <2>2. ~ (n - u < n - m)
    BY <1>2, <1>3, <2>1 DEF OpToRel
  <2> QED BY <2>1, <2>2
<1> QED BY <1>4

(* The first and the last of a non-empty set of rows are in it. *)
LEMMA EarliestFacts ==
  ASSUME NEW T, T \subseteq Nat, T # {}
  PROVE  Earliest(T) \in T
<1>1. PICK x \in T : \A y \in T : ~ (<<y, x>> \in OpToRel(<, Nat))
  BY NatLessThanWellFounded, WFMin
<1>2. \A y \in T : x \in Nat /\ y \in Nat /\ ~ (y < x)
  BY <1>1 DEF OpToRel
<1>3. \A y \in T : x <= y
  BY <1>2
<1> QED BY <1>3 DEF Earliest

LEMMA LatestFacts ==
  ASSUME NEW n \in Nat, NEW T, T \subseteq 1..n, T # {}
  PROVE  Latest(T) \in T
<1>1. T \subseteq 0..n
  OBVIOUS
<1> QED BY <1>1, GreatestExists DEF Latest

----------------------------------------------------------------------------
(* The inductive invariant *)

(* A session that was settled is stopped; what was paid before is the      *)
(* reservation or less.                                                    *)
Sums ==
  \A s \in Sessions :
    /\ session[s].processed =>
         session[s].status = "stopped" /\ session[s].paid <= session[s].amount
    /\ ~session[s].processed => session[s].paid <= Reserve[s]
    /\ session[s].status = "started" => session[s].amount >= 0

(* Only sessions that have begun are named by pending keys and rows. *)
Begun ==
  /\ \A c \in EVSEs : pending[c] # None => session[pending[c]].status # "none"
  /\ \A s \in starting : session[s].status # "none"
  /\ \A r \in DOMAIN rows :
       rows[r].session # None => session[rows[r].session].status # "none"

(* A row that the running process has closed has ended its session. *)
Closed ==
  \A r \in DOMAIN rows :
    /\ rows[r].id[2] <= run
    /\ rows[r].id[2] = run /\ rows[r].stop # None /\ rows[r].session # None =>
         session[rows[r].session].status # "started"

Inv == TypeOK /\ Len(device) <= MaxTx /\ Sums /\ Begun /\ Closed

----------------------------------------------------------------------------
(* What the helpers return *)

LEMMA Constants ==
  /\ Client \in [Sessions -> Clients]
  /\ \A s \in Sessions : Client[s] \in Clients /\ Reserve[s] \in Nat /\ Reserve[s] > 0
  /\ Funds \in [Clients -> Nat]
  /\ Price \in Nat /\ FinalReading \subseteq BOOLEAN
  /\ None \notin Sessions /\ None \notin Clients /\ None \notin EVSEs
  /\ MaxTx \in Nat /\ MaxMeter \in Nat /\ MaxFaults \in Nat
BY StationAssumption

LEMMA RowFacts ==
  ASSUME TypeOK
  PROVE  /\ Len(rows) \in Nat /\ DOMAIN rows = 1..Len(rows)
         /\ \A r \in DOMAIN rows :
              /\ rows[r] \in TransactionRows
              /\ rows[r].id \in (1..MaxTx) \X (0..MaxFaults)
              /\ rows[r].session \in Sessions \cup {None}
              /\ rows[r].evse \in EVSEs /\ rows[r].start \in Nat
              /\ rows[r].stop \in Int \cup {None}
              /\ rows[r].sampled \in Nat \cup {None}
<1>1. rows \in Seq(TransactionRows)
  BY DEF TypeOK
<1>2. Len(rows) \in Nat /\ DOMAIN rows = 1..Len(rows)
      /\ \A r \in DOMAIN rows : rows[r] \in TransactionRows
  BY <1>1
<1> QED BY <1>2 DEF TransactionRows

LEMMA DeviceFacts ==
  ASSUME TypeOK
  PROVE  /\ Len(device) \in Nat /\ DOMAIN device = 1..Len(device)
         /\ \A t \in DOMAIN device :
              /\ device[t] \in DeviceTransactions
              /\ device[t].evse \in EVSEs /\ device[t].tag \in Clients
              /\ device[t].start \in Nat
              /\ device[t].state \in {"running", "ended", "over"}
<1>1. device \in Seq(DeviceTransactions)
  BY DEF TypeOK
<1>2. Len(device) \in Nat /\ DOMAIN device = 1..Len(device)
      /\ \A t \in DOMAIN device : device[t] \in DeviceTransactions
  BY <1>1
<1> QED BY <1>2 DEF DeviceTransactions

LEMMA SessionFacts ==
  ASSUME TypeOK
  PROVE  \A s \in Sessions :
           /\ session[s] \in SessionRows
           /\ session[s].energy \in Int /\ session[s].amount \in Int
           /\ session[s].paid \in Int /\ session[s].processed \in BOOLEAN
           /\ session[s].evse \in EVSEs \cup {None}
           /\ session[s].status \in {"none", "started", "stopped", "error"}
BY DEF TypeOK, SessionRows

(* A row of the table is replaced by another one. *)
LEMMA RowChange ==
  ASSUME TypeOK, NEW r \in DOMAIN rows, NEW x \in TransactionRows,
         rows' = [rows EXCEPT ![r] = x]
  PROVE  /\ rows' \in Seq(TransactionRows) /\ DOMAIN rows' = DOMAIN rows
         /\ \A q \in DOMAIN rows : rows'[q] = IF q = r THEN x ELSE rows[q]
<1>1. rows \in Seq(TransactionRows)
  BY DEF TypeOK
<1> QED BY <1>1

LEMMA RowAdded ==
  ASSUME TypeOK, NEW x \in TransactionRows, rows' = Append(rows, x)
  PROVE  /\ rows' \in Seq(TransactionRows)
         /\ DOMAIN rows' = DOMAIN rows \cup {Len(rows) + 1}
         /\ \A q \in DOMAIN rows : rows'[q] = rows[q]
         /\ rows'[Len(rows) + 1] = x
<1>1. rows \in Seq(TransactionRows)
  BY DEF TypeOK
<1> QED BY <1>1

LEMMA DeviceChange ==
  ASSUME TypeOK, NEW t \in DOMAIN device, NEW v \in {"running", "ended", "over"},
         device' = [device EXCEPT ![t].state = v]
  PROVE  /\ device' \in Seq(DeviceTransactions) /\ Len(device') = Len(device)
<1>1. device \in Seq(DeviceTransactions)
  BY DEF TypeOK
<1>2. [device[t] EXCEPT !.state = v] \in DeviceTransactions
  BY DeviceFacts DEF DeviceTransactions
<1>3. device' = [device EXCEPT ![t] = [device[t] EXCEPT !.state = v]]
  BY <1>1
<1> QED BY <1>1, <1>2, <1>3

LEMMA SessionForFacts ==
  ASSUME TypeOK, NEW c \in EVSEs, NEW k \in Clients
  PROVE  /\ SessionFor(c, k) \in Sessions \cup {None}
         /\ SessionFor(c, k) # None =>
              \/ pending[c] # None /\ SessionFor(c, k) = pending[c]
              \/ session[SessionFor(c, k)].status = "started"
<1>1. pending[c] \in Sessions \cup {None}
  BY DEF TypeOK
<1>2. CASE pending[c] # None
  BY <1>1, <1>2 DEF SessionFor
<1>3. CASE pending[c] = None /\ StartedOf(k) = {}
  BY <1>3 DEF SessionFor
<1>4. CASE pending[c] = None /\ StartedOf(k) # {}
  <2>1. SessionFor(c, k) \in StartedOf(k)
    BY <1>4 DEF SessionFor
  <2> QED BY <2>1 DEF StartedOf
<1> QED BY <1>2, <1>3, <1>4

LEMMA OpenRowsFacts ==
  ASSUME TypeOK, NEW t, OpenRows(t) # {}
  PROVE  Earliest(OpenRows(t)) \in OpenRows(t)
<1>1. OpenRows(t) \subseteq DOMAIN rows
  BY DEF OpenRows
<1>2. DOMAIN rows \subseteq Nat
  BY RowFacts
<1>3. OpenRows(t) \subseteq Nat
  BY <1>1, <1>2
<1> QED BY <1>3, EarliestFacts

LEMMA CostFacts ==
  ASSUME NEW n \in Int
  PROVE  n * Price \in Int
BY Constants

LEMMA ActualEnergyFacts ==
  ASSUME TypeOK, NEW s \in Sessions
  PROVE  ActualEnergy(s) \in Int
<1>1. session[s].energy \in Int
  BY SessionFacts
<1>2. CASE session[s].energy > 0
  BY <1>1, <1>2 DEF ActualEnergy
<1>3. CASE ~ (session[s].energy > 0) /\ RowsOf(s) = {}
  BY <1>3 DEF ActualEnergy
<1>4. CASE ~ (session[s].energy > 0) /\ RowsOf(s) # {}
  <2>1. Latest(RowsOf(s)) \in RowsOf(s)
    BY <1>4, RowFacts, LatestFacts DEF RowsOf
  <2> DEFINE x == rows[Latest(RowsOf(s))]
  <2>2. /\ x.start \in Nat /\ x.stop \in Int \cup {None}
        /\ x.sampled \in Nat \cup {None}
    BY <2>1, RowFacts DEF RowsOf
  <2>3. ActualEnergy(s) = IF x.sampled # None THEN x.sampled - x.start
                          ELSE IF x.stop # None THEN x.stop - x.start ELSE 0
    BY <1>4 DEF ActualEnergy
  <2> HIDE DEF x
  <2> QED BY <2>2, <2>3
<1> QED BY <1>2, <1>3, <1>4

LEMMA LastReadingFacts ==
  ASSUME TypeOK, NEW t \in DOMAIN device, NEW reading \in BOOLEAN
  PROVE  LastReading(t, reading) \in Int
<1>1. meter[device[t].evse] \in Nat
  BY DeviceFacts, Constants DEF TypeOK
<1>2. entry # None => entry.start \in Nat /\ entry.delivered \in Int
  BY DEF TypeOK, Entries
<1> QED BY <1>1, <1>2 DEF LastReading

(* What is charged on top of the reservation does not exceed the cost. *)
LEMMA ChargeFacts ==
  ASSUME TypeOK, NEW s \in Sessions, NEW cost \in Int
  PROVE  Charge(s, cost) \in Int /\ Charge(s, cost) <= cost - Reserve[s]
<1>1. balance[Client[s]] \in Int /\ Reserve[s] \in Nat
  BY Constants DEF TypeOK
<1> QED BY <1>1 DEF Charge, Least

----------------------------------------------------------------------------
(* One step *)

(* Sessions go from none to started to their end, and never back. *)
Onward ==
  \A s \in Sessions :
    /\ session[s].status # "none" => session'[s].status # "none"
    /\ session[s].status \in {"stopped", "error"} => session'[s].status # "started"

LEMMA OnwardKeeps ==
  ASSUME Inv, Onward, UNCHANGED <<rows, run>>,
         \A c \in EVSEs : pending'[c] \in {None, pending[c]},
         starting' \subseteq starting
  PROVE  Begun' /\ Closed'
<1>1. \A r \in DOMAIN rows : rows[r].session \in Sessions \cup {None}
  BY RowFacts DEF Inv
<1>2. \A c \in EVSEs : pending[c] \in Sessions \cup {None}
  BY DEF Inv, TypeOK
<1>3. starting \subseteq Sessions
  BY DEF Inv, TypeOK
<1>4. \A s \in Sessions : session[s].status \in {"none", "started", "stopped", "error"}
  BY SessionFacts DEF Inv
<1>5. Begun'
  BY <1>1, <1>2, <1>3 DEF Inv, Begun, Onward
<1>6. Closed'
  BY <1>1, <1>4 DEF Inv, Begun, Closed, Onward
<1> QED BY <1>5, <1>6

LEMMA Untouched ==
  ASSUME Inv, UNCHANGED <<session, rows, run>>,
         \A c \in EVSEs : pending'[c] \in {None, pending[c]},
         starting' \subseteq starting
  PROVE  Sums' /\ Begun' /\ Closed'
<1>1. Onward
  BY DEF Onward
<1>2. Sums'
  BY DEF Inv, Sums
<1> QED BY <1>1, <1>2, OnwardKeeps

LEMMA StartSessionStep ==
  ASSUME Inv, NEW s \in Sessions, NEW c \in EVSEs, StartSession(s, c)
  PROVE  Inv'
<1>0. /\ session[s].status = "none" /\ CreateSession(s, c)
      /\ connectors' = [connectors EXCEPT ![c] = "occupied"]
      /\ starting' = starting \cup {s}
      /\ UNCHANGED <<device, meter, asked, rows, pending, entry, sending, stopping, run, faults>>
  BY DEF StartSession, station, bounds
<1>1. Reserve[s] \in Nat /\ Client[s] \in Clients /\ TypeOK
  BY Constants DEF Inv
<1>2. balance' \in [Clients -> Int]
  BY <1>0, <1>1 DEF CreateSession, TypeOK
<1>3. session' \in [Sessions -> SessionRows]
  <2> DEFINE x == [session[s] EXCEPT !.status = "started", !.evse = c,
                                     !.amount = Reserve[s], !.paid = Reserve[s]]
  <2>1. x \in SessionRows
    <3> DEFINE y == session[s]
    <3>1. y \in SessionRows /\ Reserve[s] \in Int
      BY <1>1, SessionFacts
    <3> HIDE DEF y
    <3>2. [y EXCEPT !.status = "started", !.evse = c,
                    !.amount = Reserve[s], !.paid = Reserve[s]] \in SessionRows
      BY <3>1 DEF SessionRows
    <3> QED BY <3>2 DEF y
  <2>2. session \in [Sessions -> SessionRows]
    BY <1>1 DEF TypeOK
  <2>3. session' = [session EXCEPT ![s] = x]
    BY <1>0, <2>2 DEF CreateSession, SessionRows
  <2> HIDE DEF x
  <2> QED BY <2>1, <2>2, <2>3
<1>4. connectors' \in [EVSEs -> ConnectorStatus]
  BY <1>0, <1>1 DEF TypeOK, ConnectorStatus
<1>5. TypeOK'
  BY <1>0, <1>1, <1>2, <1>3, <1>4 DEF TypeOK
<1>6. /\ \A r \in Sessions \ {s} : session'[r] = session[r]
      /\ session'[s].status = "started" /\ session'[s].amount = Reserve[s]
      /\ session'[s].paid = Reserve[s] /\ session'[s].processed = session[s].processed
  BY <1>0, <1>1, SessionFacts DEF CreateSession, TypeOK
<1>7. Sums'
  BY <1>0, <1>1, <1>6 DEF Inv, Sums
<1>8. Onward
  BY <1>0, <1>6 DEF Onward
<1>9. Begun'
  <2>1. \A c1 \in EVSEs : pending[c1] \in Sessions \cup {None}
    BY <1>1 DEF TypeOK
  <2>2. \A r \in DOMAIN rows : rows[r].session \in Sessions \cup {None}
    BY <1>1, RowFacts
  <2>3. starting \subseteq Sessions
    BY <1>1 DEF TypeOK
  <2> QED BY <1>0, <1>6, <1>8, <2>1, <2>2, <2>3 DEF Inv, Begun, Onward
<1>10. Closed'
  <2>1. \A r \in DOMAIN rows :
          rows[r].session # None => rows[r].session \in Sessions \ {s}
    BY <1>0, <1>1, RowFacts DEF Inv, Begun
  <2> QED BY <1>0, <1>6, <2>1 DEF Inv, Closed
<1> QED BY <1>0, <1>5, <1>7, <1>9, <1>10 DEF Inv

LEMMA RequestStartStep ==
  ASSUME Inv, NEW s \in Sessions, NEW delivered \in BOOLEAN, RequestStart(s, delivered)
  PROVE  Inv'
<1> DEFINE c == session[s].evse
           e == [tx |-> 0, id |-> None, session |-> s, evse |-> None,
                 start |-> 0, delivered |-> 0]
<1>0. /\ s \in starting /\ starting' = starting \ {s}
      /\ pending' = [pending EXCEPT ![c] = s]
      /\ asked' = IF delivered THEN [asked EXCEPT ![c] = Client[s]] ELSE asked
      /\ entry' = IF delivered THEN e ELSE entry
      /\ UNCHANGED <<balance, session, connectors, device, meter, rows, sending, stopping, run, faults>>
  BY DEF RequestStart, bounds
<1>1. TypeOK /\ Client[s] \in Clients
  BY Constants DEF Inv
<1>2. e \in Entries
  BY Constants DEF Entries
<1>3. pending' \in [EVSEs -> Sessions \cup {None}]
      /\ asked' \in [EVSEs -> Clients \cup {None}]
      /\ entry' \in Entries \cup {None}
  BY <1>0, <1>1, <1>2 DEF TypeOK
<1>4. TypeOK'
  BY <1>0, <1>1, <1>3 DEF TypeOK
<1>5. Sums' /\ Closed'
  BY <1>0 DEF Inv, Sums, Closed
<1>6. \A c1 \in EVSEs : pending'[c1] = pending[c1] \/ pending'[c1] = s
  BY <1>0, <1>1 DEF TypeOK
<1>7. Begun'
  BY <1>0, <1>6 DEF Inv, Begun
<1> QED BY <1>0, <1>4, <1>5, <1>7 DEF Inv

LEMMA PendingExpiresStep ==
  ASSUME Inv, NEW c \in EVSEs, PendingExpires(c)
  PROVE  Inv'
<1>0. /\ pending' = [pending EXCEPT ![c] = None]
      /\ UNCHANGED <<balance, session, connectors, device, meter, asked, rows, entry,
                     starting, sending, stopping, run, faults>>
  BY DEF PendingExpires, station, requests, bounds
<1>1. TypeOK' /\ \A c1 \in EVSEs : pending'[c1] \in {None, pending[c1]}
  BY <1>0 DEF Inv, TypeOK
<1> QED BY <1>0, <1>1, Untouched DEF Inv

LEMMA StatusNotificationStep ==
  ASSUME Inv, NEW c \in EVSEs, NEW v \in ConnectorStatus, StatusNotification(c, v)
  PROVE  Inv'
<1>0. /\ connectors' = [connectors EXCEPT ![c] = v]
      /\ v \in Troubles => faults < MaxFaults
      /\ faults' = faults + (IF v \in Troubles THEN 1 ELSE 0)
      /\ UNCHANGED <<balance, session, device, meter, asked, rows, pending, entry,
                     starting, sending, stopping, run>>
  BY DEF StatusNotification, station, requests
<1>1. TypeOK /\ MaxFaults \in Nat
  BY Constants DEF Inv
<1>2. connectors' \in [EVSEs -> ConnectorStatus]
  BY <1>0, <1>1 DEF TypeOK
<1>3. faults' \in 0..MaxFaults /\ run' \in 0..faults'
  BY <1>0, <1>1 DEF TypeOK
<1>4. TypeOK'
  BY <1>0, <1>1, <1>2, <1>3 DEF TypeOK
<1> QED BY <1>0, <1>4, Untouched DEF Inv

(* What a Started stores keeps the invariant, whoever answers it. *)
LEMMA RecordStartedFacts ==
  ASSUME Inv, NEW t \in 1..MaxTx, NEW c \in EVSEs, NEW k \in Clients, NEW m \in Nat,
         RecordStarted(t, c, k, m), run' \in run..(run + 1), starting' \subseteq starting
  PROVE  /\ rows' \in Seq(TransactionRows)
         /\ session' \in [Sessions -> SessionRows]
         /\ pending' \in [EVSEs -> Sessions \cup {None}]
         /\ Sums' /\ Begun' /\ Closed'
<1> DEFINE s == SessionFor(c, k)
           x == [id |-> Numeric(t), session |-> s, evse |-> c, start |-> m,
                 stop |-> None, sampled |-> None]
<1>0. /\ rows' = Append(rows, x)
      /\ session' = IF s = None THEN session ELSE [session EXCEPT ![s].linked = TRUE]
      /\ pending' = [pending EXCEPT ![c] = None]
  BY DEF RecordStarted
<1>1. TypeOK /\ run \in 0..MaxFaults
  BY Constants DEF Inv, TypeOK
<1>2. s \in Sessions \cup {None} /\ (s # None => session[s].status # "none")
  BY <1>1, SessionForFacts DEF Inv, Begun
<1>3. x \in TransactionRows /\ x.session = s /\ x.id[2] = run /\ x.stop = None
  BY <1>1, <1>2 DEF TransactionRows, Numeric
<1> HIDE DEF s, x
<1>4. /\ rows' \in Seq(TransactionRows)
      /\ DOMAIN rows' = DOMAIN rows \cup {Len(rows) + 1}
      /\ \A q \in DOMAIN rows : rows'[q] = rows[q]
      /\ rows'[Len(rows) + 1] = x
  BY <1>0, <1>1, <1>3, RowAdded
<1>5. session' \in [Sessions -> SessionRows]
  BY <1>0, <1>1, <1>2, SessionFacts DEF TypeOK, SessionRows
<1>6. \A r \in Sessions :
        /\ session'[r].status = session[r].status
        /\ session'[r].processed = session[r].processed
        /\ session'[r].paid = session[r].paid /\ session'[r].amount = session[r].amount
  BY <1>0, <1>1, <1>2, SessionFacts DEF TypeOK
<1>7. pending' \in [EVSEs -> Sessions \cup {None}]
      /\ \A c1 \in EVSEs : pending'[c1] \in {None, pending[c1]}
  BY <1>0, <1>1 DEF TypeOK
<1>8. Sums'
  BY <1>6 DEF Inv, Sums
<1>9. \A q \in DOMAIN rows : rows[q].session \in Sessions \cup {None}
                              /\ rows[q].id[2] \in Nat
  BY <1>1, RowFacts
<1>10. \A q \in DOMAIN rows' : (q \in DOMAIN rows /\ rows'[q] = rows[q]) \/ rows'[q] = x
  BY <1>4
<1>11. Begun'
  <2>1. \A c1 \in EVSEs : pending[c1] \in Sessions \cup {None}
    BY <1>1 DEF TypeOK
  <2>2. starting \subseteq Sessions
    BY <1>1 DEF TypeOK
  <2>3. \A c1 \in EVSEs : pending'[c1] # None => session'[pending'[c1]].status # "none"
    BY <1>6, <1>7, <2>1 DEF Inv, Begun
  <2>4. \A r \in starting' : session'[r].status # "none"
    BY <1>6, <2>2 DEF Inv, Begun
  <2>5. \A q \in DOMAIN rows' :
          rows'[q].session # None => session'[rows'[q].session].status # "none"
    BY <1>2, <1>3, <1>6, <1>9, <1>10 DEF Inv, Begun
  <2> QED BY <2>3, <2>4, <2>5 DEF Begun
<1>12. Closed'
  <2> SUFFICES ASSUME NEW q \in DOMAIN rows'
               PROVE  /\ rows'[q].id[2] <= run'
                      /\ rows'[q].id[2] = run' /\ rows'[q].stop # None
                         /\ rows'[q].session # None =>
                           session'[rows'[q].session].status # "started"
    BY DEF Closed
  <2>1. CASE q \in DOMAIN rows /\ rows'[q] = rows[q]
    BY <1>1, <1>6, <1>9, <2>1 DEF Inv, Closed
  <2>2. CASE rows'[q] = x
    BY <1>1, <1>3, <2>2
  <2> QED BY <1>10, <2>1, <2>2
<1> QED BY <1>4, <1>5, <1>7, <1>8, <1>11, <1>12

LEMMA TransactionStartedFacts ==
  ASSUME Inv, NEW t \in 1..MaxTx, NEW c \in EVSEs, NEW k \in Clients, NEW m \in Nat,
         TransactionStarted(t, c, k, m)
  PROVE  entry' \in Entries /\ connectors' \in [EVSEs -> ConnectorStatus]
<1>1. TypeOK /\ run \in 0..MaxFaults
  BY Constants DEF Inv, TypeOK
<1>2. SessionFor(c, k) \in Sessions \cup {None}
  BY <1>1, SessionForFacts
<1>3. entry' \in Entries
  BY <1>1, <1>2, Constants DEF TransactionStarted, Entries, Numeric
<1>4. connectors' \in [EVSEs -> ConnectorStatus]
  BY <1>1 DEF TransactionStarted, TypeOK, ConnectorStatus
<1> QED BY <1>3, <1>4

LEMMA PlugsFacts ==
  ASSUME Inv, NEW c \in EVSEs, NEW k \in Clients, Plugs(c, k)
  PROVE  /\ device' \in Seq(DeviceTransactions) /\ Len(device') <= MaxTx
         /\ asked' \in [EVSEs -> Clients \cup {None}] /\ meter' = meter
         /\ Len(device) + 1 \in 1..MaxTx /\ meter[c] \in Nat
         /\ \A t \in DOMAIN device : t \in DOMAIN device' /\ device'[t] = device[t]
<1> DEFINE d == [evse |-> c, tag |-> k, start |-> meter[c], state |-> "running"]
<1>0. /\ Len(device) < MaxTx /\ device' = Append(device, d) /\ meter' = meter
      /\ asked' = IF asked[c] = k THEN [asked EXCEPT ![c] = None] ELSE asked
  BY DEF Plugs
<1>1. TypeOK /\ device \in Seq(DeviceTransactions) /\ MaxTx \in Nat /\ MaxMeter \in Nat
  BY Constants DEF Inv, TypeOK
<1>2. meter[c] \in Nat
  BY <1>1 DEF TypeOK
<1>3. d \in DeviceTransactions
  BY <1>2 DEF DeviceTransactions
<1> HIDE DEF d
<1>4. asked' \in [EVSEs -> Clients \cup {None}]
  BY <1>0, <1>1 DEF TypeOK
<1> QED BY <1>0, <1>1, <1>2, <1>3, <1>4

LEMMA NewProcessFacts ==
  ASSUME TypeOK, NEW saved \in BOOLEAN, NewProcess(saved)
  PROVE  /\ faults' \in 0..MaxFaults /\ run' \in 0..faults' /\ run' \in run..(run + 1)
         /\ run' = run + 1
         /\ starting' = {} /\ sending' = {} /\ stopping' \in BOOLEAN
         /\ entry' \in Entries \cup {None}
<1>1. faults \in 0..MaxFaults /\ run \in 0..faults /\ MaxFaults \in Nat
  BY Constants DEF TypeOK
<1>2. faults < MaxFaults /\ faults' = faults + 1 /\ run' = run + 1
  BY DEF NewProcess
<1>3. faults' \in 0..MaxFaults /\ run' \in 0..faults' /\ run' \in run..(run + 1)
  BY <1>1, <1>2
<1>4. starting' = {} /\ sending' = {} /\ stopping' \in BOOLEAN
  BY DEF NewProcess
<1>5. entry' \in Entries \cup {None}
  BY DEF NewProcess, TypeOK
<1> QED BY <1>2, <1>3, <1>4, <1>5

LEMMA StartedStep ==
  ASSUME Inv, NEW c \in EVSEs, NEW k \in Clients, Started(c, k)
  PROVE  Inv'
<1> DEFINE t == Len(device) + 1
<1>0. /\ Plugs(c, k) /\ TransactionStarted(t, c, k, meter[c])
      /\ UNCHANGED <<balance, starting, sending, stopping, run, faults>>
  BY DEF Started, requests, bounds
<1>1. TypeOK /\ run \in Int
  BY Constants DEF Inv, TypeOK
<1>2. /\ device' \in Seq(DeviceTransactions) /\ Len(device') <= MaxTx
      /\ asked' \in [EVSEs -> Clients \cup {None}] /\ meter' = meter
      /\ t \in 1..MaxTx /\ meter[c] \in Nat
  BY <1>0, PlugsFacts
<1>3. /\ rows' \in Seq(TransactionRows)
      /\ session' \in [Sessions -> SessionRows]
      /\ pending' \in [EVSEs -> Sessions \cup {None}]
      /\ Sums' /\ Begun' /\ Closed'
  <2>1. RecordStarted(t, c, k, meter[c]) /\ run' \in run..(run + 1)
    BY <1>0, <1>1 DEF TransactionStarted
  <2> HIDE DEF t
  <2> QED BY <1>0, <1>2, <2>1, RecordStartedFacts
<1>4. entry' \in Entries /\ connectors' \in [EVSEs -> ConnectorStatus]
  <2> HIDE DEF t
  <2> QED BY <1>0, <1>2, TransactionStartedFacts
<1>5. TypeOK'
  BY <1>0, <1>1, <1>2, <1>3, <1>4 DEF TypeOK
<1> QED BY <1>2, <1>3, <1>5 DEF Inv

LEMMA RepeatStartedStep ==
  ASSUME Inv, NEW t \in DOMAIN device, RepeatStarted(t)
  PROVE  Inv'
<1> DEFINE c == device[t].evse
           k == device[t].tag
           m == device[t].start
<1>0. /\ faults < MaxFaults /\ faults' = faults + 1
      /\ TransactionStarted(t, c, k, m)
      /\ UNCHANGED <<balance, device, meter, asked, starting, sending, stopping, run>>
  BY DEF RepeatStarted, station, requests
<1>1. TypeOK /\ run \in Int
  BY Constants DEF Inv, TypeOK
<1>2. c \in EVSEs /\ k \in Clients /\ m \in Nat /\ t \in 1..MaxTx
  BY <1>1, DeviceFacts, Constants DEF Inv
<1> HIDE DEF c, k, m
<1>3. /\ rows' \in Seq(TransactionRows)
      /\ session' \in [Sessions -> SessionRows]
      /\ pending' \in [EVSEs -> Sessions \cup {None}]
      /\ Sums' /\ Begun' /\ Closed'
  <2>1. RecordStarted(t, c, k, m) /\ run' \in run..(run + 1)
    BY <1>0, <1>1 DEF TransactionStarted
  <2> QED BY <1>0, <1>2, <2>1, RecordStartedFacts
<1>4. entry' \in Entries /\ connectors' \in [EVSEs -> ConnectorStatus]
  BY <1>0, <1>2, TransactionStartedFacts
<1>5. faults' \in 0..MaxFaults /\ run' \in 0..faults'
  BY <1>0, <1>1, Constants DEF TypeOK
<1>6. TypeOK'
  BY <1>0, <1>1, <1>3, <1>4, <1>5 DEF TypeOK
<1> QED BY <1>0, <1>3, <1>6 DEF Inv

LEMMA CrashInStartedStep ==
  ASSUME Inv, NEW c \in EVSEs, NEW k \in Clients, CrashInStarted(c, k)
  PROVE  Inv'
<1> DEFINE t == Len(device) + 1
<1>0. /\ Plugs(c, k) /\ RecordStarted(t, c, k, meter[c])
      /\ NewProcess(FALSE) /\ UNCHANGED <<balance, connectors>>
  BY DEF CrashInStarted
<1>1. TypeOK
  BY DEF Inv
<1>2. /\ device' \in Seq(DeviceTransactions) /\ Len(device') <= MaxTx
      /\ asked' \in [EVSEs -> Clients \cup {None}] /\ meter' = meter
      /\ t \in 1..MaxTx /\ meter[c] \in Nat
  BY <1>0, PlugsFacts
<1>3. /\ faults' \in 0..MaxFaults /\ run' \in 0..faults' /\ run' \in run..(run + 1)
      /\ starting' = {} /\ sending' = {} /\ stopping' \in BOOLEAN
      /\ entry' \in Entries \cup {None}
  BY <1>0, <1>1, NewProcessFacts
<1>4. /\ rows' \in Seq(TransactionRows)
      /\ session' \in [Sessions -> SessionRows]
      /\ pending' \in [EVSEs -> Sessions \cup {None}]
      /\ Sums' /\ Begun' /\ Closed'
  <2> HIDE DEF t
  <2> QED BY <1>0, <1>2, <1>3, RecordStartedFacts
<1>5. TypeOK'
  BY <1>0, <1>1, <1>2, <1>3, <1>4 DEF TypeOK
<1> QED BY <1>2, <1>4, <1>5 DEF Inv

LEMMA DeliverStep ==
  ASSUME Inv, NEW c \in EVSEs, Deliver(c)
  PROVE  Inv'
<1>0. /\ meter[c] < MaxMeter /\ meter' = [meter EXCEPT ![c] = @ + 1]
      /\ UNCHANGED <<balance, session, connectors, device, asked, rows, pending,
                     entry, starting, sending, stopping, run, faults>>
  BY DEF Deliver, requests, bounds
<1>1. meter' \in [EVSEs -> 0..MaxMeter]
  BY <1>0, Constants DEF Inv, TypeOK
<1>2. TypeOK'
  BY <1>0, <1>1 DEF Inv, TypeOK
<1> QED BY <1>0, <1>2, Untouched DEF Inv

(* The fields that samples leave alone are those the invariant is about. *)
LEMMA SampledFacts ==
  ASSUME Inv, NEW id, NEW m \in Nat, rows' = Sampled(id, m)
  PROVE  /\ rows' \in Seq(TransactionRows) /\ DOMAIN rows' = DOMAIN rows
         /\ \A r \in DOMAIN rows :
              /\ rows'[r].id = rows[r].id /\ rows'[r].session = rows[r].session
              /\ rows'[r].stop = rows[r].stop
<1> DEFINE R == {r \in DOMAIN rows : rows[r].id = id}
<1>0. TypeOK /\ rows \in Seq(TransactionRows)
  BY DEF Inv, TypeOK
<1>1. CASE id = None \/ R = {}
  BY <1>0, <1>1 DEF Sampled
<1>2. CASE ~ (id = None \/ R = {})
  <2>1. Latest(R) \in DOMAIN rows
    BY <1>0, <1>2, RowFacts, LatestFacts
  <2> DEFINE q == Latest(R)
             x == [rows[q] EXCEPT !.sampled = m]
  <2>2. rows' = [rows EXCEPT ![q].sampled = m]
    BY <1>2 DEF Sampled
  <2> HIDE DEF q
  <2>3. rows' = [rows EXCEPT ![q] = x]
    BY <1>0, <2>2
  <2>4. rows[q] \in TransactionRows
    BY <1>0, <2>1, RowFacts DEF q
  <2>5. /\ x \in TransactionRows /\ x.id = rows[q].id
        /\ x.session = rows[q].session /\ x.stop = rows[q].stop
    BY <2>4 DEF TransactionRows
  <2> HIDE DEF x
  <2>6. q \in DOMAIN rows
    BY <2>1 DEF q
  <2>7. /\ rows' \in Seq(TransactionRows) /\ DOMAIN rows' = DOMAIN rows
        /\ \A r \in DOMAIN rows : rows'[r] = IF r = q THEN x ELSE rows[r]
    BY <1>0, <2>3, <2>5, <2>6, RowChange
  <2> QED BY <2>5, <2>7
<1> QED BY <1>1, <1>2

LEMMA UpdatedStep ==
  ASSUME Inv, NEW t \in DOMAIN device, Updated(t)
  PROVE  Inv'
<1> DEFINE m == meter[device[t].evse]
           n == m - entry.start
           s == entry.session
<1>0. /\ entry # None /\ rows' = Sampled(entry.id, m)
      /\ entry' = [entry EXCEPT !.delivered = n]
      /\ session' = IF s # None /\ session[s].status = "started"
                    THEN [session EXCEPT ![s].energy = n] ELSE session
      /\ stopping' = (stopping \/ AtLimit(entry, n))
      /\ UNCHANGED <<balance, connectors, device, meter, asked, pending,
                     starting, sending, run, faults>>
  BY DEF Updated, station, bounds
<1>1. TypeOK
  BY DEF Inv
<1>2. entry \in Entries
  BY <1>0, <1>1 DEF TypeOK
<1>3. m \in Nat
  BY <1>1, DeviceFacts, Constants DEF TypeOK
<1>4. n \in Int /\ s \in Sessions \cup {None}
  BY <1>2, <1>3 DEF Entries
<1> HIDE DEF m, n, s
<1>5. entry' \in Entries
  BY <1>0, <1>2, <1>4 DEF Entries
<1>6. /\ rows' \in Seq(TransactionRows) /\ DOMAIN rows' = DOMAIN rows
      /\ \A r \in DOMAIN rows :
           /\ rows'[r].id = rows[r].id /\ rows'[r].session = rows[r].session
           /\ rows'[r].stop = rows[r].stop
  BY <1>0, <1>3, SampledFacts
<1>7. session' \in [Sessions -> SessionRows]
  BY <1>0, <1>1, <1>4, SessionFacts DEF TypeOK, SessionRows
<1>8. \A r \in Sessions :
        /\ session'[r].status = session[r].status
        /\ session'[r].processed = session[r].processed
        /\ session'[r].paid = session[r].paid /\ session'[r].amount = session[r].amount
  BY <1>0, <1>1, <1>4, SessionFacts DEF TypeOK
<1>9. stopping' \in BOOLEAN
  BY <1>0, <1>1 DEF TypeOK, AtLimit
<1>10. TypeOK'
  BY <1>0, <1>1, <1>5, <1>6, <1>7, <1>9 DEF TypeOK
<1>11. Sums'
  BY <1>8 DEF Inv, Sums
<1>12. \A r \in DOMAIN rows : rows[r].session \in Sessions \cup {None}
  BY <1>1, RowFacts
<1>13. Begun'
  <2>1. \A c \in EVSEs : pending[c] \in Sessions \cup {None}
    BY <1>1 DEF TypeOK
  <2>2. starting \subseteq Sessions
    BY <1>1 DEF TypeOK
  <2> QED BY <1>0, <1>6, <1>8, <1>12, <2>1, <2>2 DEF Inv, Begun
<1>14. Closed'
  BY <1>0, <1>6, <1>8, <1>12 DEF Inv, Closed
<1> QED BY <1>0, <1>10, <1>11, <1>13, <1>14 DEF Inv

LEMMA StationEndsStep ==
  ASSUME Inv, NEW t \in DOMAIN device, StationEnds(t)
  PROVE  Inv'
<1>0. /\ device' = [device EXCEPT ![t].state = "ended"]
      /\ UNCHANGED <<balance, session, connectors, meter, asked, rows, pending,
                     entry, starting, sending, stopping, run, faults>>
  BY DEF StationEnds, requests, bounds
<1>1. device' \in Seq(DeviceTransactions) /\ Len(device') = Len(device)
  BY <1>0, DeviceChange DEF Inv
<1>2. TypeOK'
  BY <1>0, <1>1 DEF Inv, TypeOK
<1> QED BY <1>0, <1>1, <1>2, Untouched DEF Inv

LEMMA RequestStopStep ==
  ASSUME Inv, RequestStop
  PROVE  Inv'
<1> DEFINE t == entry.tx
<1>0. /\ stopping' = FALSE
      /\ device' = IF entry # None /\ t # 0 /\ device[t].state = "running"
                   THEN [device EXCEPT ![t].state = "ended"] ELSE device
      /\ UNCHANGED <<balance, session, connectors, meter, asked, rows, pending,
                     entry, starting, sending, run, faults>>
  BY DEF RequestStop, bounds
<1>1. TypeOK /\ device \in Seq(DeviceTransactions)
  BY DEF Inv, TypeOK
<1> HIDE DEF t
<1>2. device' \in Seq(DeviceTransactions) /\ Len(device') = Len(device)
  <2>1. CASE device' = device
    BY <1>1, <2>1
  <2>2. CASE device' = [device EXCEPT ![t].state = "ended"] /\ t \in DOMAIN device
    BY <1>1, <2>2, DeviceChange
  <2>3. CASE device' = [device EXCEPT ![t].state = "ended"] /\ t \notin DOMAIN device
    <3> DEFINE n == Len(device)
    <3>1. device \in [1..n -> DeviceTransactions] /\ n \in Nat /\ DOMAIN device = 1..n
      BY <1>1
    <3> HIDE DEF n
    <3>2. device' = device
      BY <2>3, <3>1
    <3> QED BY <1>1, <3>2
  <2> QED BY <1>0, <2>1, <2>2, <2>3
<1>3. TypeOK'
  BY <1>0, <1>1, <1>2 DEF TypeOK
<1> QED BY <1>0, <1>2, <1>3, Untouched DEF Inv

LEMMA SendStopStep ==
  ASSUME Inv, NEW s \in Sessions, NEW delivered \in BOOLEAN, SendStop(s, delivered)
  PROVE  Inv'
<1>0. /\ sending' = sending \ {s}
      /\ stopping' = (stopping \/ (delivered /\ RowsOf(s) # {}))
      /\ UNCHANGED <<balance, session, connectors, device, meter, asked, rows, pending,
                     entry, starting, run, faults>>
  BY DEF SendStop, station, bounds
<1>1. TypeOK'
  BY <1>0 DEF Inv, TypeOK
<1> QED BY <1>0, <1>1, Untouched DEF Inv

LEMMA DisconnectStep ==
  ASSUME Inv, Disconnect
  PROVE  Inv'
<1>0. /\ faults < MaxFaults /\ faults' = faults + 1 /\ entry' = None /\ stopping' = FALSE
      /\ UNCHANGED <<balance, session, connectors, device, meter, asked, rows, pending,
                     starting, sending, run>>
  BY DEF Disconnect, station
<1>1. faults' \in 0..MaxFaults /\ run' \in 0..faults'
  BY <1>0, Constants DEF Inv, TypeOK
<1>2. TypeOK'
  BY <1>0, <1>1 DEF Inv, TypeOK
<1> QED BY <1>0, <1>2, Untouched DEF Inv

(* A new process has closed no row yet. *)
LEMMA NewProcessKeeps ==
  ASSUME Inv, run' = run + 1, UNCHANGED session, DOMAIN rows' = DOMAIN rows,
         \A r \in DOMAIN rows : rows'[r].id = rows[r].id /\ rows'[r].session = rows[r].session,
         pending' = pending, starting' = {}
  PROVE  Sums' /\ Begun' /\ Closed'
<1>1. \A r \in DOMAIN rows : rows[r].id[2] \in Int
  BY RowFacts, Constants DEF Inv
<1>2. run \in Int
  BY Constants DEF Inv, TypeOK
<1>3. Sums' /\ Begun'
  BY DEF Inv, Sums, Begun
<1>4. Closed'
  BY <1>1, <1>2 DEF Inv, Closed
<1> QED BY <1>3, <1>4

LEMMA RestartStep ==
  ASSUME Inv, NEW saved \in BOOLEAN, Restart(saved)
  PROVE  Inv'
<1>0. /\ NewProcess(saved)
      /\ UNCHANGED <<balance, session, connectors, device, meter, asked, rows, pending>>
  BY DEF Restart, station
<1>1. /\ faults' \in 0..MaxFaults /\ run' \in 0..faults' /\ run' = run + 1
      /\ starting' = {} /\ sending' = {} /\ stopping' \in BOOLEAN
      /\ entry' \in Entries \cup {None}
  BY <1>0, NewProcessFacts DEF Inv
<1>2. TypeOK'
  BY <1>0, <1>1 DEF Inv, TypeOK
<1> QED BY <1>0, <1>1, <1>2, NewProcessKeeps DEF Inv

(* A settlement: what Finalize makes of one session, and of no other. *)
LEMMA FinalizeFacts ==
  ASSUME Inv, NEW s \in Sessions, NEW n \in Int, Finalize(s, n)
  PROVE  /\ balance' \in [Clients -> Int]
         /\ session' \in [Sessions -> SessionRows]
         /\ Sums' /\ Onward
         /\ session'[s].status # "started"
         /\ \A r \in Sessions : session[r].processed => session'[r] = session[r]
<1>0. TypeOK /\ Client[s] \in Clients /\ Reserve[s] \in Nat
      /\ session \in [Sessions -> SessionRows] /\ balance \in [Clients -> Int]
  BY Constants DEF Inv, TypeOK
<1>1. CASE session[s].processed
  <2>1. UNCHANGED <<balance, session>>
    BY <1>1 DEF Finalize
  <2>2. session[s].status = "stopped"
    BY <1>1 DEF Inv, Sums
  <2> QED BY <1>0, <2>1, <2>2 DEF Inv, Sums, Onward
<1>2. CASE ~session[s].processed
  <2> DEFINE cost == n * Price
             y == session[s]
             x == [y EXCEPT !.status = "stopped", !.energy = n, !.amount = cost,
                            !.processed = TRUE, !.paid = @ - Reserve[s] + cost]
  <2>1. cost \in Int
    BY CostFacts
  <2>2. /\ balance' = [balance EXCEPT ![Client[s]] = @ + Reserve[s] - cost]
        /\ session' = [session EXCEPT
             ![s].status = "stopped", ![s].energy = n, ![s].amount = cost,
             ![s].processed = TRUE, ![s].paid = @ - Reserve[s] + cost]
    BY <1>2 DEF Finalize
  <2> HIDE DEF cost
  <2>3. y \in SessionRows /\ y.paid \in Int /\ y.paid <= Reserve[s]
    BY <1>0, <1>2, SessionFacts DEF Inv, Sums
  <2>4. session' = [session EXCEPT ![s] = x]
    BY <1>0, <2>2
  <2> HIDE DEF y
  <2>5. y.paid - Reserve[s] + cost \in Int /\ y.paid - Reserve[s] + cost <= cost
    BY <1>0, <2>1, <2>3
  <2>6. /\ x \in SessionRows /\ x.status = "stopped" /\ x.processed
        /\ x.amount = cost /\ x.paid = y.paid - Reserve[s] + cost
    BY <2>1, <2>3, <2>5 DEF SessionRows
  <2>7. balance' \in [Clients -> Int]
    BY <1>0, <2>1, <2>2
  <2> HIDE DEF x
  <2>8. /\ session' \in [Sessions -> SessionRows] /\ session'[s] = x
        /\ \A r \in Sessions \ {s} : session'[r] = session[r]
    BY <1>0, <2>4, <2>6
  <2>9. Sums'
    BY <2>5, <2>6, <2>8 DEF Inv, Sums
  <2>10. Onward
    BY <2>6, <2>8 DEF Onward
  <2> QED BY <1>2, <2>6, <2>7, <2>8, <2>9, <2>10
<1> QED BY <1>1, <1>2

(* What an Ended leaves behind. *)
LEMMA EndedFacts ==
  ASSUME Inv, NEW t \in DOMAIN device, NEW reading \in BOOLEAN,
         TransactionEnded(t, reading), UNCHANGED <<pending, starting, run>>
  PROVE  /\ balance' \in [Clients -> Int]
         /\ session' \in [Sessions -> SessionRows]
         /\ rows' \in Seq(TransactionRows)
         /\ connectors' \in [EVSEs -> ConnectorStatus] /\ entry' = None
         /\ Sums' /\ Begun' /\ Closed' /\ Onward
         /\ \A s \in Sessions : session[s].processed => session'[s] = session[s]
         /\ \A r \in OpenRows(t) : OpenRows(t) = {r} /\ rows[r].session # None =>
              session'[rows[r].session].status # "started"
<1> DEFINE m == LastReading(t, reading)
           r == Earliest(OpenRows(t))
           c == Freed(t)
<1>0. TypeOK /\ balance \in [Clients -> Int] /\ session \in [Sessions -> SessionRows]
      /\ rows \in Seq(TransactionRows) /\ connectors \in [EVSEs -> ConnectorStatus]
  BY DEF Inv, TypeOK
<1>1. m \in Int
  BY <1>0, LastReadingFacts
<1>2. connectors' \in [EVSEs -> ConnectorStatus] /\ entry' = None
  BY <1>0 DEF TransactionEnded, ConnectorStatus
<1>3. CASE OpenRows(t) = {}
  <2>1. UNCHANGED <<balance, session, rows>>
    BY <1>3 DEF TransactionEnded
  <2>2. Onward /\ Sums' /\ Begun' /\ Closed'
    BY <2>1 DEF Onward, Inv, Sums, Begun, Closed
  <2> QED BY <1>0, <1>2, <1>3, <2>1, <2>2
<1>4. CASE OpenRows(t) # {}
  <2>1. r \in OpenRows(t)
    BY <1>0, <1>4, OpenRowsFacts
  <2>2. r \in DOMAIN rows /\ rows[r] \in TransactionRows
        /\ rows[r].session \in Sessions \cup {None} /\ rows[r].start \in Nat
    BY <1>0, <2>1, RowFacts DEF OpenRows
  <2>3. /\ rows' = [rows EXCEPT ![r].stop = m]
        /\ IF rows[r].session = None THEN UNCHANGED <<balance, session>>
           ELSE Finalize(rows[r].session, m - rows[r].start)
    BY <1>4 DEF TransactionEnded
  <2>4. \A q \in OpenRows(t) : OpenRows(t) = {q} => q = r
    BY <2>1
  <2> DEFINE x == [rows[r] EXCEPT !.stop = m]
  <2> HIDE DEF m, r
  <2>5. /\ x \in TransactionRows /\ x.id = rows[r].id /\ x.session = rows[r].session
    BY <1>1, <2>2 DEF TransactionRows
  <2>6. rows' = [rows EXCEPT ![r] = x]
    BY <1>0, <2>3
  <2> HIDE DEF x
  <2>7. /\ rows' \in Seq(TransactionRows) /\ DOMAIN rows' = DOMAIN rows
        /\ \A q \in DOMAIN rows : rows'[q] = IF q = r THEN x ELSE rows[q]
    BY <1>0, <2>2, <2>5, <2>6, RowChange
  <2>8. /\ balance' \in [Clients -> Int]
        /\ session' \in [Sessions -> SessionRows]
        /\ Sums' /\ Onward
        /\ \A s \in Sessions : session[s].processed => session'[s] = session[s]
        /\ rows[r].session # None => session'[rows[r].session].status # "started"
    <3>1. CASE rows[r].session = None
      <4>1. UNCHANGED <<balance, session>>
        BY <2>3, <3>1
      <4> QED BY <1>0, <3>1, <4>1 DEF Onward, Inv, Sums
    <3>2. CASE rows[r].session # None
      <4>1. m - rows[r].start \in Int
        BY <1>1, <2>2
      <4>2. Finalize(rows[r].session, m - rows[r].start) /\ rows[r].session \in Sessions
        BY <2>2, <2>3, <3>2
      <4> QED BY <4>1, <4>2, FinalizeFacts
    <3> QED BY <3>1, <3>2
  <2>9. \A q \in DOMAIN rows : rows[q].session \in Sessions \cup {None}
    BY <1>0, RowFacts
  <2>10. Begun'
    <3>1. \A c1 \in EVSEs : pending[c1] \in Sessions \cup {None}
      BY <1>0 DEF TypeOK
    <3>2. starting \subseteq Sessions
      BY <1>0 DEF TypeOK
    <3>3. \A q \in DOMAIN rows' : rows'[q].session = rows[q].session
      BY <2>5, <2>7
    <3> QED BY <2>7, <2>8, <2>9, <3>1, <3>2, <3>3 DEF Inv, Begun, Onward
  <2>11. Closed'
    <3> SUFFICES ASSUME NEW q \in DOMAIN rows
                 PROVE  /\ rows'[q].id[2] <= run
                        /\ rows'[q].id[2] = run /\ rows'[q].stop # None
                           /\ rows'[q].session # None =>
                             session'[rows'[q].session].status # "started"
      BY <2>7 DEF Closed
    <3>1. CASE q = r
      BY <2>5, <2>7, <2>8, <3>1 DEF Inv, Closed
    <3>2. CASE q # r
      <4>1. rows'[q] = rows[q] /\ rows[q].session \in Sessions \cup {None}
        BY <2>7, <2>9, <3>2
      <4>2. ASSUME rows[q].id[2] = run, rows[q].stop # None, rows[q].session # None
            PROVE  session'[rows[q].session].status # "started"
        <5>1. session[rows[q].session].status \in {"stopped", "error"}
          BY <1>0, <4>1, <4>2, SessionFacts DEF Inv, Closed, Begun
        <5> QED BY <2>8, <4>1, <4>2, <5>1 DEF Onward
      <4> QED BY <4>1, <4>2 DEF Inv, Closed
    <3> QED BY <3>1, <3>2
  <2>12. \A q \in OpenRows(t) : OpenRows(t) = {q} /\ rows[q].session # None =>
          session'[rows[q].session].status # "started"
    BY <2>4, <2>8
  <2> QED BY <1>2, <2>7, <2>8, <2>10, <2>11, <2>12
<1> QED BY <1>3, <1>4

LEMMA EndedStep ==
  ASSUME Inv, NEW t \in DOMAIN device, NEW reading \in FinalReading,
         NEW answered \in BOOLEAN, Ended(t, reading, answered)
  PROVE  Inv'
<1>0. /\ answered \/ faults < MaxFaults
      /\ faults' = IF answered THEN faults ELSE faults + 1
      /\ TransactionEnded(t, reading)
      /\ device' = IF answered THEN [device EXCEPT ![t].state = "over"] ELSE device
      /\ UNCHANGED <<meter, asked, pending, starting, sending, stopping, run>>
  BY DEF Ended, requests
<1>1. TypeOK /\ reading \in BOOLEAN /\ device \in Seq(DeviceTransactions)
  BY Constants DEF Inv, TypeOK
<1>2. /\ balance' \in [Clients -> Int]
      /\ session' \in [Sessions -> SessionRows]
      /\ rows' \in Seq(TransactionRows)
      /\ connectors' \in [EVSEs -> ConnectorStatus] /\ entry' = None
      /\ Sums' /\ Begun' /\ Closed'
  BY <1>0, <1>1, EndedFacts
<1>3. device' \in Seq(DeviceTransactions) /\ Len(device') = Len(device)
  BY <1>0, <1>1, DeviceChange
<1>4. faults' \in 0..MaxFaults /\ run' \in 0..faults'
  BY <1>0, <1>1, Constants DEF TypeOK
<1>5. TypeOK'
  BY <1>0, <1>1, <1>2, <1>3, <1>4 DEF TypeOK
<1> QED BY <1>2, <1>3, <1>5 DEF Inv

LEMMA CrashInEndedStep ==
  ASSUME Inv, NEW t \in DOMAIN device, NEW reading \in FinalReading,
         CrashInEnded(t, reading)
  PROVE  Inv'
<1> DEFINE m == LastReading(t, reading)
           r == Earliest(OpenRows(t))
           x == [rows[r] EXCEPT !.stop = m]
<1>0. /\ OpenRows(t) # {} /\ rows' = [rows EXCEPT ![r].stop = m] /\ NewProcess(FALSE)
      /\ UNCHANGED <<balance, session, connectors, device, meter, asked, pending>>
  BY DEF CrashInEnded, station
<1>1. TypeOK /\ reading \in BOOLEAN /\ rows \in Seq(TransactionRows)
  BY Constants DEF Inv, TypeOK
<1>2. m \in Int
  BY <1>1, LastReadingFacts
<1>3. r \in DOMAIN rows /\ rows[r] \in TransactionRows
  <2>1. r \in OpenRows(t)
    BY <1>0, <1>1, OpenRowsFacts
  <2> QED BY <1>1, <2>1, RowFacts DEF OpenRows
<1> HIDE DEF m, r
<1>4. x \in TransactionRows /\ x.id = rows[r].id /\ x.session = rows[r].session
  BY <1>2, <1>3 DEF TransactionRows
<1>5. rows' = [rows EXCEPT ![r] = x]
  BY <1>0, <1>1
<1> HIDE DEF x
<1>6. /\ rows' \in Seq(TransactionRows) /\ DOMAIN rows' = DOMAIN rows
      /\ \A q \in DOMAIN rows : rows'[q] = IF q = r THEN x ELSE rows[q]
  BY <1>1, <1>3, <1>4, <1>5, RowChange
<1>7. /\ faults' \in 0..MaxFaults /\ run' \in 0..faults' /\ run' = run + 1
      /\ starting' = {} /\ sending' = {} /\ stopping' \in BOOLEAN
      /\ entry' \in Entries \cup {None}
  BY <1>0, <1>1, NewProcessFacts
<1>8. Sums' /\ Begun' /\ Closed'
  BY <1>0, <1>4, <1>6, <1>7, NewProcessKeeps
<1>9. TypeOK'
  BY <1>0, <1>1, <1>6, <1>7 DEF TypeOK
<1> QED BY <1>0, <1>8, <1>9 DEF Inv

LEMMA StopSessionFacts ==
  ASSUME Inv, NEW s \in Sessions, StopSession(s)
  PROVE  Inv' /\ \A r \in Sessions : session[r].processed => session'[r] = session[r]
<1> DEFINE n == ActualEnergy(s)
           cost == n * Price
           more == Charge(s, cost)
           y == session[s]
           x == [y EXCEPT !.status = "stopped", !.energy = n, !.amount = cost,
                          !.processed = TRUE, !.paid = @ + more]
<1>0. /\ y.status = "started"
      /\ balance' = [balance EXCEPT ![Client[s]] = @ - more]
      /\ session' = [session EXCEPT
           ![s].status = "stopped", ![s].energy = n, ![s].amount = cost,
           ![s].processed = TRUE, ![s].paid = @ + more]
      /\ connectors' = [connectors EXCEPT ![y.evse] = "available"]
      /\ sending' = sending \cup {s}
      /\ UNCHANGED <<device, meter, asked, rows, pending, entry, starting, stopping,
                     run, faults>>
  BY DEF StopSession, station, bounds
<1>1. TypeOK /\ session \in [Sessions -> SessionRows] /\ balance \in [Clients -> Int]
      /\ Client[s] \in Clients /\ Reserve[s] \in Nat
  BY Constants DEF Inv, TypeOK
<1>2. n \in Int
  BY <1>1, ActualEnergyFacts
<1>3. cost \in Int
  BY <1>2, CostFacts
<1>4. more \in Int /\ more <= cost - Reserve[s]
  BY <1>1, <1>3, ChargeFacts
<1> HIDE DEF n, cost, more
<1>5. /\ y \in SessionRows /\ y.paid \in Int /\ y.paid <= Reserve[s] /\ ~y.processed
  BY <1>0, <1>1, SessionFacts DEF Inv, Sums
<1>6. session' = [session EXCEPT ![s] = x]
  BY <1>0, <1>1
<1>7. connectors' \in [EVSEs -> ConnectorStatus]
  BY <1>0, <1>1 DEF TypeOK, ConnectorStatus
<1> HIDE DEF y
<1>8. y.paid + more \in Int /\ y.paid + more <= cost
  BY <1>1, <1>3, <1>4, <1>5
<1>9. /\ x \in SessionRows /\ x.status = "stopped" /\ x.processed
      /\ x.amount = cost /\ x.paid = y.paid + more
  BY <1>2, <1>3, <1>5, <1>8 DEF SessionRows
<1>10. balance' \in [Clients -> Int]
  BY <1>0, <1>1, <1>4
<1> HIDE DEF x
<1>11. /\ session' \in [Sessions -> SessionRows] /\ session'[s] = x
       /\ \A r \in Sessions \ {s} : session'[r] = session[r]
  BY <1>1, <1>6, <1>9
<1>12. Sums'
  BY <1>8, <1>9, <1>11 DEF Inv, Sums
<1>13. Onward
  BY <1>9, <1>11 DEF Onward
<1>14. Begun' /\ Closed'
  BY <1>0, <1>13, OnwardKeeps
<1>15. TypeOK'
  BY <1>0, <1>1, <1>7, <1>10, <1>11 DEF TypeOK
<1>16. \A r \in Sessions : session[r].processed => session'[r] = session[r]
  BY <1>5, <1>11 DEF y
<1> QED BY <1>0, <1>12, <1>14, <1>15, <1>16 DEF Inv

LEMMA BootFacts ==
  ASSUME Inv, BootNotification
  PROVE  Inv' /\ \A r \in Sessions : session[r].processed => session'[r] = session[r]
<1>0. /\ faults < MaxFaults /\ faults' = faults + 1
      /\ session' = [s \in Sessions |->
           IF s \in Unstarted
           THEN [session[s] EXCEPT !.status = "error", !.energy = 0, !.amount = 0,
                                   !.paid = @ - session[s].amount]
           ELSE session[s]]
      /\ balance' = [k \in Clients |-> balance[k] + Refund(k)]
      /\ connectors' = [c \in EVSEs |->
           IF Unstarted # {} /\ connectors[c] = "occupied"
           THEN "available" ELSE connectors[c]]
      /\ asked' = [c \in EVSEs |-> None]
      /\ UNCHANGED <<device, meter, rows, pending, entry, starting, sending, stopping, run>>
  BY DEF BootNotification, requests
<1>1. TypeOK /\ session \in [Sessions -> SessionRows]
  BY DEF Inv, TypeOK
<1>2. \A k \in Clients : Refund(k) \in Int
  <2> SUFFICES ASSUME NEW k \in Clients PROVE Refund(k) \in Int
    OBVIOUS
  <2> DEFINE S == {s \in Unstarted : Client[s] = k}
  <2>1. CASE S = {}
    BY <2>1 DEF Refund
  <2>2. CASE S # {}
    <3>1. (CHOOSE s \in S : TRUE) \in Sessions
      BY <2>2 DEF Unstarted
    <3> QED BY <1>1, <2>2, <3>1, SessionFacts DEF Refund
  <2> QED BY <2>1, <2>2
<1>3. balance' \in [Clients -> Int]
  <2>1. \A k \in Clients : balance[k] + Refund(k) \in Int
    <3>1. \A k \in Clients : balance[k] \in Int
      BY <1>1 DEF TypeOK
    <3> QED BY <1>2, <3>1
  <2>2. balance' = [k \in Clients |-> balance[k] + Refund(k)]
    BY <1>0
  <2> QED BY <2>1, <2>2
<1>4. \A s \in Sessions \ Unstarted : session'[s] = session[s]
  BY <1>0
<1>5. \A s \in Unstarted :
        /\ session[s].status = "started" /\ ~session[s].processed
        /\ session'[s] \in SessionRows /\ session'[s].status = "error"
        /\ ~session'[s].processed /\ session'[s].paid <= Reserve[s]
  <2> SUFFICES ASSUME NEW s \in Unstarted
               PROVE  /\ session[s].status = "started" /\ ~session[s].processed
                      /\ session'[s] \in SessionRows /\ session'[s].status = "error"
                      /\ ~session'[s].processed /\ session'[s].paid <= Reserve[s]
    OBVIOUS
  <2> DEFINE y == session[s]
             left == y.paid - y.amount
             x == [y EXCEPT !.status = "error", !.energy = 0, !.amount = 0,
                            !.paid = left]
  <2>1. s \in Sessions /\ y.status = "started"
    BY DEF Unstarted
  <2>2. /\ y \in SessionRows /\ y.paid \in Int /\ y.amount \in Int /\ y.amount >= 0
        /\ Reserve[s] \in Nat /\ y.processed \in BOOLEAN
    BY <1>1, <2>1, SessionFacts, Constants DEF Inv, Sums
  <2>3. ~y.processed /\ y.paid <= Reserve[s]
    BY <2>1, <2>2 DEF Inv, Sums
  <2>4. session'[s] = x
    BY <1>0, <2>1
  <2> HIDE DEF y
  <2>5. left \in Int /\ left <= Reserve[s]
    BY <2>2, <2>3
  <2> HIDE DEF left
  <2>6. /\ x \in SessionRows /\ x.status = "error" /\ ~x.processed /\ x.paid = left
    <3>1. y \in SessionRows /\ left \in Int /\ ~y.processed
      BY <2>2, <2>3, <2>5
    <3>2. x \in SessionRows
      <4>1. y \in SessionRows /\ left \in Int /\ 0 \in Int
        BY <3>1
      <4> QED BY <4>1 DEF SessionRows
    <3>3. x.status = "error" /\ x.paid = left
      BY <3>1 DEF SessionRows
    <3>4. ~x.processed
      BY <3>1 DEF SessionRows
    <3> QED BY <3>2, <3>3, <3>4
  <2> HIDE DEF x
  <2>7. /\ session'[s] \in SessionRows /\ session'[s].status = "error"
        /\ ~session'[s].processed /\ session'[s].paid <= Reserve[s]
    BY <2>3, <2>4, <2>5, <2>6
  <2> QED BY <2>1, <2>3, <2>7 DEF y
<1>6. Unstarted \subseteq Sessions /\ DOMAIN session' = Sessions
  BY <1>0 DEF Unstarted
<1>7. session' \in [Sessions -> SessionRows]
  <2>1. \A s \in Sessions : session'[s] \in SessionRows
    BY <1>1, <1>4, <1>5
  <2> QED BY <1>0, <2>1
<1>8. Sums'
  BY <1>4, <1>5 DEF Inv, Sums
<1>9. Onward
  BY <1>4, <1>5 DEF Onward
<1>10. Begun' /\ Closed'
  BY <1>0, <1>9, OnwardKeeps
<1>11. connectors' \in [EVSEs -> ConnectorStatus]
  BY <1>0, <1>1 DEF TypeOK, ConnectorStatus
<1>12. asked' \in [EVSEs -> Clients \cup {None}]
  BY <1>0
<1>13. faults' \in 0..MaxFaults /\ run' \in 0..faults'
  <2>1. faults < MaxFaults /\ faults' = faults + 1 /\ run' = run
    BY <1>0
  <2>2. faults \in 0..MaxFaults /\ run \in 0..faults /\ MaxFaults \in Nat
    BY <1>1, Constants DEF TypeOK
  <2> QED BY <2>1, <2>2
<1>14. TypeOK'
  BY <1>0, <1>1, <1>3, <1>7, <1>11, <1>12, <1>13 DEF TypeOK
<1>15. \A r \in Sessions : session[r].processed => session'[r] = session[r]
  BY <1>4, <1>5
<1> QED BY <1>0, <1>8, <1>10, <1>14, <1>15 DEF Inv

----------------------------------------------------------------------------
(* Theorems *)

LEMMA InitInv == Init => Inv
<1> SUFFICES ASSUME Init PROVE Inv
  OBVIOUS
<1>1. balance \in [Clients -> Int]
  BY Constants DEF Init
<1>2. session \in [Sessions -> SessionRows]
  BY DEF Init, SessionRows
<1>3. connectors \in [EVSEs -> ConnectorStatus] /\ meter \in [EVSEs -> 0..MaxMeter]
  BY Constants DEF Init, ConnectorStatus
<1>4. device \in Seq(DeviceTransactions) /\ rows \in Seq(TransactionRows)
      /\ Len(device) = 0 /\ DOMAIN rows = {}
  BY DEF Init
<1>5. /\ pending \in [EVSEs -> Sessions \cup {None}]
      /\ asked \in [EVSEs -> Clients \cup {None}]
      /\ entry \in Entries \cup {None}
      /\ starting \subseteq Sessions /\ sending \subseteq Sessions
      /\ stopping \in BOOLEAN /\ run \in 0..faults /\ faults \in 0..MaxFaults
  <2>1. run = 0 /\ faults = 0 /\ MaxFaults \in Nat
    BY Constants DEF Init
  <2>2. run \in 0..faults /\ faults \in 0..MaxFaults
    BY <2>1
  <2> QED BY <2>2 DEF Init
<1>6. TypeOK
  BY <1>1, <1>2, <1>3, <1>4, <1>5 DEF TypeOK
<1>7. Sums
  BY Constants DEF Init, Sums
<1>8. Begun /\ Closed
  BY <1>4 DEF Init, Begun, Closed
<1> QED BY <1>4, <1>6, <1>7, <1>8, Constants DEF Inv

LEMMA StutterInv == Inv /\ UNCHANGED vars => Inv'
<1> SUFFICES ASSUME Inv, UNCHANGED vars PROVE Inv'
  OBVIOUS
<1>1. UNCHANGED <<balance, session, connectors, device, meter, asked, rows, pending,
                  entry, starting, sending, stopping, run, faults>>
  BY DEF vars, station, requests, bounds
<1>2. TypeOK'
  BY <1>1 DEF Inv, TypeOK
<1> QED BY <1>1, <1>2, Untouched DEF Inv

LEMMA NextInv == Inv /\ [Next]_vars => Inv'
<1> SUFFICES ASSUME Inv, [Next]_vars PROVE Inv'
  OBVIOUS
<1>1. ASSUME NEW s \in Sessions, NEW c \in EVSEs, StartSession(s, c) PROVE Inv'
  BY <1>1, StartSessionStep
<1>2. ASSUME NEW s \in Sessions, NEW d \in BOOLEAN, RequestStart(s, d) \/ SendStop(s, d)
      PROVE  Inv'
  BY <1>2, RequestStartStep, SendStopStep
<1>3. ASSUME NEW s \in Sessions, StopSession(s) PROVE Inv'
  BY <1>3, StopSessionFacts
<1>4. ASSUME NEW c \in EVSEs, PendingExpires(c) \/ Deliver(c) PROVE Inv'
  BY <1>4, PendingExpiresStep, DeliverStep
<1>5. ASSUME NEW c \in EVSEs, NEW v \in ConnectorStatus, StatusNotification(c, v)
      PROVE  Inv'
  BY <1>5, StatusNotificationStep
<1>6. ASSUME NEW c \in EVSEs, NEW k \in Clients, Started(c, k) \/ CrashInStarted(c, k)
      PROVE  Inv'
  BY <1>6, StartedStep, CrashInStartedStep
<1>7. ASSUME NEW t \in DOMAIN device, RepeatStarted(t) \/ Updated(t) \/ StationEnds(t)
      PROVE  Inv'
  BY <1>7, RepeatStartedStep, UpdatedStep, StationEndsStep
<1>8. ASSUME NEW t \in DOMAIN device, NEW b \in FinalReading, NEW a \in BOOLEAN,
             Ended(t, b, a) \/ CrashInEnded(t, b)
      PROVE  Inv'
  BY <1>8, EndedStep, CrashInEndedStep
<1>9. ASSUME RequestStop \/ BootNotification \/ Disconnect PROVE Inv'
  BY <1>9, RequestStopStep, BootFacts, DisconnectStep
<1>10. ASSUME NEW saved \in BOOLEAN, Restart(saved) PROVE Inv'
  BY <1>10, RestartStep
<1>11. CASE UNCHANGED vars
  BY <1>11, StutterInv
<1> QED
  BY <1>1, <1>2, <1>3, <1>4, <1>5, <1>6, <1>7, <1>8, <1>9, <1>10, <1>11 DEF Next

LEMMA AlwaysInv == Spec => []Inv
BY InitInv, NextInv, PTL DEF Spec

(* The tables and the memory of the handler keep their types: amounts,     *)
(* balances and energies stay whole numbers whatever the meters say.       *)
THEOREM TypeCorrect == Spec => []TypeOK
<1>1. Inv => TypeOK
  BY DEF Inv
<1> QED BY <1>1, AlwaysInv, PTL

(* Nobody pays more for a settled session than its row shows.              *)
THEOREM NeverDearer == Spec => []PaidAsShown
<1>1. Inv => PaidAsShown
  BY DEF Inv, Sums, PaidAsShown
<1> QED BY <1>1, AlwaysInv, PTL

(* A settled session keeps its figures and its money, whatever events of   *)
(* whatever transaction come afterwards, are repeated or get lost.         *)
LEMMA SettledKept ==
  ASSUME Inv, Next, NEW s \in Sessions, session[s].processed
  PROVE  /\ session'[s].status = session[s].status
         /\ session'[s].energy = session[s].energy
         /\ session'[s].amount = session[s].amount
         /\ session'[s].processed = session[s].processed
         /\ session'[s].paid = session[s].paid
<1>0. session[s].status = "stopped" /\ session \in [Sessions -> SessionRows] /\ TypeOK
  BY DEF Inv, Sums, TypeOK
<1> DEFINE Kept == session'[s] = session[s]
<1>1. ASSUME NEW r \in Sessions, NEW c \in EVSEs, StartSession(r, c) PROVE Kept
  <2>1. r # s
    BY <1>0, <1>1 DEF StartSession
  <2> QED BY <1>0, <1>1, <2>1 DEF StartSession, CreateSession
<1>2. ASSUME NEW r \in Sessions, NEW d \in BOOLEAN, RequestStart(r, d) \/ SendStop(r, d)
      PROVE  Kept
  BY <1>2 DEF RequestStart, SendStop
<1>3. ASSUME NEW r \in Sessions, StopSession(r) PROVE Kept
  BY <1>3, StopSessionFacts
<1>4. ASSUME NEW c \in EVSEs, PendingExpires(c) \/ Deliver(c) PROVE Kept
  BY <1>4 DEF PendingExpires, Deliver
<1>5. ASSUME NEW c \in EVSEs, NEW v \in ConnectorStatus, StatusNotification(c, v)
      PROVE  Kept
  BY <1>5 DEF StatusNotification
<1>6. ASSUME NEW t, NEW c \in EVSEs, NEW k \in Clients, NEW m, RecordStarted(t, c, k, m)
      PROVE  /\ session'[s].status = session[s].status
             /\ session'[s].energy = session[s].energy
             /\ session'[s].amount = session[s].amount
             /\ session'[s].processed = session[s].processed
             /\ session'[s].paid = session[s].paid
  <2> DEFINE r == SessionFor(c, k)
  <2>1. session' = IF r = None THEN session ELSE [session EXCEPT ![r].linked = TRUE]
    BY <1>6 DEF RecordStarted
  <2>2. r \in Sessions \cup {None}
    BY <1>0, SessionForFacts
  <2> HIDE DEF r
  <2> DEFINE y == session[s]
             x == [y EXCEPT !.linked = TRUE]
  <2>3. session'[s] = y \/ session'[s] = x
    BY <1>0, <2>1, <2>2
  <2>4. y \in SessionRows
    BY <1>0
  <2> HIDE DEF y
  <2>5. /\ x.status = y.status /\ x.energy = y.energy /\ x.amount = y.amount
        /\ x.processed = y.processed /\ x.paid = y.paid
    BY <2>4 DEF SessionRows
  <2> HIDE DEF x
  <2>6. \/ session'[s] = session[s]
        \/ /\ session'[s].status = session[s].status
           /\ session'[s].energy = session[s].energy
           /\ session'[s].amount = session[s].amount
           /\ session'[s].processed = session[s].processed
           /\ session'[s].paid = session[s].paid
    BY <2>3, <2>5 DEF y
  <2> QED BY <2>6
<1>7. ASSUME NEW c \in EVSEs, NEW k \in Clients, Started(c, k) \/ CrashInStarted(c, k)
      PROVE  RecordStarted(Len(device) + 1, c, k, meter[c])
  BY <1>7 DEF Started, CrashInStarted, TransactionStarted
<1>8. ASSUME NEW t \in DOMAIN device, RepeatStarted(t)
      PROVE  /\ device[t].evse \in EVSEs /\ device[t].tag \in Clients
             /\ RecordStarted(t, device[t].evse, device[t].tag, device[t].start)
  BY <1>0, <1>8, DeviceFacts DEF RepeatStarted, TransactionStarted
<1>9. ASSUME NEW t \in DOMAIN device, Updated(t) \/ StationEnds(t) PROVE Kept
  <2>1. CASE Updated(t)
    <3> DEFINE r == entry.session
               n == meter[device[t].evse] - entry.start
    <3>1. session' = IF r # None /\ session[r].status = "started"
                     THEN [session EXCEPT ![r].energy = n] ELSE session
      BY <2>1 DEF Updated
    <3> HIDE DEF r, n
    <3> QED BY <1>0, <3>1
  <2>2. CASE StationEnds(t)
    BY <2>2 DEF StationEnds
  <2> QED BY <1>9, <2>1, <2>2
<1>10. ASSUME NEW t \in DOMAIN device, NEW b \in FinalReading, NEW a \in BOOLEAN,
              Ended(t, b, a) \/ CrashInEnded(t, b)
       PROVE  Kept
  <2>1. CASE Ended(t, b, a)
    <3>1. b \in BOOLEAN /\ TransactionEnded(t, b) /\ UNCHANGED <<pending, starting, run>>
      BY <2>1, Constants DEF Ended, requests
    <3> QED BY <3>1, EndedFacts
  <2>2. CASE CrashInEnded(t, b)
    <3>1. session' = session
      BY <2>2 DEF CrashInEnded, station
    <3> QED BY <3>1
  <2> QED BY <1>10, <2>1, <2>2
<1>11. ASSUME RequestStop \/ BootNotification \/ Disconnect PROVE Kept
  <2>1. CASE BootNotification
    BY <2>1, BootFacts
  <2>2. CASE RequestStop \/ Disconnect
    BY <2>2 DEF RequestStop, Disconnect
  <2> QED BY <1>11, <2>1, <2>2
<1>12. ASSUME NEW saved \in BOOLEAN, Restart(saved) PROVE Kept
  BY <1>12 DEF Restart
<1> QED
  BY <1>1, <1>2, <1>3, <1>4, <1>5, <1>6, <1>7, <1>8, <1>9, <1>10, <1>11, <1>12 DEF Next

(* A settled session keeps its figures and its money, for good.            *)
THEOREM SettledForGood == Spec => SettledIsFrozen
<1>1. Inv /\ [Next]_vars =>
        [\A s \in Sessions : session[s].processed =>
           \A f \in {"status", "energy", "amount", "processed", "paid"} :
             session'[s][f] = session[s][f]]_vars
  <2> SUFFICES ASSUME Inv, Next, NEW s \in Sessions, session[s].processed,
                      NEW f \in {"status", "energy", "amount", "processed", "paid"}
               PROVE  session'[s][f] = session[s][f]
    BY DEF vars
  <2> QED BY SettledKept
<1> QED BY <1>1, AlwaysInv, PTL DEF Spec, SettledIsFrozen

(* Only an answered Ended is over. *)
LEMMA OverByEnded ==
  ASSUME Inv, Next, NEW t \in DOMAIN device,
         device[t].state = "ended", device'[t].state = "over"
  PROVE  \E reading \in BOOLEAN :
           TransactionEnded(t, reading) /\ UNCHANGED <<pending, starting, run>>
<1>0. device \in Seq(DeviceTransactions)
  BY DEF Inv, TypeOK
<1>1. device' # device
  OBVIOUS
<1>2. ASSUME NEW u \in DOMAIN device,
             device' = [device EXCEPT ![u].state = "ended"]
      PROVE  FALSE
  <2>1. device[u] \in DeviceTransactions
    BY <1>0
  <2>2. [device[u] EXCEPT !.state = "ended"].state = "ended"
    BY <2>1 DEF DeviceTransactions
  <2>3. device' = [device EXCEPT ![u] = [device[u] EXCEPT !.state = "ended"]]
    BY <1>0, <1>2
  <2>4. CASE u = t
    BY <1>0, <2>2, <2>3, <2>4
  <2>5. CASE u # t
    BY <1>0, <2>3, <2>5
  <2> QED BY <2>4, <2>5
<1>3. ASSUME NEW c \in EVSEs, NEW k \in Clients, Started(c, k) \/ CrashInStarted(c, k)
      PROVE  FALSE
  <2>1. Plugs(c, k)
    BY <1>3 DEF Started, CrashInStarted
  <2>2. device'[t] = device[t]
    BY <2>1, PlugsFacts
  <2> QED BY <2>2
<1>4. ASSUME NEW u \in DOMAIN device, RepeatStarted(u) \/ Updated(u) \/ StationEnds(u)
      PROVE  FALSE
  <2>1. CASE RepeatStarted(u)
    BY <1>1, <2>1 DEF RepeatStarted, station
  <2>2. CASE Updated(u)
    BY <1>1, <2>2 DEF Updated, station
  <2>3. CASE StationEnds(u)
    BY <1>2, <2>3 DEF StationEnds
  <2> QED BY <1>4, <2>1, <2>2, <2>3
<1>5. ASSUME RequestStop PROVE FALSE
  <2> DEFINE u == entry.tx
  <2>1. device' = device \/ device' = [device EXCEPT ![u].state = "ended"]
    BY <1>5 DEF RequestStop
  <2> HIDE DEF u
  <2>2. CASE u \in DOMAIN device
    BY <1>1, <1>2, <2>1, <2>2
  <2>3. CASE u \notin DOMAIN device
    <3> DEFINE n == Len(device)
    <3>1. device \in [1..n -> DeviceTransactions] /\ n \in Nat /\ DOMAIN device = 1..n
      BY <1>0
    <3> HIDE DEF n
    <3>2. device' = device
      BY <2>1, <2>3, <3>1
    <3> QED BY <1>1, <3>2
  <2> QED BY <2>2, <2>3
<1>6. ASSUME NEW u \in DOMAIN device, NEW b \in FinalReading, NEW a \in BOOLEAN,
             Ended(u, b, a)
      PROVE  b \in BOOLEAN /\ TransactionEnded(t, b)
             /\ UNCHANGED <<pending, starting, run>>
  <2>1. /\ b \in BOOLEAN /\ TransactionEnded(u, b) /\ UNCHANGED <<pending, starting, run>>
        /\ device' = device \/ device' = [device EXCEPT ![u].state = "over"]
    BY <1>6, Constants DEF Ended, requests
  <2>2. u = t
    BY <1>0, <1>1, <2>1
  <2> QED BY <2>1, <2>2
<1>7. ASSUME NEW s \in Sessions, NEW c \in EVSEs, StartSession(s, c) PROVE FALSE
  BY <1>1, <1>7 DEF StartSession, station
<1>8. ASSUME NEW s \in Sessions, NEW d \in BOOLEAN, RequestStart(s, d) \/ SendStop(s, d)
      PROVE  FALSE
  BY <1>1, <1>8 DEF RequestStart, SendStop, station
<1>9. ASSUME NEW s \in Sessions, StopSession(s) PROVE FALSE
  BY <1>1, <1>9 DEF StopSession, station
<1>10. ASSUME NEW c \in EVSEs, PendingExpires(c) \/ Deliver(c) PROVE FALSE
  BY <1>1, <1>10 DEF PendingExpires, Deliver, station
<1>11. ASSUME NEW c \in EVSEs, NEW v \in ConnectorStatus, StatusNotification(c, v)
       PROVE  FALSE
  BY <1>1, <1>11 DEF StatusNotification, station
<1>12. ASSUME NEW u \in DOMAIN device, NEW b \in FinalReading, CrashInEnded(u, b)
       PROVE  FALSE
  BY <1>1, <1>12 DEF CrashInEnded, station
<1>13. ASSUME BootNotification \/ Disconnect PROVE FALSE
  BY <1>1, <1>13 DEF BootNotification, Disconnect, station
<1>14. ASSUME NEW saved \in BOOLEAN, Restart(saved) PROVE FALSE
  BY <1>1, <1>14 DEF Restart, station
<1> QED
  BY <1>3, <1>4, <1>5, <1>6, <1>7, <1>8, <1>9, <1>10, <1>11, <1>12, <1>13, <1>14 DEF Next

(* Of the one row of a transaction, if this process stored it: it is the   *)
(* open one that the Ended settles, or it was closed, and settled, before. *)
LEMMA AnsweredIsSettled ==
  ASSUME Inv, Next, NEW t \in DOMAIN device,
         device[t].state = "ended", device'[t].state = "over",
         Cardinality({q \in DOMAIN rows : rows[q].id[1] = t}) = 1,
         NEW r \in DOMAIN rows, rows[r].id[1] = t, rows[r].id[2] = run,
         rows[r].session # None
  PROVE  session'[rows[r].session].status # "started"
<1> DEFINE R == {q \in DOMAIN rows : rows[q].id[1] = t}
           s == rows[r].session
<1>1. PICK reading \in BOOLEAN :
        TransactionEnded(t, reading) /\ UNCHANGED <<pending, starting, run>>
  BY OverByEnded
<1>2. TypeOK /\ s \in Sessions
  BY RowFacts DEF Inv
<1>3. rows[r].id = Numeric(t)
  BY <1>2, RowFacts DEF Numeric
<1>4. R = {r}
  <2>1. DOMAIN rows = 1..Len(rows) /\ Len(rows) \in Int /\ 1 \in Int
    BY <1>2, RowFacts
  <2>2. ASSUME NEW k \in Int PROVE IsFiniteSet(1..k)
    BY <2>1, FS_Interval
  <2>3. IsFiniteSet(DOMAIN rows)
    BY <2>1, <2>2
  <2>4. IsFiniteSet(R)
    BY <2>3, FS_Subset
  <2>5. PICK x : R = {x}
    BY <2>4, FS_Singleton
  <2> QED BY <2>5
<1>5. CASE rows[r].stop = None
  <2>1. OpenRows(t) = {r}
    BY <1>3, <1>4, <1>5 DEF OpenRows, Numeric
  <2> QED BY <1>1, <2>1, EndedFacts
<1>6. CASE rows[r].stop # None
  <2>1. session[s].status \in {"stopped", "error"}
    BY <1>2, <1>6, SessionFacts DEF Inv, Closed, Begun
  <2>2. Onward
    BY <1>1, EndedFacts
  <2> QED BY <1>2, <2>1, <2>2 DEF Onward
<1> QED BY <1>5, <1>6

(* Whatever was repeated, lost or reordered before, an Ended that this     *)
(* process answers has ended the session of its transaction.               *)
THEOREM EndedIsSettled == Spec => EndedSettles
<1> DEFINE Settles ==
  \A t \in DOMAIN device :
     LET R == {r \in DOMAIN rows : rows[r].id[1] = t} IN
     /\ device[t].state = "ended" /\ device'[t].state = "over"
     /\ Cardinality(R) = 1
     => \A r \in R : rows[r].id[2] = run /\ rows[r].session # None
          => session'[rows[r].session].status # "started"
<1>1. Inv /\ [Next]_vars => [Settles]_vars
  <2> SUFFICES ASSUME Inv, Next PROVE Settles
    OBVIOUS
  <2> QED BY AnsweredIsSettled
<1> QED BY <1>1, AlwaysInv, PTL DEF Spec, EndedSettles

----------------------------------------------------------------------------
(* Connectors *)

(* Every transaction of the station has a row, and a row is for the EVSE   *)
(* its transaction is on.                                                  *)
Stored == \A t \in DOMAIN device : \E r \in DOMAIN rows : rows[r].id[1] = t

Placed ==
  \A r \in DOMAIN rows :
    rows[r].id[1] \in DOMAIN device /\ rows[r].evse = device[rows[r].id[1]].evse

OInv == Inv /\ Stored /\ Placed /\ OccupiedForAReason

(* The tables only grow: transactions and rows keep what names them, and a *)
(* session keeps the EVSE it was started on.                               *)
Grown ==
  /\ \A t \in DOMAIN device : t \in DOMAIN device' /\ device'[t].evse = device[t].evse
  /\ \A r \in DOMAIN rows :
       /\ r \in DOMAIN rows' /\ rows'[r].id = rows[r].id
       /\ rows'[r].evse = rows[r].evse /\ rows'[r].session = rows[r].session
  /\ \A s \in Sessions :
       session[s].status # "none" => session'[s].evse = session[s].evse
  /\ run' \in {run, run + 1}

(* The two reasons that last for ever. *)
Stranded(c) ==
  \/ \E r \in DOMAIN rows : rows[r].evse = c /\ rows[r].id[2] # run
  \/ \E r \in DOMAIN rows : /\ rows[r].session # None /\ rows[r].evse # c
                           /\ session[rows[r].session].evse = c

LEMMA StrandedLasts ==
  ASSUME Inv, Grown, NEW c \in EVSEs, Stranded(c)
  PROVE  Stranded(c)'
<1>0. TypeOK /\ run \in Int
  BY Constants DEF Inv, TypeOK
<1>1. ASSUME NEW r \in DOMAIN rows, rows[r].evse = c, rows[r].id[2] # run
      PROVE  Stranded(c)'
  <2>1. rows[r].id[2] \in Int /\ rows[r].id[2] < run
    BY <1>0, <1>1, RowFacts, Constants DEF Inv, Closed
  <2>2. rows[r].id[2] # run'
    BY <1>0, <2>1 DEF Grown
  <2> QED BY <1>1, <2>2 DEF Grown, Stranded
<1>2. ASSUME NEW r \in DOMAIN rows, rows[r].session # None, rows[r].evse # c,
             session[rows[r].session].evse = c
      PROVE  Stranded(c)'
  <2>1. rows[r].session \in Sessions /\ session[rows[r].session].status # "none"
    BY <1>0, <1>2, RowFacts DEF Inv, Begun
  <2>2. session'[rows[r].session].evse = c
    BY <1>2, <2>1 DEF Grown
  <2> QED BY <1>2, <2>2 DEF Grown, Stranded
<1> QED BY <1>1, <1>2 DEF Stranded

(* A step keeps OccupiedForAReason if it occupies a connector only with a  *)
(* reason, and if what it ends leaves its connector free or stranded.      *)
LEMMA ReasonKept ==
  ASSUME OInv, Grown,
         \A c \in EVSEs : connectors'[c] = "occupied" /\ connectors[c] # "occupied" =>
           \/ \E s \in Sessions : session'[s].status = "started" /\ session'[s].evse = c
           \/ \E t \in DOMAIN device' : device'[t].evse = c /\ device'[t].state # "over",
         \A s \in Sessions :
           session[s].status = "started" /\ session'[s].status # "started"
             /\ session[s].evse \in EVSEs =>
               connectors'[session[s].evse] # "occupied" \/ Stranded(session[s].evse),
         \A t \in DOMAIN device :
           device[t].state # "over" /\ device'[t].state = "over" =>
             connectors'[device[t].evse] # "occupied" \/ Stranded(device[t].evse)
  PROVE  OccupiedForAReason'
<1> SUFFICES ASSUME NEW c \in EVSEs, connectors'[c] = "occupied"
             PROVE  \/ \E s \in Sessions : session'[s].status = "started" /\ session'[s].evse = c
                    \/ \E t \in DOMAIN device' : device'[t].evse = c /\ device'[t].state # "over"
                    \/ Stranded(c)'
  BY DEF OccupiedForAReason, RunningAt, Stranded
<1>1. CASE connectors[c] # "occupied"
  BY <1>1
<1>2. CASE connectors[c] = "occupied"
  <2>1. \/ \E s \in Sessions : session[s].status = "started" /\ session[s].evse = c
        \/ \E t \in DOMAIN device : device[t].evse = c /\ device[t].state # "over"
        \/ Stranded(c)
    BY <1>2 DEF OInv, OccupiedForAReason, RunningAt, Stranded
  <2>2. CASE \E s \in Sessions : session[s].status = "started" /\ session[s].evse = c
    <3>1. PICK s \in Sessions : session[s].status = "started" /\ session[s].evse = c
      BY <2>2
    <3>2. session'[s].evse = c
      BY <3>1 DEF Grown
    <3>3. session'[s].status = "started" \/ Stranded(c)
      BY <3>1
    <3> QED BY <3>2, <3>3, StrandedLasts DEF OInv
  <2>3. CASE \E t \in DOMAIN device : device[t].evse = c /\ device[t].state # "over"
    <3>1. PICK t \in DOMAIN device : device[t].evse = c /\ device[t].state # "over"
      BY <2>3
    <3>2. t \in DOMAIN device' /\ device'[t].evse = c
      BY <3>1 DEF Grown
    <3>3. device'[t].state # "over" \/ Stranded(c)
      BY <3>1
    <3> QED BY <3>2, <3>3, StrandedLasts DEF OInv
  <2>4. CASE Stranded(c)
    BY <2>4, StrandedLasts DEF OInv
  <2> QED BY <2>1, <2>2, <2>3, <2>4
<1> QED BY <1>1, <1>2

(* Rows and transactions of the same names leave Stored and Placed alone.  *)
LEMMA SameNames ==
  ASSUME Stored, Placed, Grown, DOMAIN device' = DOMAIN device,
         DOMAIN rows' = DOMAIN rows
  PROVE  Stored' /\ Placed'
BY DEF Stored, Placed, Grown

(* A Started, stored by whichever process, adds a row for its transaction. *)
LEMMA StartedNames ==
  ASSUME Inv, Stored, Placed, Grown, NEW t, NEW c \in EVSEs, NEW x \in TransactionRows,
         rows' = Append(rows, x), x.id[1] = t, x.evse = c,
         DOMAIN device' = DOMAIN device \cup {t}, device'[t].evse = c
  PROVE  Stored' /\ Placed'
<1>1. /\ DOMAIN rows' = DOMAIN rows \cup {Len(rows) + 1}
      /\ rows'[Len(rows) + 1] = x
  BY RowAdded DEF Inv
<1>2. \A q \in DOMAIN rows' : (q \in DOMAIN rows /\ rows'[q].id = rows[q].id
                               /\ rows'[q].evse = rows[q].evse) \/ rows'[q] = x
  BY <1>1 DEF Grown
<1>3. Stored'
  BY <1>1 DEF Stored, Grown
<1>4. Placed'
  BY <1>2 DEF Placed, Grown
<1> QED BY <1>3, <1>4

(* What a Started leaves of the tables, whichever process stores it. *)
LEMMA RecordGrows ==
  ASSUME Inv, NEW t \in 1..MaxTx, NEW c \in EVSEs, NEW k \in Clients, NEW m \in Nat,
         RecordStarted(t, c, k, m)
  PROVE  /\ \E x \in TransactionRows :
              rows' = Append(rows, x) /\ x.id[1] = t /\ x.evse = c
         /\ \A r \in DOMAIN rows : r \in DOMAIN rows' /\ rows'[r] = rows[r]
         /\ \A s \in Sessions : /\ session'[s].status = session[s].status
                                /\ session'[s].evse = session[s].evse
<1> DEFINE s == SessionFor(c, k)
           x == [id |-> Numeric(t), session |-> s, evse |-> c, start |-> m,
                 stop |-> None, sampled |-> None]
<1>0. TypeOK /\ run \in 0..MaxFaults
  BY Constants DEF Inv, TypeOK
<1>1. s \in Sessions \cup {None}
  BY <1>0, SessionForFacts
<1>2. /\ rows' = Append(rows, x)
      /\ session' = IF s = None THEN session ELSE [session EXCEPT ![s].linked = TRUE]
  BY DEF RecordStarted
<1>3. x \in TransactionRows /\ x.id[1] = t /\ x.evse = c
  BY <1>0, <1>1 DEF TransactionRows, Numeric
<1> HIDE DEF s, x
<1>4. \A r \in DOMAIN rows : r \in DOMAIN rows' /\ rows'[r] = rows[r]
  BY <1>0, <1>2, <1>3, RowAdded
<1>5. \A q \in Sessions : /\ session'[q].status = session[q].status
                          /\ session'[q].evse = session[q].evse
  BY <1>0, <1>1, <1>2, SessionFacts DEF TypeOK
<1> QED BY <1>2, <1>3, <1>4, <1>5

LEMMA PlugsGrows ==
  ASSUME Inv, NEW c \in EVSEs, NEW k \in Clients, Plugs(c, k)
  PROVE  /\ DOMAIN device' = DOMAIN device \cup {Len(device) + 1}
         /\ \A t \in DOMAIN device : device'[t] = device[t]
         /\ device'[Len(device) + 1].evse = c
         /\ device'[Len(device) + 1].state = "running"
<1> DEFINE d == [evse |-> c, tag |-> k, start |-> meter[c], state |-> "running"]
<1>1. device' = Append(device, d) /\ device \in Seq(DeviceTransactions)
  BY DEF Plugs, Inv, TypeOK
<1>2. d.evse = c /\ d.state = "running"
  OBVIOUS
<1> HIDE DEF d
<1> QED BY <1>1, <1>2

(* Steps that keep every connector, session status, row name and running   *)
(* transaction: nothing is freed and nothing ends.                         *)
LEMMA PlainStep ==
  ASSUME OInv, connectors' = connectors, run' \in {run, run + 1},
         DOMAIN device' = DOMAIN device,
         \A t \in DOMAIN device :
           /\ device'[t].evse = device[t].evse
           /\ device[t].state # "over" => device'[t].state # "over",
         DOMAIN rows' = DOMAIN rows,
         \A r \in DOMAIN rows :
           /\ rows'[r].id = rows[r].id /\ rows'[r].evse = rows[r].evse
           /\ rows'[r].session = rows[r].session,
         \A s \in Sessions : /\ session'[s].status = session[s].status
                             /\ session'[s].evse = session[s].evse
  PROVE  Stored' /\ Placed' /\ OccupiedForAReason'
<1>1. Grown
  BY DEF Grown
<1>2. Stored' /\ Placed'
  BY <1>1, SameNames DEF OInv
<1> QED BY <1>1, <1>2, ReasonKept

LEMMA StartSessionReason ==
  ASSUME OInv, NEW s \in Sessions, NEW c \in EVSEs, StartSession(s, c)
  PROVE  Stored' /\ Placed' /\ OccupiedForAReason'
<1>0. /\ TypeOK /\ session[s].status = "none" /\ CreateSession(s, c)
      /\ connectors' = [connectors EXCEPT ![c] = "occupied"]
      /\ UNCHANGED <<device, rows, run>>
  BY DEF StartSession, station, bounds, OInv, Inv
<1>1. /\ \A r \in Sessions \ {s} : session'[r] = session[r]
      /\ session'[s].status = "started" /\ session'[s].evse = c
  BY <1>0, SessionFacts DEF CreateSession, TypeOK
<1>2. Grown
  BY <1>0, <1>1 DEF Grown
<1>3. \A b \in EVSEs : connectors'[b] = connectors[b] \/ b = c
  BY <1>0 DEF TypeOK
<1>4. Stored' /\ Placed'
  BY <1>0, <1>2, SameNames DEF OInv
<1>5. OccupiedForAReason'
  BY <1>0, <1>1, <1>2, <1>3, ReasonKept
<1> QED BY <1>4, <1>5

LEMMA NotificationReason ==
  ASSUME OInv, NEW c \in EVSEs, NEW v \in ConnectorStatus, StatusNotification(c, v)
  PROVE  Stored' /\ Placed' /\ OccupiedForAReason'
<1>0. /\ TypeOK /\ connectors' = [connectors EXCEPT ![c] = v]
      /\ v = "occupied" => \E t \in RunningAt(c) : device[t].state = "running"
      /\ UNCHANGED <<session, device, rows, run>>
  BY DEF StatusNotification, station, OInv, Inv
<1>1. Grown
  BY <1>0 DEF Grown
<1>2. \A b \in EVSEs : connectors'[b] = connectors[b] \/ (b = c /\ connectors'[b] = v)
  BY <1>0 DEF TypeOK
<1>3. v = "occupied" =>
        \E t \in DOMAIN device' : device'[t].evse = c /\ device'[t].state # "over"
  BY <1>0 DEF RunningAt
<1>4. Stored' /\ Placed'
  BY <1>0, <1>1, SameNames DEF OInv
<1>5. OccupiedForAReason'
  BY <1>0, <1>1, <1>2, <1>3, ReasonKept
<1> QED BY <1>4, <1>5

LEMMA StartedReason ==
  ASSUME OInv, NEW c \in EVSEs, NEW k \in Clients, Started(c, k) \/ CrashInStarted(c, k)
  PROVE  Stored' /\ Placed' /\ OccupiedForAReason'
<1> DEFINE t == Len(device) + 1
<1>0. /\ Inv /\ TypeOK /\ Plugs(c, k) /\ RecordStarted(t, c, k, meter[c])
      /\ run' \in {run, run + 1}
      /\ \/ connectors' = [connectors EXCEPT ![c] = "occupied"]
         \/ connectors' = connectors
  BY DEF Started, CrashInStarted, TransactionStarted, NewProcess, bounds, OInv, Inv
<1>1. /\ DOMAIN device' = DOMAIN device \cup {t}
      /\ \A u \in DOMAIN device : device'[u] = device[u]
      /\ device'[t].evse = c /\ device'[t].state = "running"
      /\ t \in 1..MaxTx /\ meter[c] \in Nat
  BY <1>0, PlugsGrows, PlugsFacts
<1> HIDE DEF t
<1>2. /\ \E x \in TransactionRows :
           rows' = Append(rows, x) /\ x.id[1] = t /\ x.evse = c
      /\ \A r \in DOMAIN rows : r \in DOMAIN rows' /\ rows'[r] = rows[r]
      /\ \A s \in Sessions : /\ session'[s].status = session[s].status
                             /\ session'[s].evse = session[s].evse
  BY <1>0, <1>1, RecordGrows
<1>3. Grown
  BY <1>0, <1>1, <1>2 DEF Grown
<1>4. Stored' /\ Placed'
  BY <1>0, <1>1, <1>2, <1>3, StartedNames DEF OInv
<1>5. \A b \in EVSEs : connectors'[b] = connectors[b] \/ b = c
  BY <1>0 DEF TypeOK
<1>6. t \in DOMAIN device' /\ device'[t].evse = c /\ device'[t].state # "over"
  BY <1>1
<1>7. OccupiedForAReason'
  BY <1>1, <1>2, <1>3, <1>5, <1>6, ReasonKept
<1> QED BY <1>4, <1>7

LEMMA RepeatStartedReason ==
  ASSUME OInv, NEW t \in DOMAIN device, RepeatStarted(t)
  PROVE  Stored' /\ Placed' /\ OccupiedForAReason'
<1> DEFINE c == device[t].evse
           k == device[t].tag
           m == device[t].start
<1>0. /\ Inv /\ TypeOK /\ RecordStarted(t, c, k, m)
      /\ connectors' = [connectors EXCEPT ![c] = "occupied"]
      /\ device[t].state = "running" /\ UNCHANGED <<device, run>>
  BY DEF RepeatStarted, TransactionStarted, station, OInv, Inv
<1>1. c \in EVSEs /\ k \in Clients /\ m \in Nat /\ t \in 1..MaxTx
  BY <1>0, DeviceFacts, Constants DEF Inv
<1> HIDE DEF k, m
<1>2. /\ \E x \in TransactionRows :
           rows' = Append(rows, x) /\ x.id[1] = t /\ x.evse = c
      /\ \A r \in DOMAIN rows : r \in DOMAIN rows' /\ rows'[r] = rows[r]
      /\ \A s \in Sessions : /\ session'[s].status = session[s].status
                             /\ session'[s].evse = session[s].evse
  <2> HIDE DEF c
  <2> QED BY <1>0, <1>1, RecordGrows
<1>3. Grown
  BY <1>0, <1>2 DEF Grown
<1>4. DOMAIN device' = DOMAIN device \cup {t} /\ device'[t].evse = c
  BY <1>0
<1>5. Stored' /\ Placed'
  BY <1>0, <1>1, <1>2, <1>3, <1>4, StartedNames DEF OInv
<1>6. \A b \in EVSEs : connectors'[b] = connectors[b] \/ b = c
  BY <1>0 DEF TypeOK
<1>7. OccupiedForAReason'
  BY <1>0, <1>2, <1>3, <1>4, <1>6, ReasonKept
<1> QED BY <1>5, <1>7

(* Where the Ended of t is known, its connector is freed; where it is not, *)
(* a row under another process's number strands the connector.             *)
LEMMA EndedReason ==
  ASSUME OInv, NEW t \in DOMAIN device, NEW reading \in FinalReading,
         NEW answered \in BOOLEAN, Ended(t, reading, answered)
  PROVE  Stored' /\ Placed' /\ OccupiedForAReason'
<1> DEFINE d == device[t].evse
           r == Earliest(OpenRows(t))
           m == LastReading(t, reading)
<1>0. /\ Inv /\ TypeOK /\ reading \in BOOLEAN
      /\ TransactionEnded(t, reading) /\ device[t].state = "ended"
      /\ device' = IF answered THEN [device EXCEPT ![t].state = "over"] ELSE device
      /\ UNCHANGED <<pending, starting, run>>
  BY Constants DEF Ended, requests, OInv, Inv
<1>1. /\ d \in EVSEs /\ DOMAIN device' = DOMAIN device
      /\ \A u \in DOMAIN device : device'[u].evse = device[u].evse
      /\ \A u \in DOMAIN device \ {t} : device'[u] = device[u]
  BY <1>0, DeviceFacts DEF TypeOK
<1>2. m \in Int
  BY <1>0, LastReadingFacts
<1>3. /\ DOMAIN rows' = DOMAIN rows
      /\ \A q \in DOMAIN rows :
           /\ rows'[q].id = rows[q].id /\ rows'[q].evse = rows[q].evse
           /\ rows'[q].session = rows[q].session
  <2>1. CASE OpenRows(t) = {}
    BY <1>0, <2>1 DEF TransactionEnded
  <2>2. CASE OpenRows(t) # {}
    <3> DEFINE x == [rows[r] EXCEPT !.stop = m]
    <3>1. r \in DOMAIN rows
      BY <1>0, <2>2, OpenRowsFacts DEF OpenRows
    <3>2. rows' = [rows EXCEPT ![r].stop = m] /\ rows \in Seq(TransactionRows)
          /\ rows[r] \in TransactionRows
      BY <1>0, <2>2, <3>1, RowFacts DEF TransactionEnded, TypeOK
    <3> HIDE DEF r, m
    <3>3. x \in TransactionRows /\ x.id = rows[r].id /\ x.evse = rows[r].evse
          /\ x.session = rows[r].session
      BY <1>2, <3>2 DEF TransactionRows
    <3>4. rows' = [rows EXCEPT ![r] = x]
      BY <3>2
    <3> HIDE DEF x
    <3> QED BY <1>0, <3>1, <3>3, <3>4, RowChange
  <2> QED BY <2>1, <2>2
<1>4. \A s \in Sessions :
        /\ session'[s].evse = session[s].evse
        /\ session[s].status = "started" /\ session'[s].status # "started" =>
             OpenRows(t) # {} /\ rows[r].session = s
  <2>1. CASE OpenRows(t) = {}
    BY <1>0, <2>1 DEF TransactionEnded
  <2>2. CASE OpenRows(t) # {}
    <3>1. r \in DOMAIN rows /\ rows[r].session \in Sessions \cup {None}
      BY <1>0, <2>2, OpenRowsFacts, RowFacts DEF OpenRows
    <3>2. IF rows[r].session = None THEN UNCHANGED <<balance, session>>
          ELSE Finalize(rows[r].session, m - rows[r].start)
      BY <1>0, <2>2 DEF TransactionEnded
    <3>3. CASE session' = session
      BY <3>3
    <3>4. CASE session' # session
      <4> DEFINE q == rows[r].session
                 n == m - rows[r].start
                 y == session[q]
                 x == [y EXCEPT !.status = "stopped", !.energy = n,
                                !.amount = n * Price, !.processed = TRUE,
                                !.paid = @ - Reserve[q] + n * Price]
      <4>1. q \in Sessions /\ Finalize(q, n)
        BY <3>1, <3>2, <3>4
      <4>2. q = rows[r].session
        OBVIOUS
      <4> HIDE DEF q, n, r, m
      <4>3. session' = [session EXCEPT ![q] = x]
        BY <1>0, <3>4, <4>1 DEF Finalize, TypeOK
      <4>4. y \in SessionRows
        BY <1>0, <4>1 DEF TypeOK
      <4>5. x.evse = y.evse
        BY <4>4 DEF SessionRows
      <4> HIDE DEF x
      <4> QED BY <1>0, <2>2, <4>1, <4>2, <4>3, <4>5 DEF TypeOK
    <3> QED BY <3>3, <3>4
  <2> QED BY <2>1, <2>2
<1>5. Grown
  BY <1>0, <1>1, <1>3, <1>4 DEF Grown
<1>6. Stored' /\ Placed'
  BY <1>1, <1>3, <1>5, SameNames DEF OInv
<1>7. /\ \A b \in EVSEs : connectors'[b] = connectors[b] \/ connectors'[b] = "available"
      /\ (\E q \in DOMAIN rows : rows[q].id = Numeric(t)) => connectors'[d] = "available"
  <2>1. connectors' = IF Freed(t) = None THEN connectors
                      ELSE [connectors EXCEPT ![Freed(t)] = "available"]
    BY <1>0 DEF TransactionEnded
  <2>2. (\E q \in DOMAIN rows : rows[q].id = Numeric(t)) => Freed(t) = d
    BY DEF Freed
  <2> HIDE DEF d
  <2>3. d # None /\ connectors \in [EVSEs -> ConnectorStatus]
    BY <1>0, <1>1, Constants DEF TypeOK
  <2> QED BY <1>1, <2>1, <2>2, <2>3
<1>8. connectors'[d] # "occupied" \/ Stranded(d)
  <2>1. CASE \E q \in DOMAIN rows : rows[q].id = Numeric(t)
    BY <1>7, <2>1
  <2>2. CASE ~ \E q \in DOMAIN rows : rows[q].id = Numeric(t)
    <3>1. PICK q \in DOMAIN rows : rows[q].id[1] = t
      BY DEF OInv, Stored
    <3>2. rows[q].evse = d
      BY <3>1 DEF OInv, Placed
    <3>3. rows[q].id = <<rows[q].id[1], rows[q].id[2]>>
      BY <1>0, RowFacts
    <3>4. rows[q].id[2] # run
      BY <2>2, <3>1, <3>3 DEF Numeric
    <3> QED BY <3>2, <3>4 DEF Stranded
  <2> QED BY <2>1, <2>2
<1>9. ASSUME NEW s \in Sessions, session[s].status = "started",
             session'[s].status # "started", session[s].evse \in EVSEs
      PROVE  connectors'[session[s].evse] # "occupied" \/ Stranded(session[s].evse)
  <2>1. OpenRows(t) # {} /\ rows[r].session = s
    BY <1>4, <1>9
  <2>2. r \in DOMAIN rows /\ rows[r].id = Numeric(t)
    BY <1>0, <2>1, OpenRowsFacts DEF OpenRows
  <2>3. rows[r].evse = d
    BY <2>2 DEF OInv, Placed, Numeric
  <2> HIDE DEF r, d
  <2>4. s # None
    BY Constants
  <2>5. CASE session[s].evse = d
    BY <1>7, <2>2, <2>5
  <2>6. CASE session[s].evse # d
    BY <2>1, <2>2, <2>3, <2>4, <2>6 DEF Stranded
  <2> QED BY <2>5, <2>6
<1>10. \A u \in DOMAIN device :
         device[u].state # "over" /\ device'[u].state = "over" =>
           connectors'[device[u].evse] # "occupied" \/ Stranded(device[u].evse)
  BY <1>1, <1>8
<1>11. OccupiedForAReason'
  BY <1>5, <1>7, <1>9, <1>10, ReasonKept
<1> QED BY <1>6, <1>11

LEMMA StopSessionReason ==
  ASSUME OInv, NEW s \in Sessions, StopSession(s)
  PROVE  Stored' /\ Placed' /\ OccupiedForAReason'
<1>0. /\ TypeOK /\ UNCHANGED <<device, rows, run>>
      /\ connectors' = [connectors EXCEPT ![session[s].evse] = "available"]
  BY DEF StopSession, station, bounds, OInv, Inv
<1>1. \A r \in Sessions : /\ session'[r].evse = session[r].evse
                          /\ r # s => session'[r].status = session[r].status
  BY <1>0, SessionFacts DEF StopSession, TypeOK
<1>2. Grown
  BY <1>0, <1>1 DEF Grown
<1>3. /\ \A b \in EVSEs : connectors'[b] = connectors[b] \/ connectors'[b] = "available"
      /\ session[s].evse \in EVSEs => connectors'[session[s].evse] = "available"
  BY <1>0 DEF TypeOK
<1>4. Stored' /\ Placed'
  BY <1>0, <1>2, SameNames DEF OInv
<1>5. OccupiedForAReason'
  BY <1>0, <1>1, <1>2, <1>3, ReasonKept
<1> QED BY <1>4, <1>5

LEMMA BootReason ==
  ASSUME OInv, BootNotification
  PROVE  Stored' /\ Placed' /\ OccupiedForAReason'
<1>0. /\ TypeOK /\ UNCHANGED <<device, rows, run>>
      /\ connectors' = [c \in EVSEs |->
           IF Unstarted # {} /\ connectors[c] = "occupied"
           THEN "available" ELSE connectors[c]]
  BY DEF BootNotification, requests, OInv, Inv
<1>1. \A s \in Sessions : /\ session'[s].evse = session[s].evse
                          /\ s \notin Unstarted => session'[s] = session[s]
  <2> TAKE s \in Sessions
  <2> DEFINE y == session[s]
             x == [y EXCEPT !.status = "error", !.energy = 0, !.amount = 0,
                            !.paid = @ - y.amount]
  <2>1. session'[s] = IF s \in Unstarted THEN x ELSE y
    BY DEF BootNotification
  <2>2. y \in SessionRows
    BY <1>0 DEF TypeOK
  <2>3. x.evse = y.evse
    BY <2>2 DEF SessionRows
  <2> HIDE DEF x
  <2> QED BY <2>1, <2>3
<1>2. Grown
  BY <1>0, <1>1 DEF Grown
<1>3. \A b \in EVSEs : /\ connectors'[b] = connectors[b] \/ connectors'[b] = "available"
                       /\ Unstarted # {} => connectors'[b] # "occupied"
  BY <1>0
<1>4. Stored' /\ Placed'
  BY <1>0, <1>2, SameNames DEF OInv
<1>5. OccupiedForAReason'
  BY <1>0, <1>1, <1>2, <1>3, ReasonKept
<1> QED BY <1>4, <1>5

(* Charging, the end of a transaction at the station, what is lost and     *)
(* what a new process forgets: none of it touches a connector.             *)
LEMMA QuietReason ==
  ASSUME OInv,
         \/ \E s \in Sessions, b \in BOOLEAN : RequestStart(s, b) \/ SendStop(s, b)
         \/ \E c \in EVSEs : PendingExpires(c) \/ Deliver(c)
         \/ Disconnect \/ \E b \in BOOLEAN : Restart(b)
         \/ UNCHANGED vars
  PROVE  Stored' /\ Placed' /\ OccupiedForAReason'
<1>1. UNCHANGED <<session, connectors, device, rows>> /\ run' \in {run, run + 1}
  BY DEF RequestStart, SendStop, PendingExpires, Deliver, Disconnect, Restart,
         NewProcess, station, bounds, vars
<1> QED BY <1>1, PlainStep

LEMMA StationReason ==
  ASSUME OInv, RequestStop \/ \E t \in DOMAIN device : StationEnds(t)
  PROVE  Stored' /\ Placed' /\ OccupiedForAReason'
<1>1. /\ TypeOK /\ UNCHANGED <<session, connectors, rows, run>>
      /\ \/ device' = device
         \/ \E t : device' = [device EXCEPT ![t].state = "ended"]
  BY DEF RequestStop, StationEnds, bounds, OInv, Inv
<1>2. /\ DOMAIN device' = DOMAIN device
      /\ \A t \in DOMAIN device : /\ device'[t].evse = device[t].evse
                                  /\ device'[t].state \in {device[t].state, "ended"}
  BY <1>1, DeviceFacts DEF DeviceTransactions
<1> QED BY <1>1, <1>2, PlainStep

LEMMA UpdatedReason ==
  ASSUME OInv, NEW t \in DOMAIN device, Updated(t)
  PROVE  Stored' /\ Placed' /\ OccupiedForAReason'
<1> DEFINE m == meter[device[t].evse]
<1>0. /\ Inv /\ TypeOK /\ UNCHANGED <<connectors, device, run>>
      /\ rows' = Sampled(entry.id, m) /\ m \in Nat
  BY DeviceFacts, Constants DEF Updated, station, bounds, OInv, Inv, TypeOK
<1>1. /\ DOMAIN rows' = DOMAIN rows
      /\ \A r \in DOMAIN rows :
           /\ rows'[r].id = rows[r].id /\ rows'[r].evse = rows[r].evse
           /\ rows'[r].session = rows[r].session
  <2> DEFINE R == {r \in DOMAIN rows : rows[r].id = entry.id}
             q == Latest(R)
  <2>1. \A r \in DOMAIN rows : rows[r] \in TransactionRows
    BY <1>0, RowFacts
  <2> HIDE DEF m
  <2>2. rows' = rows \/ rows' = [rows EXCEPT ![q].sampled = m]
    BY <1>0 DEF Sampled
  <2> HIDE DEF q
  <2> QED BY <1>0, <2>1, <2>2 DEF TransactionRows
<1>2. \A s \in Sessions : /\ session'[s].status = session[s].status
                          /\ session'[s].evse = session[s].evse
  BY <1>0, SessionFacts DEF Updated, TypeOK
<1> QED BY <1>0, <1>1, <1>2, PlainStep

LEMMA CrashInEndedReason ==
  ASSUME OInv, NEW t \in DOMAIN device, NEW reading \in FinalReading,
         CrashInEnded(t, reading)
  PROVE  Stored' /\ Placed' /\ OccupiedForAReason'
<1> DEFINE m == LastReading(t, reading)
           q == Earliest(OpenRows(t))
<1>0. /\ TypeOK /\ UNCHANGED <<session, connectors, device>> /\ run' = run + 1
      /\ rows' = [rows EXCEPT ![q].stop = m]
  BY DEF CrashInEnded, NewProcess, station, OInv, Inv
<1>1. \A r \in DOMAIN rows : rows[r] \in TransactionRows
  BY <1>0, RowFacts
<1> HIDE DEF m, q
<1>2. /\ DOMAIN rows' = DOMAIN rows
      /\ \A r \in DOMAIN rows :
           /\ rows'[r].id = rows[r].id /\ rows'[r].evse = rows[r].evse
           /\ rows'[r].session = rows[r].session
  BY <1>0, <1>1 DEF TransactionRows
<1> QED BY <1>0, <1>2, PlainStep

LEMMA ReasonStep ==
  ASSUME OInv, [Next]_vars
  PROVE  Stored' /\ Placed' /\ OccupiedForAReason'
BY StartSessionReason, NotificationReason, StartedReason, RepeatStartedReason,
   EndedReason, StopSessionReason, BootReason, QuietReason, StationReason,
   UpdatedReason, CrashInEndedReason DEF Next

(* No interleaving of sessions, transactions, repeated events and status   *)
(* notifications shows a connector of the station as occupied when nothing *)
(* occupies it, but for a restart or a transaction that was given the      *)
(* session of another EVSE.                                                *)
THEOREM NoIdleOccupied == Spec => []OccupiedForAReason
<1>1. Init => OInv
  <2> SUFFICES ASSUME Init PROVE OInv
    OBVIOUS
  <2>1. DOMAIN device = {} /\ DOMAIN rows = {}
    BY DEF Init
  <2>2. OccupiedForAReason
    BY DEF Init, OccupiedForAReason
  <2> QED BY <2>1, <2>2, InitInv DEF OInv, Stored, Placed
<1>2. OInv /\ [Next]_vars => OInv'
  BY ReasonStep, NextInv DEF OInv
<1>3. OInv => OccupiedForAReason
  BY DEF OInv
<1> QED BY <1>1, <1>2, <1>3, PTL DEF Spec
=============================================================================
