------------------------------- MODULE Booking -------------------------------
(***************************************************************************)
(* Bookings of the connectors of one station, and everything else that     *)
(* writes connectors.status: starting and stopping a session, the          *)
(* station's messages and the job that expires bookings.  Money and the    *)
(* details of transactions are in Charging; here a session is a client on  *)
(* a connector, and a transaction knows only whether its session still     *)
(* runs.                                                                   *)
(*                                                                         *)
(* BookingService is synchronous from its first SELECT to its commit, so   *)
(* each of its methods is one step of the event loop.                      *)
(***************************************************************************)
EXTENDS Integers, Sequences

CONSTANTS
  Clients,
  Connectors,
  None,          \* SQL NULL, nobody
  Settled,       \* a transaction whose session has been stopped
  MaxBookings,   \* bound: rows of bookings
  MaxSessions,   \* bound: sessions started
  MaxBoots       \* bound: BootNotifications

ASSUME NobodyAssumption ==
  None \notin Clients \cup Connectors /\ Settled \notin Clients \cup {None}
ASSUME BoundsAssumption ==
  MaxBookings \in Nat /\ MaxSessions \in Nat /\ MaxBoots \in Nat

VARIABLES
  bookings,    \* rows of bookings, in order of insertion
  connector,   \* connectors.status
  online,      \* stations.is_available, which heartbeats keep up
  session,     \* the connector of a client's started session
  asked,       \* whose RemoteStart waits for its plug-in
  running,     \* whose transaction runs at the station
  started,     \* sessions started so far
  boots        \* BootNotifications so far

station == <<asked, running>>
vars == <<bookings, connector, online, session, station, started, boots>>

Statuses == {"active", "used", "expired", "cancelled"}
Reported == {"available", "occupied", "unavailable", "faulted"}

(* What a station may report; Preparing and the other states of a          *)
(* connector in use are mapped like Charging.                              *)
OcppStatuses == {"Available", "Charging", "Reserved", "Unavailable", "Faulted"}

(* overdue: NOW() is past expires_at. *)
Rows == [client: Clients, connector: Connectors, status: Statuses,
         overdue: BOOLEAN]

Active == {b \in DOMAIN bookings : bookings[b].status = "active"}
ActiveOn(c) == {b \in Active : bookings[b].connector = c}
ActiveOf(k) == {b \in Active : bookings[b].client = k}

SetConnector(c, v) == connector' = [connector EXCEPT ![c] = v]

Init ==
  /\ bookings = << >>
  /\ connector = [c \in Connectors |-> "available"]
  /\ online = TRUE
  /\ session = [k \in Clients |-> None]
  /\ asked = [c \in Connectors |-> None]
  /\ running = [c \in Connectors |-> None]
  /\ started = 0 /\ boots = 0

----------------------------------------------------------------------------
(* Bookings.  (Operators named X_Y are mutants of X: the code with the     *)
(* fault Y.)                                                               *)

CreateBooking(k, c) ==
  /\ Len(bookings) < MaxBookings
  /\ ActiveOf(k) = {}
  /\ online
  /\ connector[c] = "available"
  /\ ActiveOn(c) = {}
  /\ bookings' = Append(bookings, [client |-> k, connector |-> c,
                                   status |-> "active", overdue |-> FALSE])
  /\ SetConnector(c, "reserved")
  /\ UNCHANGED <<online, session, station, started, boots>>

(* The connector becomes available whatever its status was. *)
CancelBooking(k, b) ==
  /\ b \in ActiveOf(k)
  /\ bookings' = [bookings EXCEPT ![b].status = "cancelled"]
  /\ SetConnector(bookings[b].connector, "available")
  /\ UNCHANGED <<online, session, station, started, boots>>

PassesExpiry(b) ==
  /\ b \in DOMAIN bookings /\ ~bookings[b].overdue
  /\ bookings' = [bookings EXCEPT ![b].overdue = TRUE]
  /\ UNCHANGED <<connector, online, session, station, started, boots>>

Overdue_AnyStatus == {b \in DOMAIN bookings : bookings[b].overdue}
Overdue_Reserved ==
  {b \in Active : bookings[b].overdue /\ connector[bookings[b].connector] = "reserved"}
Overdue == {b \in Active : bookings[b].overdue}

Expired(c) == \E b \in Overdue : bookings[b].connector = c

ReleaseExpired_Never == connector
(* Unlike a cancellation, the job touches reserved connectors only. *)
ReleaseExpired ==
  [c \in Connectors |-> IF Expired(c) /\ connector[c] = "reserved"
                        THEN "available" ELSE connector[c]]

(* The job that runs every minute. *)
ExpireBookings ==
  /\ Overdue # {}
  /\ bookings' = [b \in DOMAIN bookings |->
                    IF b \in Overdue THEN [bookings[b] EXCEPT !.status = "expired"]
                    ELSE bookings[b]]
  /\ connector' = ReleaseExpired
  /\ UNCHANGED <<online, session, station, started, boots>>

----------------------------------------------------------------------------
(* Sessions *)

HasBooking_Anyones(k, c) == connector[c] = "reserved" /\ ActiveOn(c) # {}
(* validate_connector: a reserved connector is the booker's; an available  *)
(* one is anyone's, and the bookings are not looked at.                    *)
HasBooking(k, c) == connector[c] = "reserved" /\ ActiveOn(c) \cap ActiveOf(k) # {}

(* use_booking, for the row validate_connector found. *)
UseBooking(c) ==
  LET b == CHOOSE b \in ActiveOn(c) : TRUE
  IN  bookings' = [bookings EXCEPT ![b].status = "used"]

(* start_charging_session, with the RemoteStart it sends.  It asks Redis,   *)
(* not the table, whether the station is connected: either may be so.      *)
StartSession(k, c) ==
  /\ started < MaxSessions
  /\ connector[c] = "available" \/ HasBooking(k, c)
  /\ session[k] = None
  /\ session' = [session EXCEPT ![k] = c]
  /\ IF HasBooking(k, c) THEN UseBooking(c) ELSE UNCHANGED bookings
  /\ SetConnector(c, "occupied")
  /\ asked' = [asked EXCEPT ![c] = k]
  /\ started' = started + 1
  /\ UNCHANGED <<online, running, boots>>

(* What the station holds for k's session is the session's no longer. *)
Settle(holder, k) == [c \in Connectors |-> IF session[k] = c /\ holder[c] = k
                                           THEN Settled ELSE holder[c]]

(* stop_charging_session: the connector is available at once; the car may  *)
(* go on charging until the station hears of it.                           *)
StopSession(k) ==
  /\ session[k] # None
  /\ session' = [session EXCEPT ![k] = None]
  /\ SetConnector(session[k], "available")
  /\ asked' = Settle(asked, k)
  /\ running' = Settle(running, k)
  /\ UNCHANGED <<bookings, online, started, boots>>

----------------------------------------------------------------------------
(* The station *)

StartTransaction(c) ==
  /\ asked[c] # None /\ running[c] = None
  /\ running' = [running EXCEPT ![c] = asked[c]]
  /\ asked' = [asked EXCEPT ![c] = None]
  /\ SetConnector(c, "occupied")
  /\ UNCHANGED <<bookings, online, session, started, boots>>

(* The session ends with its transaction, if it has not ended before. *)
StopTransaction(c) ==
  /\ running[c] # None
  /\ running' = [running EXCEPT ![c] = None]
  /\ session' = [k \in Clients |-> IF running[c] = k THEN None ELSE session[k]]
  /\ SetConnector(c, "available")
  /\ UNCHANGED <<bookings, online, asked, started, boots>>

(* connector_status_mapping: a station that says Reserved does not mean a  *)
(* booking of ours, for nothing sends it ReserveNow.                       *)
Mapped(v) ==
  CASE v = "Available" -> "available"  [] v = "Unavailable" -> "unavailable"
    [] v = "Faulted" -> "faulted"      [] v \in {"Charging", "Reserved"} -> "occupied"

(* The station's word replaces the row, a reservation included. *)
StatusNotification(c, v) ==
  /\ SetConnector(c, Mapped(v))
  /\ UNCHANGED <<bookings, online, session, station, started, boots>>

(* on_boot_notification ends the sessions that have no transaction; if     *)
(* there was one, the occupied connectors are freed.                       *)
Unstarted == {k \in Clients : session[k] # None /\ running[session[k]] # k}

BootNotification ==
  /\ boots < MaxBoots
  /\ boots' = boots + 1
  /\ session' = [k \in Clients |-> IF k \in Unstarted THEN None ELSE session[k]]
  /\ connector' = [c \in Connectors |->
                     IF Unstarted # {} /\ connector[c] = "occupied"
                     THEN "available" ELSE connector[c]]
  /\ asked' = [c \in Connectors |-> None]
  /\ UNCHANGED <<bookings, online, running, started>>

(* update_all_station_statuses, after a heartbeat or the lack of one. *)
UpdateStationStatus ==
  /\ online' = ~online
  /\ UNCHANGED <<bookings, connector, session, station, started, boots>>

----------------------------------------------------------------------------

Next ==
  \/ \E k \in Clients :
       \/ \E c \in Connectors : CreateBooking(k, c) \/ StartSession(k, c)
       \/ \E b \in DOMAIN bookings : CancelBooking(k, b)
       \/ StopSession(k)
  \/ \E b \in DOMAIN bookings : PassesExpiry(b)
  \/ ExpireBookings
  \/ \E c \in Connectors :
       \/ StartTransaction(c) \/ StopTransaction(c)
       \/ \E v \in OcppStatuses : StatusNotification(c, v)
  \/ BootNotification
  \/ UpdateStationStatus

Spec == Init /\ [][Next]_vars

(* Time passes and the scheduler runs the job every minute. *)
Fairness ==
  /\ \A b \in 1..MaxBookings : WF_vars(PassesExpiry(b))
  /\ WF_vars(ExpireBookings)

FairSpec == Spec /\ Fairness

----------------------------------------------------------------------------
(* Properties *)

(* The type of the tables and of what the station holds. *)
TypeOK ==
  /\ bookings \in Seq(Rows)
  /\ connector \in [Connectors -> Reported \cup {"reserved"}]
  /\ online \in BOOLEAN
  /\ session \in [Clients -> Connectors \cup {None}]
  /\ asked \in [Connectors -> Clients \cup {None, Settled}]
  /\ running \in [Connectors -> Clients \cup {None, Settled}]
  /\ started \in Nat /\ boots \in Nat

(* A reserved connector has its booking, and only one: whatever ends a     *)
(* booking (its use, its cancellation, the job) takes the connector out of *)
(* reserved, or nobody could ever start there again.                       *)
ReservedIsBooked ==
  \A c \in Connectors : connector[c] = "reserved" =>
    \E b \in ActiveOn(c) : ActiveOn(c) = {b}

(* A booking that was used, cancelled or expired stays so: the job and a   *)
(* late request never rewrite it.                                          *)
EndedIsFinal ==
  [][\A b \in DOMAIN bookings :
       bookings[b].status # "active" => bookings'[b].status = bookings[b].status]_vars

(* A booking is used up only by its own client, by starting on its         *)
(* connector (use_booking itself does not look at the client).             *)
UsedByItsClient ==
  [][\A b \in Active : bookings'[b].status = "used" =>
       LET k == bookings[b].client IN
       session[k] = None /\ session'[k] = bookings[b].connector]_vars

(* No booking stays active for ever, whatever clients and station do.      *)
EveryBookingEnds ==
  \A b \in 1..MaxBookings :
    (b \in Active) ~> (b \in DOMAIN bookings /\ b \notin Active)
=============================================================================
