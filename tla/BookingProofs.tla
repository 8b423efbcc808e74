--------------------------- MODULE BookingProofs ---------------------------
(***************************************************************************)
(* For every set of clients and connectors and every bound: the tables     *)
(* keep their types, a reserved connector has exactly one active booking,  *)
(* an ended booking is never rewritten, and a booking is used up only by   *)
(* the client it belongs to.                                               *)
(***************************************************************************)
EXTENDS Booking, TLAPS

LEMMA RowFacts ==
  ASSUME TypeOK
  PROVE  /\ Len(bookings) \in Nat /\ DOMAIN bookings = 1..Len(bookings)
         /\ \A b \in DOMAIN bookings :
              /\ bookings[b] \in Rows
              /\ bookings[b].client \in Clients
              /\ bookings[b].connector \in Connectors
              /\ bookings[b].status \in Statuses
              /\ bookings[b].overdue \in BOOLEAN
<1>1. bookings \in Seq(Rows)
  BY DEF TypeOK
<1>2. /\ Len(bookings) \in Nat /\ DOMAIN bookings = 1..Len(bookings)
      /\ \A b \in DOMAIN bookings : bookings[b] \in Rows
  BY <1>1
<1> QED BY <1>2 DEF Rows

(* The rows of a sequence of the same length are replaced one by one. *)
LEMMA RowChange ==
  ASSUME TypeOK, NEW f, f = [b \in DOMAIN bookings |-> f[b]],
         \A b \in DOMAIN bookings : f[b] \in Rows, bookings' = f
  PROVE  bookings' \in Seq(Rows) /\ DOMAIN bookings' = DOMAIN bookings
<1>1. bookings' = [b \in 1..Len(bookings) |-> f[b]] /\ Len(bookings) \in Nat
  BY RowFacts
<1>2. \A b \in 1..Len(bookings) : f[b] \in Rows
  BY RowFacts
<1>3. bookings' \in [1..Len(bookings) -> Rows]
  BY <1>1, <1>2
<1>4. bookings' \in Seq(Rows)
  BY <1>1, <1>3
<1>5. DOMAIN bookings' = DOMAIN bookings
  BY <1>1, RowFacts
<1> QED BY <1>4, <1>5

(* The booking a session uses up is an active one of its connector. *)
LEMMA UsedFacts ==
  ASSUME TypeOK, NEW k \in Clients, NEW c \in Connectors, HasBooking(k, c),
         UseBooking(c)
  PROVE  \E b \in ActiveOn(c) : bookings' = [bookings EXCEPT ![b].status = "used"]
<1> DEFINE b == CHOOSE b \in ActiveOn(c) : TRUE
<1>1. b \in ActiveOn(c)
  BY DEF HasBooking
<1>2. bookings' = [bookings EXCEPT ![b].status = "used"]
  BY DEF UseBooking
<1> QED BY <1>1, <1>2

(* The bookings an update of one row leaves on each connector. *)
LEMMA EndOne ==
  ASSUME TypeOK, NEW b \in Active, NEW v \in Statuses \ {"active"},
         bookings' = [bookings EXCEPT ![b].status = v]
  PROVE  /\ bookings' \in Seq(Rows) /\ DOMAIN bookings' = DOMAIN bookings
         /\ bookings'[b].status = v
         /\ \A d \in DOMAIN bookings : d # b => bookings'[d] = bookings[d]
         /\ \A c \in Connectors \ {bookings[b].connector} : ActiveOn(c)' = ActiveOn(c)
<1>1. b \in DOMAIN bookings /\ bookings[b] \in Rows
  BY RowFacts DEF Active
<1>2. bookings' = [bookings EXCEPT ![b] = [bookings[b] EXCEPT !.status = v]]
  OBVIOUS
<1>3. [bookings[b] EXCEPT !.status = v] \in Rows
  BY <1>1 DEF Rows
<1>4. /\ DOMAIN bookings' = DOMAIN bookings
      /\ \A d \in DOMAIN bookings : d # b => bookings'[d] = bookings[d]
      /\ bookings'[b] = [bookings[b] EXCEPT !.status = v]
  BY <1>1, <1>2
<1>5. bookings' = [d \in DOMAIN bookings |-> bookings'[d]]
  BY <1>2
<1>6. bookings' \in Seq(Rows)
  BY <1>3, <1>4, <1>5, RowFacts, RowChange
<1>7. bookings'[b].status = v
  BY <1>1, <1>4 DEF Rows
<1>8. ASSUME NEW c \in Connectors \ {bookings[b].connector}
      PROVE  ActiveOn(c)' = ActiveOn(c)
  <2>1. ASSUME NEW d \in DOMAIN bookings
        PROVE  bookings'[d].status = "active" /\ bookings'[d].connector = c
               <=> bookings[d].status = "active" /\ bookings[d].connector = c
    BY <1>1, <1>4, <1>7 DEF Rows
  <2> QED BY <1>4, <2>1 DEF ActiveOn, Active
<1> QED BY <1>4, <1>6, <1>7, <1>8

(* What a station reports is a status of the table, and never "reserved". *)
LEMMA MappedFacts ==
  ASSUME NEW v \in OcppStatuses
  PROVE  Mapped(v) \in Reported
BY DEF Mapped, OcppStatuses, Reported

(* The job ends exactly the overdue bookings. *)
LEMMA ExpireFacts ==
  ASSUME TypeOK, ExpireBookings
  PROVE  /\ bookings' \in Seq(Rows) /\ DOMAIN bookings' = DOMAIN bookings
         /\ \A b \in Overdue : bookings'[b].status = "expired"
         /\ \A b \in DOMAIN bookings \ Overdue : bookings'[b] = bookings[b]
<1> DEFINE f == [b \in DOMAIN bookings |->
                   IF b \in Overdue THEN [bookings[b] EXCEPT !.status = "expired"]
                   ELSE bookings[b]]
<1>1. bookings' = f
  BY DEF ExpireBookings
<1>2. \A b \in DOMAIN bookings : f[b] \in Rows
  BY RowFacts DEF Rows, Statuses
<1>3. f = [b \in DOMAIN bookings |-> f[b]]
  OBVIOUS
<1>4. \A b \in Overdue : b \in DOMAIN bookings
  BY DEF Overdue, Active
<1>5. \A b \in Overdue : f[b].status = "expired"
  BY <1>4, RowFacts DEF Rows
<1>6. \A b \in DOMAIN bookings \ Overdue : f[b] = bookings[b]
  OBVIOUS
<1> HIDE DEF f
<1>7. bookings' \in Seq(Rows) /\ DOMAIN bookings' = DOMAIN bookings
  BY <1>1, <1>2, <1>3, RowChange
<1> QED BY <1>1, <1>5, <1>6, <1>7

(* The clock touches no column a reservation depends on. *)
LEMMA PassesFacts ==
  ASSUME TypeOK, NEW b \in DOMAIN bookings, PassesExpiry(b)
  PROVE  /\ bookings' \in Seq(Rows) /\ DOMAIN bookings' = DOMAIN bookings
         /\ \A d \in DOMAIN bookings :
              /\ bookings'[d].status = bookings[d].status
              /\ bookings'[d].connector = bookings[d].connector
<1>1. bookings' = [bookings EXCEPT ![b] = [bookings[b] EXCEPT !.overdue = TRUE]]
  BY DEF PassesExpiry
<1>2. bookings[b] \in Rows /\ [bookings[b] EXCEPT !.overdue = TRUE] \in Rows
  BY RowFacts DEF Rows
<1>3. /\ bookings' = [d \in DOMAIN bookings |-> bookings'[d]]
      /\ DOMAIN bookings' = DOMAIN bookings
      /\ bookings'[b] = [bookings[b] EXCEPT !.overdue = TRUE]
      /\ \A d \in DOMAIN bookings : d # b => bookings'[d] = bookings[d]
  BY <1>1
<1>4. \A d \in DOMAIN bookings : bookings'[d] \in Rows
  BY <1>2, <1>3, RowFacts
<1>5. bookings' \in Seq(Rows)
  BY <1>3, <1>4, RowChange
<1>6. ASSUME NEW d \in DOMAIN bookings
      PROVE  /\ bookings'[d].status = bookings[d].status
             /\ bookings'[d].connector = bookings[d].connector
  BY <1>2, <1>3 DEF Rows
<1> QED BY <1>3, <1>5, <1>6

(* A new booking goes to the end of the table. *)
LEMMA CreateFacts ==
  ASSUME TypeOK, NEW k \in Clients, NEW c \in Connectors, CreateBooking(k, c)
  PROVE  LET n == Len(bookings) + 1 IN
         /\ bookings' \in Seq(Rows) /\ DOMAIN bookings' = DOMAIN bookings \cup {n}
         /\ n \notin DOMAIN bookings
         /\ \A b \in DOMAIN bookings : bookings'[b] = bookings[b]
         /\ bookings'[n].status = "active" /\ bookings'[n].connector = c
<1> DEFINE x == [client |-> k, connector |-> c, status |-> "active",
                 overdue |-> FALSE]
<1>1. x \in Rows /\ x.status = "active" /\ x.connector = c
  BY DEF Rows, Statuses
<1>2. bookings' = Append(bookings, x) /\ bookings \in Seq(Rows)
  BY DEF CreateBooking, TypeOK
<1> HIDE DEF x
<1>3. /\ bookings' \in Seq(Rows)
      /\ Len(bookings') = Len(bookings) + 1
      /\ bookings'[Len(bookings) + 1] = x
      /\ \A b \in 1..Len(bookings) : bookings'[b] = bookings[b]
  BY <1>1, <1>2
<1>4. /\ DOMAIN bookings = 1..Len(bookings)
      /\ DOMAIN bookings' = 1..Len(bookings')
      /\ Len(bookings) \in Nat
  BY <1>2, <1>3
<1> QED BY <1>1, <1>3, <1>4

(* Every step keeps the types. *)
LEMMA TypeStep == TypeOK /\ [Next]_vars => TypeOK'
<1> SUFFICES ASSUME TypeOK, [Next]_vars PROVE TypeOK'
  OBVIOUS
<1> USE DEF station, SetConnector
<1>0. Reported \cup {"reserved"}
        = {"available", "occupied", "unavailable", "faulted", "reserved"}
  BY DEF Reported
<1>1. ASSUME NEW k \in Clients, NEW c \in Connectors, CreateBooking(k, c)
      PROVE  TypeOK'
  BY <1>0, <1>1, CreateFacts DEF TypeOK, CreateBooking
<1>2. ASSUME NEW k \in Clients, NEW b \in DOMAIN bookings, CancelBooking(k, b)
      PROVE  TypeOK'
  <2>1. b \in Active /\ bookings' = [bookings EXCEPT ![b].status = "cancelled"]
    BY <1>2 DEF CancelBooking, ActiveOf
  <2>2. bookings' \in Seq(Rows)
    BY <2>1, EndOne DEF Statuses
  <2>3. bookings[b].connector \in Connectors
    BY RowFacts
  <2> QED BY <1>0, <1>2, <2>2, <2>3 DEF TypeOK, CancelBooking
<1>3. ASSUME NEW k \in Clients, NEW c \in Connectors, StartSession(k, c)
      PROVE  TypeOK'
  <2>1. bookings' \in Seq(Rows)
    <3>1. CASE HasBooking(k, c)
      <4>1. PICK b \in ActiveOn(c) :
              bookings' = [bookings EXCEPT ![b].status = "used"]
        BY <1>3, <3>1, UsedFacts DEF StartSession
      <4> QED BY <4>1, EndOne DEF Statuses, ActiveOn
    <3>2. CASE ~HasBooking(k, c)
      BY <1>3, <3>2 DEF StartSession, TypeOK
    <3> QED BY <3>1, <3>2
  <2> QED BY <1>0, <1>3, <2>1 DEF TypeOK, StartSession
<1>4. ASSUME NEW k \in Clients, StopSession(k)
      PROVE  TypeOK'
  <2>1. /\ Settle(asked, k) \in [Connectors -> Clients \cup {None, Settled}]
        /\ Settle(running, k) \in [Connectors -> Clients \cup {None, Settled}]
    BY DEF TypeOK, Settle
  <2>2. session[k] \in Connectors
    BY <1>4 DEF TypeOK, StopSession
  <2> QED BY <1>0, <1>4, <2>1, <2>2 DEF TypeOK, StopSession
<1>5. ASSUME NEW b \in DOMAIN bookings, PassesExpiry(b)
      PROVE  TypeOK'
  BY <1>5, PassesFacts DEF TypeOK, PassesExpiry
<1>6. CASE ExpireBookings
  <2>1. ReleaseExpired \in [Connectors -> Reported \cup {"reserved"}]
    BY <1>0 DEF TypeOK, ReleaseExpired
  <2> QED BY <1>6, <2>1, ExpireFacts DEF TypeOK, ExpireBookings
<1>7. ASSUME NEW c \in Connectors, StartTransaction(c) \/ StopTransaction(c)
      PROVE  TypeOK'
  <2>1. CASE StartTransaction(c)
    BY <1>0, <2>1 DEF TypeOK, StartTransaction
  <2>2. CASE StopTransaction(c)
    BY <1>0, <2>2 DEF TypeOK, StopTransaction
  <2> QED BY <1>7, <2>1, <2>2
<1>8. ASSUME NEW c \in Connectors, NEW v \in OcppStatuses, StatusNotification(c, v)
      PROVE  TypeOK'
  BY <1>8, MappedFacts DEF TypeOK, StatusNotification
<1>9. CASE BootNotification
  BY <1>0, <1>9 DEF TypeOK, BootNotification
<1>10. CASE UpdateStationStatus
  BY <1>10 DEF TypeOK, UpdateStationStatus
<1>11. CASE UNCHANGED vars
  BY <1>11 DEF TypeOK, vars
<1> QED
  BY <1>1, <1>2, <1>3, <1>4, <1>5, <1>6, <1>7, <1>8, <1>9, <1>10, <1>11 DEF Next

(* The tables and what the station holds keep their types. *)
THEOREM TypeCorrect == Spec => []TypeOK
<1>1. Init => TypeOK
  BY DEF Init, TypeOK, Reported
<1>2. TypeOK /\ [Next]_vars => TypeOK'
  BY TypeStep
<1> QED BY <1>1, <1>2, PTL DEF Spec

(* A step that puts no connector into reserved, and changes the bookings   *)
(* of those that are not reserved only, keeps reservations booked.         *)
LEMMA ReservedKept ==
  ASSUME ReservedIsBooked,
         \A c \in Connectors : connector'[c] = "reserved" =>
           connector[c] = "reserved" /\ ActiveOn(c)' = ActiveOn(c)
  PROVE  ReservedIsBooked'
<1> SUFFICES ASSUME NEW c \in Connectors, connector'[c] = "reserved"
             PROVE  \E b \in ActiveOn(c)' : ActiveOn(c)' = {b}
  BY DEF ReservedIsBooked
<1>1. PICK b \in ActiveOn(c) : ActiveOn(c) = {b}
  BY DEF ReservedIsBooked
<1> QED BY <1>1

(* Untouched bookings stay where they are. *)
LEMMA SameBookings ==
  ASSUME bookings' = bookings
  PROVE  \A c \in Connectors : ActiveOn(c)' = ActiveOn(c)
BY DEF ActiveOn, Active

LEMMA ReservedStep ==
  TypeOK /\ ReservedIsBooked /\ [Next]_vars => ReservedIsBooked'
<1> SUFFICES ASSUME TypeOK, ReservedIsBooked, [Next]_vars
             PROVE  ReservedIsBooked'
  OBVIOUS
<1> USE DEF SetConnector
<1>0. connector \in [Connectors -> Reported \cup {"reserved"}]
  BY DEF TypeOK
<1>1. ASSUME NEW k \in Clients, NEW c \in Connectors, CreateBooking(k, c)
      PROVE  ReservedIsBooked'
  <2> DEFINE n == Len(bookings) + 1
  <2>1. /\ DOMAIN bookings' = DOMAIN bookings \cup {n} /\ n \notin DOMAIN bookings
        /\ \A b \in DOMAIN bookings : bookings'[b] = bookings[b]
        /\ bookings'[n].status = "active" /\ bookings'[n].connector = c
    BY <1>1, CreateFacts
  <2> HIDE DEF n
  <2>2. ActiveOn(c) = {}
    BY <1>1 DEF CreateBooking
  <2>3. ActiveOn(c)' = {n}
    BY <2>1, <2>2 DEF ActiveOn, Active
  <2>4. \A d \in Connectors \ {c} : ActiveOn(d)' = ActiveOn(d)
    BY <2>1 DEF ActiveOn, Active
  <2>5. \A d \in Connectors \ {c} : connector'[d] = connector[d]
    BY <1>0, <1>1 DEF CreateBooking
  <2> QED BY <2>3, <2>4, <2>5 DEF ReservedIsBooked
<1>2. ASSUME NEW k \in Clients, NEW b \in DOMAIN bookings, CancelBooking(k, b)
      PROVE  ReservedIsBooked'
  <2>1. b \in Active /\ bookings' = [bookings EXCEPT ![b].status = "cancelled"]
    BY <1>2 DEF CancelBooking, ActiveOf
  <2>2. \A c \in Connectors \ {bookings[b].connector} : ActiveOn(c)' = ActiveOn(c)
    BY <2>1, EndOne DEF Statuses
  <2>3. connector' = [connector EXCEPT ![bookings[b].connector] = "available"]
    BY <1>2 DEF CancelBooking
  <2>4. bookings[b].connector \in Connectors
    BY RowFacts
  <2>5. \A c \in Connectors : connector'[c] = "reserved" =>
          connector[c] = "reserved" /\ c # bookings[b].connector
    BY <1>0, <2>3, <2>4
  <2> QED BY <2>2, <2>5, ReservedKept
<1>3. ASSUME NEW k \in Clients, NEW c \in Connectors, StartSession(k, c)
      PROVE  ReservedIsBooked'
  <2>1. \A d \in Connectors \ {c} : ActiveOn(d)' = ActiveOn(d)
    <3>1. CASE HasBooking(k, c)
      <4>1. PICK b \in ActiveOn(c) :
              bookings' = [bookings EXCEPT ![b].status = "used"]
        BY <1>3, <3>1, UsedFacts DEF StartSession
      <4>2. b \in Active /\ bookings[b].connector = c
        BY <4>1 DEF ActiveOn
      <4> QED BY <4>1, <4>2, EndOne DEF Statuses
    <3>2. CASE ~HasBooking(k, c)
      BY <1>3, <3>2, SameBookings DEF StartSession
    <3> QED BY <3>1, <3>2
  <2>2. \A d \in Connectors : connector'[d] = "reserved" =>
          connector[d] = "reserved" /\ d # c
    BY <1>0, <1>3 DEF StartSession
  <2> QED BY <2>1, <2>2, ReservedKept
<1>4. CASE ExpireBookings
  <2> SUFFICES ASSUME NEW c \in Connectors, connector'[c] = "reserved"
               PROVE  connector[c] = "reserved" /\ ActiveOn(c)' = ActiveOn(c)
    BY ReservedKept
  <2>1. connector[c] = "reserved" /\ ~Expired(c)
    BY <1>4 DEF ExpireBookings, ReleaseExpired
  <2>2. ASSUME NEW b \in DOMAIN bookings
        PROVE  bookings'[b].status = "active" /\ bookings'[b].connector = c
               <=> bookings[b].status = "active" /\ bookings[b].connector = c
    <3>1. CASE b \in Overdue
      BY <1>4, <2>1, <3>1, ExpireFacts DEF Expired
    <3>2. CASE b \notin Overdue
      BY <1>4, <3>2, ExpireFacts
    <3> QED BY <3>1, <3>2
  <2>3. DOMAIN bookings' = DOMAIN bookings
    BY <1>4, ExpireFacts
  <2> QED BY <2>1, <2>2, <2>3 DEF ActiveOn, Active
<1>5. ASSUME NEW b \in DOMAIN bookings, PassesExpiry(b)
      PROVE  ReservedIsBooked'
  <2>1. \A c \in Connectors : ActiveOn(c)' = ActiveOn(c)
    BY <1>5, PassesFacts DEF ActiveOn, Active
  <2> QED BY <1>5, <2>1, ReservedKept DEF PassesExpiry
<1>6. ASSUME NEW k \in Clients, StopSession(k)
      PROVE  ReservedIsBooked'
  BY <1>0, <1>6, SameBookings, ReservedKept DEF StopSession
<1>7. ASSUME NEW c \in Connectors, StartTransaction(c) \/ StopTransaction(c)
      PROVE  ReservedIsBooked'
  BY <1>0, <1>7, SameBookings, ReservedKept DEF StartTransaction, StopTransaction
<1>8. ASSUME NEW c \in Connectors, NEW v \in OcppStatuses, StatusNotification(c, v)
      PROVE  ReservedIsBooked'
  <2>1. Mapped(v) # "reserved"
    BY MappedFacts DEF Reported
  <2> QED BY <1>0, <1>8, <2>1, SameBookings, ReservedKept DEF StatusNotification
<1>9. CASE BootNotification
  BY <1>0, <1>9, SameBookings, ReservedKept DEF BootNotification
<1>10. CASE UpdateStationStatus \/ UNCHANGED vars
  BY <1>10, SameBookings, ReservedKept DEF UpdateStationStatus, vars
<1> QED
  BY <1>1, <1>2, <1>3, <1>4, <1>5, <1>6, <1>7, <1>8, <1>9, <1>10 DEF Next

Inv == TypeOK /\ ReservedIsBooked

LEMMA Invariant == Spec => []Inv
<1>1. Init => Inv
  BY DEF Init, Inv, TypeOK, ReservedIsBooked, Reported
<1>2. Inv /\ [Next]_vars => Inv'
  BY TypeStep, ReservedStep DEF Inv
<1> QED BY <1>1, <1>2, PTL DEF Spec

(* A reserved connector has exactly one active booking, its own: the four  *)
(* writers of connectors.status and the job never leave it reserved for    *)
(* nobody.                                                                 *)
THEOREM NoOrphanReservation == Spec => []ReservedIsBooked
<1>1. Inv => ReservedIsBooked
  BY DEF Inv
<1> QED BY <1>1, Invariant, PTL

(* What a step may do to an existing booking: nothing but end an active    *)
(* one, and use it up only when a session starts on its connector.         *)
LEMMA BookingStep ==
  ASSUME Inv, [Next]_vars, NEW b \in DOMAIN bookings
  PROVE  /\ bookings[b].status # "active" =>
              bookings'[b].status = bookings[b].status
         /\ bookings[b].status = "active" /\ bookings'[b].status = "used" =>
              \E c \in Connectors :
                /\ StartSession(bookings[b].client, c)
                /\ bookings[b].connector = c
<1> DEFINE Goal ==
      /\ bookings[b].status # "active" => bookings'[b].status = bookings[b].status
      /\ bookings[b].status = "active" /\ bookings'[b].status = "used" =>
           \E c \in Connectors : /\ StartSession(bookings[b].client, c)
                                 /\ bookings[b].connector = c
<1> SUFFICES Goal
  OBVIOUS
<1>0. TypeOK /\ ReservedIsBooked
  BY DEF Inv
<1>1. ASSUME NEW k \in Clients, NEW c \in Connectors, CreateBooking(k, c)
      PROVE  Goal
  BY <1>0, <1>1, CreateFacts
<1>2. ASSUME NEW k \in Clients, NEW d \in DOMAIN bookings, CancelBooking(k, d)
      PROVE  Goal
  <2>1. d \in Active /\ bookings' = [bookings EXCEPT ![d].status = "cancelled"]
    BY <1>2 DEF CancelBooking, ActiveOf
  <2>2. /\ bookings[d].status = "active" /\ bookings'[d].status = "cancelled"
        /\ b # d => bookings'[b] = bookings[b]
    BY <1>0, <2>1, EndOne DEF Statuses, Active
  <2> QED BY <2>2
<1>3. ASSUME NEW k \in Clients, NEW c \in Connectors, StartSession(k, c)
      PROVE  Goal
  <2>1. CASE HasBooking(k, c)
    <3>1. PICK d \in ActiveOn(c) :
            bookings' = [bookings EXCEPT ![d].status = "used"]
      BY <1>0, <1>3, <2>1, UsedFacts DEF StartSession
    <3>2. /\ bookings[d].status = "active" /\ bookings[d].connector = c
          /\ b # d => bookings'[b] = bookings[b]
      BY <1>0, <3>1, EndOne DEF Statuses, ActiveOn, Active
    <3>3. bookings[d].client = k
      <4>1. PICK e \in ActiveOn(c) : ActiveOn(c) = {e}
        BY <1>0, <2>1 DEF HasBooking, ReservedIsBooked
      <4>2. d \in ActiveOf(k)
        BY <2>1, <3>1, <4>1 DEF HasBooking
      <4> QED BY <4>2 DEF ActiveOf
    <3> QED BY <1>3, <3>2, <3>3
  <2>2. CASE ~HasBooking(k, c)
    BY <1>3, <2>2 DEF StartSession
  <2> QED BY <2>1, <2>2
<1>4. CASE ExpireBookings
  <2>1. CASE b \in Overdue
    BY <1>0, <1>4, <2>1, ExpireFacts DEF Overdue, Active
  <2>2. CASE b \notin Overdue
    BY <1>0, <1>4, <2>2, ExpireFacts
  <2> QED BY <2>1, <2>2
<1>5. ASSUME NEW d \in DOMAIN bookings, PassesExpiry(d)
      PROVE  Goal
  BY <1>0, <1>5, PassesFacts
<1>6. ASSUME NEW k \in Clients, StopSession(k)
      PROVE  Goal
  BY <1>6 DEF StopSession
<1>7. ASSUME NEW c \in Connectors,
             \/ StartTransaction(c) \/ StopTransaction(c)
             \/ \E v \in OcppStatuses : StatusNotification(c, v)
      PROVE  Goal
  BY <1>7 DEF StartTransaction, StopTransaction, StatusNotification
<1>8. CASE BootNotification \/ UpdateStationStatus \/ UNCHANGED vars
  BY <1>8 DEF BootNotification, UpdateStationStatus, vars
<1> HIDE DEF Goal
<1> QED
  BY <1>1, <1>2, <1>3, <1>4, <1>5, <1>6, <1>7, <1>8 DEF Next

(* A booking that was used, cancelled or expired is never rewritten: a     *)
(* late job or request finds only active ones.                             *)
THEOREM EndedForGood == Spec => EndedIsFinal
<1>1. Inv /\ [Next]_vars =>
        [\A b \in DOMAIN bookings :
           bookings[b].status # "active" => bookings'[b].status = bookings[b].status]_vars
  BY BookingStep
<1> QED BY <1>1, Invariant, PTL DEF Spec, EndedIsFinal

(* use_booking never looks at the client; it does not have to, for a       *)
(* reserved connector has one active booking and the validator asked for   *)
(* the client's.                                                           *)
THEOREM UsedByItsOwner == Spec => UsedByItsClient
<1> DEFINE Step ==
      \A b \in Active : bookings'[b].status = "used" =>
        LET k == bookings[b].client IN
        session[k] = None /\ session'[k] = bookings[b].connector
<1>1. ASSUME Inv, [Next]_vars PROVE Step
  <2> SUFFICES ASSUME NEW b \in Active, bookings'[b].status = "used"
               PROVE  /\ session[bookings[b].client] = None
                      /\ session'[bookings[b].client] = bookings[b].connector
    OBVIOUS
  <2>1. b \in DOMAIN bookings /\ bookings[b].status = "active"
    BY DEF Active
  <2>2. PICK c \in Connectors :
          StartSession(bookings[b].client, c) /\ bookings[b].connector = c
    BY <1>1, <2>1, BookingStep
  <2>3. bookings[b].client \in Clients /\ session \in [Clients -> Connectors \cup {None}]
    BY <1>1, <2>1, RowFacts DEF Inv, TypeOK
  <2> QED BY <2>2, <2>3 DEF StartSession
<1>2. Inv /\ [Next]_vars => [Step]_vars
  BY <1>1
<1> QED BY <1>2, Invariant, PTL DEF Spec, UsedByItsClient
=============================================================================
