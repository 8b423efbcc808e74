--------------------------- MODULE RegistryProofs ---------------------------
(***************************************************************************)
(* What the backend knows of its stations, for all constants: the          *)
(* connections each has (Stations), and the register of where they stand   *)
(* (Places, here Map).                                                     *)
(*                                                                         *)
(* Connections: the registry keeps its type, the slots of an address count *)
(* its open connections, and a served connection that met no other of its  *)
(* station is known to the backend and subscribed to its commands.         *)
(*                                                                         *)
(* Register: wherever the stations are at first, no two of them ever have  *)
(* one EVSE id.  The id is made of the number of the location, which only  *)
(* grows, and of one more than the greatest number there; a station that   *)
(* moves away frees its number, so that what has to be shown is that ids   *)
(* and places go together in every state.                                  *)
(***************************************************************************)
EXTENDS Stations, Register, WellFoundedInduction, FiniteSetTheorems, TLAPS

(* The register: what Places declares besides, None apart, which both use. *)
CONSTANTS Places, AtFirst, Requests, TTL, MaxConnectors, MaxChanges
VARIABLES locations, connectors, nextseq, cache, drops, dropsAll, req, changes

Map == INSTANCE Places

(* What Places assumes of its constants. *)
MapAssumption == Map!PlacesAssumption

----------------------------------------------------------------------------
(* Types *)

LEMMA InitTypes == Init => TypeOK
<1> SUFFICES ASSUME Init PROVE TypeOK
  OBVIOUS
<1>1. /\ phase \in [Connections -> Phases]
      /\ listener \in [Connections -> Listeners]
      /\ victim \in [Connections -> Connections \cup {None}]
      /\ handler \in Connections \cup {None} /\ pubsub \in Connections \cup {None}
  BY DEF Init, Phases, Listeners
<1>2. /\ subscribed \subseteq Connections /\ recent \subseteq Connections
      /\ disturbed \subseteq Connections
      /\ slots \in Nat /\ asking \in Nat /\ lapsed \in Nat
      /\ faults \in Nat /\ restarts \in Nat
  BY DEF Init
<1>3. online \in BOOLEAN
  BY DEF Init
<1> QED BY <1>1, <1>2, <1>3 DEF TypeOK

THEOREM TypeCorrect == Spec => []TypeOK
<1>1. Init => TypeOK
  BY InitTypes
<1>2. TypeOK /\ [Next]_vars => TypeOK'
  <2> SUFFICES ASSUME TypeOK, [Next]_vars PROVE TypeOK'
    OBVIOUS
  <2> USE BoundsAssumption DEF TypeOK, conns, registry, admitted, refresh, history
  <2>1. ASSUME NEW c \in Connections,
               \/ Connect(c) \/ TurnAway(c) \/ MinutePasses(c)
               \/ Accept(c) \/ Register(c)
        PROVE  TypeOK'
    <3>1. Live \subseteq Connections
      BY DEF Live
    <3>2. CASE Connect(c)
      BY <3>1, <3>2 DEF Connect, Phases
    <3>3. CASE TurnAway(c)
      BY <3>3 DEF TurnAway, Phases
    <3>4. CASE MinutePasses(c) \/ Accept(c) \/ Register(c)
      BY <3>4 DEF MinutePasses, Accept, Register, Phases, Listeners
    <3> QED BY <2>1, <3>2, <3>3, <3>4
  <2>2. ASSUME NEW c \in Connections,
               \/ Subscribe(c) \/ Confirm(c) \/ HandleCommand(c) \/ CommandEnds(c)
               \/ ListenerEnds(c)
        PROVE  TypeOK'
    BY <2>2 DEF Subscribe, Confirm, HandleCommand, CommandEnds, ListenerEnds,
                Listeners
  <2>3. ASSUME NEW c \in Connections,
               CancelledRuns(c) \/ Unsubscribed(c) \/ RedisDrops(c)
        PROVE  TypeOK'
    BY <2>3 DEF CancelledRuns, Unsubscribed, RedisDrops, StopListening, Listeners
  <2>4. ASSUME NEW c \in Connections,
               \/ Heartbeat(c) \/ Close(c) \/ Unregister(c)
               \/ UnsubscribeVictim(c) \/ Leave(c) \/ CleanupFails(c)
        PROVE  TypeOK'
    <3>1. CASE Heartbeat(c)
      BY <3>1 DEF Heartbeat
    <3>2. CASE Close(c)
      BY <3>2 DEF Close, Cancelled, Phases, Listeners
    <3>3. CASE Unregister(c)
      BY <3>3 DEF Unregister, Phases
    <3>4. CASE UnsubscribeVictim(c)
      BY <3>4 DEF UnsubscribeVictim, Phases
    <3>5. CASE Leave(c) \/ CleanupFails(c)
      BY <3>5 DEF Leave, CleanupFails, Released, Phases
    <3> QED BY <2>4, <3>1, <3>2, <3>3, <3>4, <3>5
  <2>5. CASE RefreshAnswered \/ RefreshRegisters \/ KeyExpires
    <3>1. asking' \in Nat /\ lapsed' \in Nat
      BY <2>5 DEF RefreshAnswered, RefreshRegisters, KeyExpires
    <3>2. online' \in BOOLEAN
      BY <2>5, Zenon DEF RefreshAnswered, RefreshRegisters, KeyExpires
    <3>3. UNCHANGED <<conns, registry, subscribed, admitted, history>>
      BY <2>5 DEF RefreshAnswered, RefreshRegisters, KeyExpires
    <3> QED BY <3>1, <3>2, <3>3
  <2>6. CASE Restart
    <3>1. /\ phase' \in [Connections -> Phases]
          /\ listener' \in [Connections -> Listeners]
          /\ victim' \in [Connections -> Connections \cup {None}]
      BY <2>6 DEF Restart, Phases, Listeners
    <3>2. /\ restarts' \in Nat /\ slots' \in Nat
          /\ asking' \in Nat /\ lapsed' \in Nat /\ recent' \subseteq Connections
          /\ handler' = None /\ pubsub' = None /\ subscribed' \subseteq Connections
          /\ UNCHANGED <<online, disturbed, faults>>
      BY <2>6 DEF Restart
    <3> QED BY <3>1, <3>2
  <2>7. CASE UNCHANGED vars
    BY <2>7 DEF vars
  <2> QED BY <2>1, <2>2, <2>3, <2>4, <2>5, <2>6, <2>7 DEF Next
<1> QED BY <1>1, <1>2, PTL DEF Spec

----------------------------------------------------------------------------
(* Connections that open and close *)

LEMMA LiveIsFinite ==
  /\ Live \subseteq Connections
  /\ IsFiniteSet(Live) /\ Cardinality(Live) \in Nat
<1>1. Live \subseteq Connections
  BY DEF Live
<1>2. IsFiniteSet(Live)
  BY <1>1, ConnectionsAssumption, FS_Subset
<1> QED BY <1>1, <1>2, FS_CardinalityType

(* A step opens one connection, closes one, closes all, or none. *)
LEMMA LiveSteps ==
  ASSUME TypeOK, [Next]_vars
  PROVE  \/ \E c \in Connections \ Live : Connect(c) /\ Live' = Live \cup {c}
         \/ \E c \in Live : (Leave(c) \/ CleanupFails(c)) /\ Live' = Live \ {c}
         \/ Restart /\ Live' = {}
         \/ Live' = Live /\ slots' = slots /\ disturbed \subseteq disturbed'
<1> USE DEF TypeOK, Live
<1>1. ASSUME NEW c \in Connections, Connect(c)
      PROVE  c \notin Live /\ Live' = Live \cup {c}
  BY <1>1 DEF Connect
<1>2. ASSUME NEW c \in Connections, Leave(c) \/ CleanupFails(c)
      PROVE  c \in Live /\ Live' = Live \ {c}
  BY <1>2 DEF Leave, CleanupFails
<1>3. ASSUME Restart
      PROVE  Live' = {}
  BY <1>3 DEF Restart
<1> DEFINE Same == Live' = Live /\ slots' = slots /\ disturbed \subseteq disturbed'
<1> USE DEF conns, registry, admitted, refresh, history
<1>4. ASSUME NEW c \in Connections,
             \/ TurnAway(c) \/ MinutePasses(c) \/ Accept(c) \/ Register(c)
             \/ Heartbeat(c) \/ Close(c) \/ Unregister(c) \/ UnsubscribeVictim(c)
      PROVE  Same
  <2>1. CASE TurnAway(c)
    BY <2>1 DEF TurnAway
  <2>2. CASE MinutePasses(c) \/ Heartbeat(c)
    BY <2>2 DEF MinutePasses, Heartbeat
  <2>3. CASE Accept(c) \/ Register(c)
    BY <2>3 DEF Accept, Register
  <2>4. CASE Close(c) \/ UnsubscribeVictim(c)
    BY <2>4 DEF Close, UnsubscribeVictim
  <2>5. CASE Unregister(c)
    BY <2>5 DEF Unregister
  <2> QED BY <1>4, <2>1, <2>2, <2>3, <2>4, <2>5
<1>5. ASSUME NEW c \in Connections,
             \/ Subscribe(c) \/ Confirm(c) \/ HandleCommand(c) \/ CommandEnds(c)
             \/ CancelledRuns(c) \/ Unsubscribed(c) \/ RedisDrops(c)
             \/ ListenerEnds(c)
      PROVE  Same
  BY <1>5 DEF Subscribe, Confirm, HandleCommand, CommandEnds, CancelledRuns,
              Unsubscribed, RedisDrops, ListenerEnds, StopListening
<1>6. CASE RefreshAnswered \/ RefreshRegisters \/ KeyExpires \/ UNCHANGED vars
  BY <1>6 DEF RefreshAnswered, RefreshRegisters, KeyExpires, vars
<1> HIDE DEF Same, Live
<1> QED
  <2>1. Same => Live' = Live /\ slots' = slots /\ disturbed \subseteq disturbed'
    BY DEF Same
  <2>2. \A c \in Live : c \in Connections
    BY LiveIsFinite
  <2> QED BY <1>1, <1>2, <1>3, <1>4, <1>5, <1>6, <2>1, <2>2 DEF Next

(* However a handler ends, its slot is released once. *)
THEOREM SlotsAreCounted == Spec => []SlotsCountConnections
<1>1. Init => SlotsCountConnections
  <2> SUFFICES ASSUME Init PROVE SlotsCountConnections
    OBVIOUS
  <2>1. Live = {}
    BY DEF Init, Live
  <2> QED BY <2>1, FS_EmptySet DEF Init, SlotsCountConnections
<1>2. TypeOK /\ SlotsCountConnections /\ [Next]_vars => SlotsCountConnections'
  <2> SUFFICES ASSUME TypeOK, SlotsCountConnections, [Next]_vars
               PROVE  slots' = Cardinality(Live')
    BY DEF SlotsCountConnections
  <2>0. slots = Cardinality(Live) /\ IsFiniteSet(Live) /\ slots \in Nat
    BY LiveIsFinite DEF SlotsCountConnections
  <2>1. ASSUME NEW c \in Connections \ Live, Connect(c), Live' = Live \cup {c}
        PROVE  slots' = Cardinality(Live')
    <3>1. Cardinality(Live') = Cardinality(Live) + 1
      BY <2>0, <2>1, FS_AddElement
    <3> QED BY <2>0, <2>1, <3>1 DEF Connect
  <2>2. ASSUME NEW c \in Live, Leave(c) \/ CleanupFails(c), Live' = Live \ {c}
        PROVE  slots' = Cardinality(Live')
    <3>1. Cardinality(Live') = Cardinality(Live) - 1
      BY <2>0, <2>2, FS_RemoveElement
    <3>2. slots > 0
      <4>1. Live # {}
        BY <2>2
      <4> QED BY <2>0, <4>1, FS_EmptySet
    <3>3. slots' = slots - 1
      BY <2>2, <3>2 DEF Leave, CleanupFails, Released
    <3> QED BY <2>0, <3>1, <3>3
  <2>3. ASSUME Restart, Live' = {}
        PROVE  slots' = Cardinality(Live')
    BY <2>3, FS_EmptySet DEF Restart
  <2>4. ASSUME Live' = Live, slots' = slots
        PROVE  slots' = Cardinality(Live')
    BY <2>0, <2>4
  <2> QED BY <2>1, <2>2, <2>3, <2>4, LiveSteps
<1> QED BY <1>1, <1>2, TypeCorrect, PTL DEF Spec

----------------------------------------------------------------------------
(* Being heard *)

(* Connections that are open together are marked as disturbed. *)
Met == \A c, d \in Live : c # d => c \in disturbed

(* The subscription outlives every command the listener handles. *)
Heard(c) ==
  phase[c] = "serving" =>
    /\ handler = c
    /\ \/ listener[c] = "subscribing"
       \/ listener[c] \in {"listening", "calling"} /\ c \in subscribed

Inv == TypeOK /\ Met /\ \A c \in Connections \ disturbed : Heard(c)

LEMMA MetStep ==
  ASSUME TypeOK, Met, [Next]_vars
  PROVE  Met'
<1>1. ASSUME NEW c \in Connections \ Live, Connect(c), Live' = Live \cup {c}
      PROVE  Met'
  <2>1. CASE Live = {}
    BY <1>1, <2>1 DEF Met
  <2>2. CASE Live # {}
    BY <1>1, <2>2 DEF Met, Connect
  <2> QED BY <2>1, <2>2
<1>2. ASSUME NEW c \in Live, Leave(c) \/ CleanupFails(c), Live' = Live \ {c}
      PROVE  Met'
  BY <1>2 DEF Met, Leave, CleanupFails, history
<1>3. ASSUME Restart, Live' = {}
      PROVE  Met'
  BY <1>3 DEF Met
<1>4. ASSUME Live' = Live, disturbed \subseteq disturbed'
      PROVE  Met'
  BY <1>4 DEF Met
<1> QED BY <1>1, <1>2, <1>3, <1>4, LiveSteps

(* Another connection that registers or is cleaned up is open at the same  *)
(* time: it disturbs.                                                      *)
LEMMA HeardStep ==
  ASSUME Inv, [Next]_vars, NEW c \in Connections, c \notin disturbed'
  PROVE  Heard(c)'
<1> USE DEF conns, registry, admitted, refresh, history
<1>0. /\ TypeOK /\ Met
      /\ c \notin disturbed => Heard(c)
      /\ c \in Live \/ phase[c] # "serving"
  BY DEF Inv, Live
<1>1. c \notin disturbed
  <2>1. disturbed \subseteq disturbed'
    BY <1>0, LiveSteps DEF Connect, Leave, CleanupFails, Restart
  <2> QED BY <2>1
<1>2. Heard(c)
  BY <1>0, <1>1
<1>3. \A d \in Live : d # c => phase[c] # "serving"
  BY <1>0, <1>1 DEF Met
<1> USE <1>2 DEF Heard, TypeOK
<1>4. ASSUME NEW d \in Connections,
             \/ Connect(d) \/ TurnAway(d) \/ MinutePasses(d) \/ Accept(d)
             \/ Heartbeat(d)
      PROVE  Heard(c)'
  <2>1. CASE Connect(d)
    BY <1>0, <2>1 DEF Connect
  <2>2. CASE TurnAway(d) \/ Accept(d)
    BY <1>0, <2>2 DEF TurnAway, Accept
  <2>3. CASE MinutePasses(d) \/ Heartbeat(d)
    BY <1>0, <2>3 DEF MinutePasses, Heartbeat
  <2> QED BY <1>4, <2>1, <2>2, <2>3
<1>5. ASSUME NEW d \in Connections, Register(d)
      PROVE  Heard(c)'
  <2>1. d \in Live
    BY <1>5 DEF Register, Live
  <2>2. CASE c = d
    BY <1>0, <1>5, <2>2 DEF Register
  <2>3. CASE c # d
    BY <1>0, <1>3, <1>5, <2>1, <2>3 DEF Register
  <2> QED BY <2>2, <2>3
<1>6. ASSUME NEW d \in Connections,
             \/ Subscribe(d) \/ Confirm(d) \/ HandleCommand(d) \/ CommandEnds(d)
             \/ CancelledRuns(d) \/ Unsubscribed(d) \/ ListenerEnds(d)
      PROVE  Heard(c)'
  <2>1. CASE Subscribe(d) \/ Confirm(d)
    BY <1>0, <2>1 DEF Subscribe, Confirm
  <2>2. CASE HandleCommand(d) \/ CommandEnds(d)
    BY <1>0, <2>2 DEF HandleCommand, CommandEnds
  <2>3. CASE CancelledRuns(d) \/ Unsubscribed(d)
    BY <1>0, <2>3 DEF CancelledRuns, Unsubscribed, StopListening
  <2>4. CASE ListenerEnds(d)
    BY <1>0, <2>4 DEF ListenerEnds
  <2> QED BY <1>6, <2>1, <2>2, <2>3, <2>4
<1>7. ASSUME NEW d \in Connections, RedisDrops(d)
      PROVE  Heard(c)'
  <2>1. c # d
    BY <1>7 DEF RedisDrops
  <2> QED BY <1>0, <1>7, <2>1 DEF RedisDrops, StopListening
<1>8. ASSUME NEW d \in Connections,
             \/ Close(d) \/ Unregister(d) \/ UnsubscribeVictim(d) \/ Leave(d)
             \/ CleanupFails(d)
      PROVE  Heard(c)'
  <2>1. d \in Live
    BY <1>8 DEF Close, Unregister, UnsubscribeVictim, Leave, CleanupFails, Live
  <2>2. CASE c = d
    BY <1>0, <1>8, <2>2 DEF Close, Unregister, UnsubscribeVictim, Leave,
                            CleanupFails
  <2>3. CASE c # d
    <3>1. phase[c] # "serving"
      BY <1>3, <2>1, <2>3
    <3>2. phase'[c] = phase[c]
      BY <1>0, <1>8, <2>3 DEF Close, Unregister, UnsubscribeVictim, Leave,
                              CleanupFails
    <3> QED BY <3>1, <3>2
  <2> QED BY <2>2, <2>3
<1>9. CASE Restart
  BY <1>0, <1>9 DEF Restart
<1>10. CASE RefreshAnswered \/ RefreshRegisters \/ KeyExpires \/ UNCHANGED vars
  BY <1>10 DEF RefreshAnswered, RefreshRegisters, KeyExpires, vars
<1> QED
  BY <1>4, <1>5, <1>6, <1>7, <1>8, <1>9, <1>10 DEF Next

(* A connection alone is heard, whatever late tasks of closed ones do.     *)
THEOREM AloneIsHeard == Spec => []HeardIfUndisturbed
<1>1. Init => Inv
  <2> SUFFICES ASSUME Init PROVE Inv
    OBVIOUS
  <2>1. TypeOK
    BY InitTypes
  <2>2. Live = {}
    BY DEF Init, Live
  <2> QED BY <2>1, <2>2 DEF Inv, Init, Met, Heard
<1>2. Inv /\ TypeOK' /\ [Next]_vars => Inv'
  <2> SUFFICES ASSUME Inv, TypeOK', [Next]_vars PROVE Inv'
    OBVIOUS
  <2>1. Met'
    BY MetStep DEF Inv
  <2>2. \A c \in Connections \ disturbed' : Heard(c)'
    BY HeardStep
  <2> QED BY <2>1, <2>2 DEF Inv
<1>3. Inv => HeardIfUndisturbed
  BY DEF Inv, Heard, HeardIfUndisturbed
<1> QED BY <1>1, <1>2, <1>3, TypeCorrect, PTL DEF Spec

----------------------------------------------------------------------------
(* The inductive invariant *)

LocationRows == [made: BOOLEAN, active: BOOLEAN, seq: Nat]

StationRows ==
  [made: BOOLEAN, at: Places \cup {None},
   status: {"active", "maintenance", "inactive"}, seq: Nat, evse: Nat \X Nat,
   heard: BOOLEAN]

RegisterOK ==
  /\ locations \in [Places -> LocationRows]
  /\ stations \in [Points -> StationRows]
  /\ nextseq \in Nat /\ changes \in Nat

(* The number of a location is its own; the next one is greater. *)
LocationsNumbered ==
  /\ \A l \in Places : locations[l].made => locations[l].seq < nextseq
  /\ \A l, m \in Places :
       l # m /\ locations[l].made /\ locations[m].made =>
         locations[l].seq # locations[m].seq

(* A station's id is that of where it stands, and its number is its own    *)
(* there.  Numbers have a bound, so that a greatest one exists.            *)
StationsNumbered ==
  /\ \A p \in Points : stations[p].seq <= Cardinality(Points) + changes
  /\ \A p \in Points : stations[p].made =>
       /\ stations[p].at \in Places /\ locations[stations[p].at].made
       /\ stations[p].evse = Map!EvseId(locations[stations[p].at].seq, stations[p].seq)
  /\ \A p, q \in Points :
       p # q /\ stations[p].made /\ stations[q].made /\ stations[p].at = stations[q].at =>
         stations[p].seq # stations[q].seq

RegisterInv == RegisterOK /\ LocationsNumbered /\ StationsNumbered

(* What is finite, and how large, does not depend on the module. *)
LEMMA SameSizes ==
  \A S : (Map!IsFiniteSet(S) <=> IsFiniteSet(S)) /\ Map!Cardinality(S) = Cardinality(S)
BY DEF Map!IsFiniteSet, IsFiniteSet, Map!Cardinality, Cardinality

LEMMA MapConstants ==
  ASSUME MapAssumption
  PROVE  /\ Points \subseteq Nat /\ IsFiniteSet(Points) /\ IsFiniteSet(Places)
         /\ AtFirst \in [Points -> Places \cup {None}] /\ None \notin Places
         /\ MaxConnectors \in Nat /\ TTL \in Nat
         /\ Cardinality(Points) \in Nat
BY SameSizes, FS_CardinalityType DEF MapAssumption

----------------------------------------------------------------------------
(* The number a station gets is new at its location *)

(* Of naturals up to n there is a greatest one: the furthest below n is    *)
(* the least of the distances.                                             *)
LEMMA GreatestExists ==
  ASSUME NEW n \in Nat, NEW T, T \subseteq 0..n, T # {}
  PROVE  \E x \in T : \A y \in T : y <= x
<1> DEFINE S == {n - t : t \in T}
<1>1. S \subseteq Nat /\ S # {}
  <2>1. \A t \in T : t \in Nat /\ t <= n /\ n - t \in Nat
    OBVIOUS
  <2>2. PICK t \in T : TRUE
    OBVIOUS
  <2> QED BY <2>1, <2>2
<1>2. PICK x \in S : \A y \in S : ~ (<<y, x>> \in OpToRel(<, Nat))
  BY <1>1, NatLessThanWellFounded, WFMin
<1>3. PICK m \in T : x = n - m
  BY <1>2
<1>4. \A u \in T : u <= m
  <2> TAKE u \in T
  <2>1. n - u \in S /\ n - u \in Nat /\ n - m \in Nat /\ m \in Nat /\ u \in Nat
    BY <1>1
  <2>2. ~ (n - u < n - m)
    BY <1>2, <1>3, <2>1 DEF OpToRel
  <2> QED BY <2>1, <2>2
<1> QED BY <1>4

LEMMA MaxFacts ==
  ASSUME NEW n \in Nat, NEW T, T \subseteq 0..n, T # {}
  PROVE  Map!Max(T) \in T /\ \A t \in T : t <= Map!Max(T)
<1>1. PICK m \in T : \A u \in T : u <= m
  BY GreatestExists
<1>2. \A u \in T : m >= u
  BY <1>1
<1>3. Map!Max(T) \in T /\ \A u \in T : Map!Max(T) >= u
  BY <1>2 DEF Map!Max
<1> QED BY <1>3

LEMMA NextAtFacts ==
  ASSUME MapAssumption, RegisterInv, NEW l \in Places
  PROVE  /\ Map!NextAt(l) \in Nat /\ Map!NextAt(l) <= Cardinality(Points) + changes + 1
         /\ \A p \in Map!At(l) : stations[p].seq < Map!NextAt(l)
<1> DEFINE n == Cardinality(Points) + changes
           T == {stations[p].seq : p \in Map!At(l)} \cup {0}
<1>1. n \in Nat
  BY MapConstants DEF RegisterInv, RegisterOK
<1>2. \A p \in Map!At(l) : stations[p].seq \in 0..n
  <2> SUFFICES ASSUME NEW p \in Map!At(l) PROVE stations[p].seq \in 0..n
    OBVIOUS
  <2>1. p \in Points
    BY DEF Map!At
  <2>2. stations[p].seq \in Nat /\ stations[p].seq <= n
    BY <2>1 DEF RegisterInv, RegisterOK, StationRows, StationsNumbered
  <2> HIDE DEF n
  <2> QED BY <1>1, <2>2
<1>3. Map!NextAt(l) = Map!Max(T) + 1
  BY DEF Map!NextAt
<1> HIDE DEF n
<1>4. T \subseteq 0..n /\ T # {}
  BY <1>1, <1>2
<1>5. Map!Max(T) \in 0..n /\ \A t \in T : t <= Map!Max(T)
  BY <1>1, <1>4, MaxFacts
<1>6. \A p \in Map!At(l) : stations[p].seq \in T
  OBVIOUS
<1> HIDE DEF T
<1>7. \A p \in Map!At(l) : stations[p].seq < Map!NextAt(l)
  BY <1>1, <1>2, <1>3, <1>5, <1>6
<1>8. Map!NextAt(l) \in Nat /\ Map!NextAt(l) <= n + 1
  BY <1>1, <1>3, <1>5
<1> QED BY <1>7, <1>8 DEF n

----------------------------------------------------------------------------
(* Every step keeps it *)

LEMMA Untouched ==
  ASSUME MapAssumption, RegisterInv,
         UNCHANGED <<locations, stations, nextseq>>, changes' \in {changes, changes + 1}
  PROVE  RegisterInv'
<1>1. changes \in Nat /\ changes' \in Nat /\ changes <= changes'
  BY DEF RegisterInv, RegisterOK
<1>2. RegisterOK' /\ LocationsNumbered'
  BY <1>1 DEF RegisterInv, RegisterOK, LocationsNumbered
<1>3. \A p \in Points : stations[p].seq <= Cardinality(Points) + changes'
  <2> TAKE p \in Points
  <2>1. stations[p].seq \in Nat /\ stations[p].seq <= Cardinality(Points) + changes
    BY DEF RegisterInv, RegisterOK, StationRows, StationsNumbered
  <2> QED BY <1>1, <2>1, MapConstants
<1>4. StationsNumbered'
  BY <1>3 DEF RegisterInv, StationsNumbered
<1> QED BY <1>2, <1>4 DEF RegisterInv

(* The status and the heartbeats of a station are not in its id. *)
LEMMA StatusChange ==
  ASSUME MapAssumption, RegisterInv, changes' = changes + 1, UNCHANGED <<locations, nextseq>>,
         NEW p \in Points, NEW x \in StationRows, stations' = [stations EXCEPT ![p] = x],
         x.made = stations[p].made, x.at = stations[p].at,
         x.seq = stations[p].seq, x.evse = stations[p].evse
  PROVE  RegisterInv'
<1>1. /\ stations \in [Points -> StationRows] /\ changes \in Nat /\ changes' \in Nat
      /\ changes <= changes'
  BY DEF RegisterInv, RegisterOK
<1>2. stations' \in [Points -> StationRows]
  BY <1>1
<1>3. RegisterOK' /\ LocationsNumbered'
  BY <1>1, <1>2 DEF RegisterInv, RegisterOK, LocationsNumbered
<1>4. \A q \in Points :
        /\ stations'[q].made = stations[q].made /\ stations'[q].at = stations[q].at
        /\ stations'[q].seq = stations[q].seq /\ stations'[q].evse = stations[q].evse
  BY <1>1
<1>5. \A q \in Points : stations'[q].seq <= Cardinality(Points) + changes'
  <2> TAKE q \in Points
  <2>1. stations[q].seq \in Nat /\ stations[q].seq <= Cardinality(Points) + changes
    BY DEF RegisterInv, RegisterOK, StationRows, StationsNumbered
  <2> QED BY <1>1, <1>4, <2>1, MapConstants
<1>6. StationsNumbered'
  BY <1>4, <1>5 DEF RegisterInv, StationsNumbered
<1> QED BY <1>3, <1>6 DEF RegisterInv

LEMMA CreateLocationStep ==
  ASSUME MapAssumption, RegisterInv, NEW l \in Places, Map!CreateLocation(l)
  PROVE  RegisterInv'
<1> DEFINE x == [made |-> TRUE, active |-> TRUE, seq |-> nextseq]
<1>0. /\ ~locations[l].made /\ locations' = [locations EXCEPT ![l] = x]
      /\ nextseq' = nextseq + 1 /\ stations' = stations /\ changes' = changes + 1
  BY DEF Map!CreateLocation, Map!Administers, Map!Change
<1>1. /\ locations \in [Places -> LocationRows] /\ nextseq \in Nat
      /\ x \in LocationRows /\ x.made /\ x.seq = nextseq
  BY DEF RegisterInv, RegisterOK, LocationRows
<1> HIDE DEF x
<1>2. /\ locations' \in [Places -> LocationRows] /\ locations'[l] = x
      /\ \A m \in Places \ {l} : locations'[m] = locations[m]
  BY <1>0, <1>1
<1>3. RegisterOK'
  BY <1>0, <1>2 DEF RegisterInv, RegisterOK
<1>4. \A m \in Places : locations[m].seq \in Nat
  BY <1>1 DEF LocationRows
<1>5. \A m \in Places \ {l} : locations'[m].made => locations'[m].seq < nextseq
  BY <1>2 DEF RegisterInv, LocationsNumbered
<1>6. LocationsNumbered'
  BY <1>0, <1>1, <1>2, <1>4, <1>5 DEF RegisterInv, LocationsNumbered
<1>7. \A p \in Points : stations[p].made => stations[p].at \in Places \ {l}
  BY <1>0 DEF RegisterInv, StationsNumbered
<1>8. \A p \in Points : stations[p].seq <= Cardinality(Points) + changes'
  <2> TAKE p \in Points
  <2>1. stations[p].seq \in Nat /\ stations[p].seq <= Cardinality(Points) + changes
        /\ changes \in Nat
    BY DEF RegisterInv, RegisterOK, StationRows, StationsNumbered
  <2> QED BY <1>0, <2>1, MapConstants
<1>9. StationsNumbered'
  BY <1>0, <1>2, <1>7, <1>8 DEF RegisterInv, StationsNumbered, Map!EvseId
<1> QED BY <1>3, <1>6, <1>9 DEF RegisterInv

(* A location that is hidden or deleted keeps its row and its number. *)
LEMMA ActiveChange ==
  ASSUME MapAssumption, RegisterInv, NEW l \in Places, NEW active \in BOOLEAN,
         changes' = changes + 1,
         locations' = [locations EXCEPT ![l].active = active],
         UNCHANGED <<stations, nextseq>>
  PROVE  RegisterInv'
<1> DEFINE y == locations[l]
           x == [y EXCEPT !.active = active]
<1>1. locations \in [Places -> LocationRows] /\ locations' = [locations EXCEPT ![l] = x]
      /\ y \in LocationRows
  BY DEF RegisterInv, RegisterOK
<1> HIDE DEF y
<1>2. x \in LocationRows /\ x.made = y.made /\ x.seq = y.seq
  BY <1>1 DEF LocationRows
<1> HIDE DEF x
<1>3. /\ locations' \in [Places -> LocationRows]
      /\ \A m \in Places : /\ locations'[m].made = locations[m].made
                           /\ locations'[m].seq = locations[m].seq
  BY <1>1, <1>2 DEF y
<1>4. RegisterOK' /\ LocationsNumbered'
  BY <1>3 DEF RegisterInv, RegisterOK, LocationsNumbered
<1>5. \A p \in Points : stations[p].seq <= Cardinality(Points) + changes'
  <2> TAKE p \in Points
  <2>1. stations[p].seq \in Nat /\ stations[p].seq <= Cardinality(Points) + changes
        /\ changes \in Nat
    BY DEF RegisterInv, RegisterOK, StationRows, StationsNumbered
  <2> QED BY <2>1, MapConstants
<1>6. StationsNumbered'
  BY <1>3, <1>5 DEF RegisterInv, StationsNumbered
<1> QED BY <1>4, <1>6 DEF RegisterInv

(* A station that is created or moved gets the next number of a location. *)
LEMMA NumberedFacts ==
  ASSUME MapAssumption, RegisterInv, NEW p \in Points, NEW l \in Places
  PROVE  /\ Map!Numbered(p, l) \in StationRows
         /\ Map!Numbered(p, l).made = stations[p].made
         /\ Map!Numbered(p, l).at = l /\ Map!Numbered(p, l).seq = Map!NextAt(l)
         /\ Map!Numbered(p, l).evse = Map!EvseId(locations[l].seq, Map!NextAt(l))
<1> DEFINE k == Map!NextAt(l)
           y == stations[p]
           e == Map!EvseId(locations[l].seq, k)
           z == [y EXCEPT !.at = l, !.seq = k, !.evse = e]
<1>1. k \in Nat
  BY NextAtFacts
<1>2. y \in StationRows /\ locations[l].seq \in Nat
  BY DEF RegisterInv, RegisterOK, LocationRows
<1>3. Map!Numbered(p, l) = z
  BY DEF Map!Numbered
<1>4. e \in Nat \X Nat
  BY <1>1, <1>2 DEF Map!EvseId
<1> HIDE DEF k, y, e
<1>5. z \in StationRows /\ z.made = y.made /\ z.at = l /\ z.seq = k /\ z.evse = e
  BY <1>1, <1>2, <1>4 DEF StationRows
<1> HIDE DEF z
<1> QED BY <1>3, <1>5 DEF k, y, e

LEMMA NumberedStep ==
  ASSUME MapAssumption, RegisterInv, NEW p \in Points, NEW l \in Places, locations[l].made,
         NEW x \in StationRows, stations' = [stations EXCEPT ![p] = x],
         x.made, x.at = l, x.seq = Map!NextAt(l),
         x.evse = Map!EvseId(locations[l].seq, Map!NextAt(l)),
         changes' = changes + 1, UNCHANGED <<locations, nextseq>>
  PROVE  RegisterInv'
<1> DEFINE k == Map!NextAt(l)
<1>1. /\ k \in Nat /\ k <= Cardinality(Points) + changes + 1
      /\ \A q \in Map!At(l) : stations[q].seq < k
  BY NextAtFacts
<1>2. stations \in [Points -> StationRows] /\ changes \in Nat
  BY DEF RegisterInv, RegisterOK
<1>3. x.seq = k /\ x.evse = Map!EvseId(locations[l].seq, k)
  OBVIOUS
<1> HIDE DEF k
<1>4. /\ stations' \in [Points -> StationRows] /\ stations'[p] = x
      /\ \A q \in Points \ {p} : stations'[q] = stations[q]
  BY <1>2
<1>5. RegisterOK' /\ LocationsNumbered'
  BY <1>4 DEF RegisterInv, RegisterOK, LocationsNumbered
<1>6. \A q \in Points : stations'[q].seq <= Cardinality(Points) + changes'
  <2> TAKE q \in Points
  <2>1. stations[q].seq \in Nat /\ stations[q].seq <= Cardinality(Points) + changes
    BY DEF RegisterInv, RegisterOK, StationRows, StationsNumbered
  <2>2. CASE q = p
    <3>1. stations'[q].seq = k
      BY <1>3, <1>4, <2>2
    <3> QED BY <1>1, <1>2, <3>1, MapConstants
  <2>3. CASE q # p
    BY <1>2, <1>4, <2>1, <2>3, MapConstants
  <2> QED BY <2>2, <2>3
<1>7. \A q \in Points : stations'[q].made =>
         /\ stations'[q].at \in Places /\ locations[stations'[q].at].made
         /\ stations'[q].evse = Map!EvseId(locations[stations'[q].at].seq, stations'[q].seq)
  BY <1>3, <1>4 DEF RegisterInv, StationsNumbered
<1>8. \A q \in Points \ {p} : stations'[q].made /\ stations'[q].at = l => stations'[q].seq < k
  BY <1>1, <1>4 DEF Map!At
<1>9. \A q \in Points : stations[q].seq \in Nat
  BY <1>2 DEF StationRows
<1>10. \A q, r \in Points :
         q # r /\ stations'[q].made /\ stations'[r].made /\ stations'[q].at = stations'[r].at =>
           stations'[q].seq # stations'[r].seq
  <2> SUFFICES ASSUME NEW q \in Points, NEW r \in Points, q # r,
                      stations'[q].made, stations'[r].made,
                      stations'[q].at = stations'[r].at
               PROVE  stations'[q].seq # stations'[r].seq
    OBVIOUS
  <2>1. CASE q # p /\ r # p
    BY <1>4, <2>1 DEF RegisterInv, StationsNumbered
  <2>2. CASE q = p
    <3>1. stations'[q].seq = k /\ stations'[r] = stations[r] /\ stations'[r].at = l
      BY <1>3, <1>4, <2>2
    <3>2. stations'[r].seq < k /\ stations'[r].seq \in Nat
      BY <1>8, <1>9, <2>2, <3>1
    <3> QED BY <1>1, <3>1, <3>2
  <2>3. CASE r = p
    <3>1. stations'[r].seq = k /\ stations'[q] = stations[q] /\ stations'[q].at = l
      BY <1>3, <1>4, <2>3
    <3>2. stations'[q].seq < k /\ stations'[q].seq \in Nat
      BY <1>8, <1>9, <2>3, <3>1
    <3> QED BY <1>1, <3>1, <3>2
  <2> QED BY <2>1, <2>2, <2>3
<1>11. StationsNumbered'
  BY <1>6, <1>7, <1>10 DEF StationsNumbered
<1> QED BY <1>5, <1>11 DEF RegisterInv

LEMMA CreateStationStep ==
  ASSUME MapAssumption, RegisterInv, NEW p \in Points, NEW l \in Places, Map!CreateStation(p, l)
  PROVE  RegisterInv'
<1> DEFINE y == Map!Numbered(p, l)
           x == [y EXCEPT !.made = TRUE]
<1>1. /\ locations[l].made /\ stations' = [stations EXCEPT ![p] = x]
      /\ changes' = changes + 1 /\ UNCHANGED <<locations, nextseq>>
  BY DEF Map!CreateStation, Map!Administers, Map!Change
<1>2. /\ y \in StationRows /\ y.at = l /\ y.seq = Map!NextAt(l)
      /\ y.evse = Map!EvseId(locations[l].seq, Map!NextAt(l))
  BY NumberedFacts
<1> HIDE DEF y
<1>3. /\ x \in StationRows /\ x.made /\ x.at = l /\ x.seq = Map!NextAt(l)
      /\ x.evse = Map!EvseId(locations[l].seq, Map!NextAt(l))
  BY <1>2 DEF StationRows
<1> HIDE DEF x
<1> QED BY <1>1, <1>3, NumberedStep

LEMMA MoveStationStep ==
  ASSUME MapAssumption, RegisterInv, NEW p \in Points, NEW l \in Places, Map!MoveStation(p, l)
  PROVE  RegisterInv'
<1> DEFINE x == Map!Numbered(p, l)
<1>1. /\ stations[p].made /\ locations[l].made /\ stations' = [stations EXCEPT ![p] = x]
      /\ changes' = changes + 1 /\ UNCHANGED <<locations, nextseq>>
  BY DEF Map!MoveStation, Map!Administers, Map!Change
<1>2. /\ x \in StationRows /\ x.made /\ x.at = l /\ x.seq = Map!NextAt(l)
      /\ x.evse = Map!EvseId(locations[l].seq, Map!NextAt(l))
  BY <1>1, NumberedFacts
<1> HIDE DEF x
<1> QED BY <1>1, <1>2, NumberedStep

(* Heartbeats, silence, statuses: all of them leave the number alone. *)
LEMMA UpdateStationStep ==
  ASSUME MapAssumption, RegisterInv, NEW p \in Points,
         NEW v \in {"active", "maintenance", "inactive"},
         Map!UpdateStation(p, v)
  PROVE  RegisterInv'
<1> DEFINE y == stations[p]
           x == [y EXCEPT !.status = v]
<1>1. /\ stations \in [Points -> StationRows] /\ y \in StationRows
      /\ stations' = [stations EXCEPT ![p] = x]
      /\ changes' = changes + 1 /\ UNCHANGED <<locations, nextseq>>
  BY DEF Map!UpdateStation, Map!Administers, Map!Change, RegisterInv, RegisterOK
<1> HIDE DEF y
<1>2. /\ x \in StationRows /\ x.made = y.made /\ x.at = y.at /\ x.seq = y.seq
      /\ x.evse = y.evse
  BY <1>1 DEF StationRows
<1> HIDE DEF x
<1> QED BY <1>1, <1>2, StatusChange DEF y

LEMMA HeardKeeps ==
  ASSUME MapAssumption, RegisterInv, NEW p \in Points, Map!Heartbeat(p) \/ Map!FallsSilent(p)
  PROVE  RegisterInv'
<1> DEFINE y == stations[p]
           x(v) == [y EXCEPT !.heard = v]
<1>1. PICK v \in BOOLEAN :
        /\ stations' = [stations EXCEPT ![p] = x(v)]
        /\ changes' = changes + 1 /\ UNCHANGED <<locations, nextseq>>
  BY DEF Map!Heartbeat, Map!FallsSilent, Map!Change, RegisterInv, RegisterOK
<1>2. y \in StationRows
  BY DEF RegisterInv, RegisterOK
<1> HIDE DEF y
<1>3. /\ x(v) \in StationRows /\ x(v).made = y.made /\ x(v).at = y.at
      /\ x(v).seq = y.seq /\ x(v).evse = y.evse
  BY <1>2 DEF StationRows
<1> HIDE DEF x
<1> QED BY <1>1, <1>3, StatusChange DEF y

(* At first the stations of a place are numbered in the order of their ids: *)
(* the later one counts more of them.                                      *)
LEMMA OlderFacts ==
  ASSUME MapAssumption, NEW p \in Points, NEW q \in Points, AtFirst[p] = AtFirst[q], p # q
  PROVE  Cardinality(Map!Older(p)) # Cardinality(Map!Older(q))
<1>1. \A r \in Points : r \in Nat /\ IsFiniteSet(Map!Older(r)) /\ r \in Map!Older(r)
  <2> TAKE r \in Points
  <2>1. Map!Older(r) \in SUBSET Points /\ r \in Nat
    BY MapConstants DEF Map!Older
  <2>2. IsFiniteSet(Map!Older(r))
    BY <2>1, MapConstants, FS_Subset
  <2>3. r \in Map!Older(r)
    BY <2>1 DEF Map!Older
  <2> QED BY <2>1, <2>2, <2>3
<1>2. ASSUME NEW a \in Points, NEW b \in Points, AtFirst[a] = AtFirst[b], a < b
      PROVE  Cardinality(Map!Older(a)) # Cardinality(Map!Older(b))
  <2>1. Map!Older(a) \in SUBSET Map!Older(b)
    <3> SUFFICES ASSUME NEW r \in Map!Older(a) PROVE r \in Map!Older(b)
      OBVIOUS
    <3>1. r \in Points /\ r <= a /\ AtFirst[r] = AtFirst[a]
      BY DEF Map!Older
    <3>2. r <= b
      BY <1>1, <1>2, <3>1
    <3> QED BY <1>2, <3>1, <3>2 DEF Map!Older
  <2>2. b \notin Map!Older(a)
    <3>1. a \in Nat /\ b \in Nat /\ a < b
      BY <1>1, <1>2
    <3>2. ~ (b <= a)
      BY <3>1
    <3> QED BY <3>2 DEF Map!Older
  <2>3. Map!Older(a) # Map!Older(b)
    BY <1>1, <2>2
  <2> QED BY <1>1, <2>1, <2>3, FS_Subset
<1>3. p < q \/ q < p
  BY <1>1
<1> QED BY <1>2, <1>3

LEMMA RegisterAtFirst ==
  ASSUME MapAssumption
  PROVE  Map!Init => RegisterInv
<1> SUFFICES ASSUME Map!Init PROVE RegisterInv
  OBVIOUS
<1> DEFINE n == Cardinality(Map!First)
<1>1. PICK order \in [Map!First -> 1..n] :
       /\ \A l, m \in Map!First : l # m => order[l] # order[m]
       /\ locations = [l \in Places |->
            [made |-> l \in Map!First, active |-> TRUE,
             seq |-> IF l \in Map!First THEN order[l] ELSE 0]]
       /\ stations = [p \in Points |->
            IF AtFirst[p] = None
            THEN [made |-> FALSE, at |-> None, status |-> "active", seq |-> 0,
                  evse |-> Map!EvseId(0, 0), heard |-> FALSE]
            ELSE [made |-> TRUE, at |-> AtFirst[p], status |-> "active",
                  seq |-> Cardinality(Map!Older(p)), heard |-> FALSE,
                  evse |-> Map!EvseId(order[AtFirst[p]], Cardinality(Map!Older(p)))]]
  BY DEF Map!Init, Map!Cardinality, Cardinality
<1>2. nextseq = n + 1 /\ changes = 0
  BY SameSizes DEF Map!Init
<1>3. Map!First \in SUBSET Places
  BY MapConstants DEF Map!First
<1>4. n \in Nat
  <2>1. IsFiniteSet(Map!First)
    BY <1>3, MapConstants, FS_Subset
  <2> QED BY <2>1, FS_CardinalityType
<1> HIDE DEF n
<1>5. \A l \in Map!First : order[l] \in Nat /\ order[l] < n + 1
  BY <1>1, <1>4
<1>6. \A p \in Points : /\ Cardinality(Map!Older(p)) \in Nat
                         /\ Cardinality(Map!Older(p)) <= Cardinality(Points)
  <2> TAKE p \in Points
  <2>1. Map!Older(p) \in SUBSET Points
    BY DEF Map!Older
  <2>2. IsFiniteSet(Map!Older(p)) /\ Cardinality(Map!Older(p)) <= Cardinality(Points)
    BY <2>1, MapConstants, FS_Subset
  <2> QED BY <2>2, FS_CardinalityType
<1>7. \A p \in Points : AtFirst[p] # None => AtFirst[p] \in Map!First /\ AtFirst[p] \in Places
  BY MapConstants DEF Map!First
<1>8. locations \in [Places -> LocationRows]
  <2>1. \A l \in Places : locations[l] \in LocationRows
    BY <1>1, <1>5 DEF LocationRows
  <2> QED BY <1>1, <2>1
<1>9. \A l \in Places :
        /\ l \in Map!First => locations[l].made = TRUE /\ locations[l].seq = order[l]
        /\ l \notin Map!First => locations[l].made = FALSE
  <2> TAKE l \in Places
  <2>1. ASSUME l \in Map!First
        PROVE  locations[l].made = TRUE /\ locations[l].seq = order[l]
    <3>1. locations[l] = [made |-> TRUE, active |-> TRUE, seq |-> order[l]]
      BY <1>1, <2>1
    <3> QED BY <3>1
  <2>2. ASSUME l \notin Map!First
        PROVE  locations[l].made = FALSE
    <3>1. locations[l] = [made |-> l \in Map!First, active |-> TRUE,
                          seq |-> IF l \in Map!First THEN order[l] ELSE 0]
      BY <1>1
    <3>2. locations[l].made = (l \in Map!First)
      BY <3>1
    <3>3. (l \in Map!First) = FALSE
      BY <2>2
    <3> QED BY <3>2, <3>3
  <2> QED BY <2>1, <2>2
<1>10. \A p \in Points :
         \/ /\ AtFirst[p] = None /\ stations[p].made = FALSE /\ stations[p].seq = 0
            /\ stations[p] \in StationRows
         \/ /\ AtFirst[p] # None /\ stations[p].made = TRUE /\ stations[p].at = AtFirst[p]
            /\ stations[p].seq = Cardinality(Map!Older(p))
            /\ stations[p].evse = Map!EvseId(order[AtFirst[p]], Cardinality(Map!Older(p)))
            /\ stations[p] \in StationRows
  <2> TAKE p \in Points
  <2>1. CASE AtFirst[p] = None
    <3>1. stations[p] = [made |-> FALSE, at |-> None, status |-> "active", seq |-> 0,
                         evse |-> Map!EvseId(0, 0), heard |-> FALSE]
      BY <1>1, <2>1
    <3> QED BY <2>1, <3>1 DEF StationRows, Map!EvseId
  <2>2. CASE AtFirst[p] # None
    <3> DEFINE k == Cardinality(Map!Older(p))
               e == Map!EvseId(order[AtFirst[p]], k)
    <3>1. stations[p] = [made |-> TRUE, at |-> AtFirst[p], status |-> "active",
                         seq |-> k, heard |-> FALSE, evse |-> e]
      BY <1>1, <2>2
    <3>2. k \in Nat /\ order[AtFirst[p]] \in Nat /\ AtFirst[p] \in Places
      BY <1>5, <1>6, <1>7, <2>2
    <3> HIDE DEF k
    <3>3. e \in Nat \X Nat
      BY <3>2 DEF Map!EvseId
    <3> HIDE DEF e
    <3>4. stations[p] \in StationRows
      BY <3>1, <3>2, <3>3 DEF StationRows
    <3> QED BY <2>2, <3>1, <3>4 DEF k, e
  <2> QED BY <2>1, <2>2
<1>11. stations \in [Points -> StationRows]
  <2>1. DOMAIN stations = Points /\ stations = [p \in Points |-> stations[p]]
    BY <1>1
  <2> QED BY <1>10, <2>1
<1>12. RegisterOK
  BY <1>2, <1>4, <1>8, <1>11 DEF RegisterOK
<1>13. LocationsNumbered
  BY <1>1, <1>2, <1>5, <1>9 DEF LocationsNumbered
<1>14. \A p \in Points : stations[p].seq <= Cardinality(Points) + changes
  <2> TAKE p \in Points
  <2>1. stations[p].seq = 0 \/ stations[p].seq = Cardinality(Map!Older(p))
    BY <1>10
  <2>2. /\ Cardinality(Map!Older(p)) \in Nat /\ Cardinality(Points) \in Nat
        /\ Cardinality(Map!Older(p)) <= Cardinality(Points)
    BY <1>6, MapConstants
  <2> QED BY <1>2, <2>1, <2>2
<1>15. \A p \in Points : stations[p].made =>
         /\ stations[p].at \in Places /\ locations[stations[p].at].made
         /\ stations[p].evse = Map!EvseId(locations[stations[p].at].seq, stations[p].seq)
  <2> SUFFICES ASSUME NEW p \in Points, stations[p].made
               PROVE  /\ stations[p].at \in Places /\ locations[stations[p].at].made
                      /\ stations[p].evse =
                           Map!EvseId(locations[stations[p].at].seq, stations[p].seq)
    OBVIOUS
  <2>1. /\ AtFirst[p] # None /\ stations[p].at = AtFirst[p]
        /\ stations[p].seq = Cardinality(Map!Older(p))
        /\ stations[p].evse = Map!EvseId(order[AtFirst[p]], Cardinality(Map!Older(p)))
    BY <1>10, Zenon
  <2>2. AtFirst[p] \in Map!First /\ AtFirst[p] \in Places
    BY <1>7, <2>1
  <2>3. locations[AtFirst[p]].made /\ locations[AtFirst[p]].seq = order[AtFirst[p]]
    BY <1>9, <2>2
  <2> QED BY <2>1, <2>2, <2>3
<1>16. \A p, q \in Points :
         p # q /\ stations[p].made /\ stations[q].made /\ stations[p].at = stations[q].at =>
           stations[p].seq # stations[q].seq
  BY <1>10, OlderFacts
<1>17. StationsNumbered
  BY <1>14, <1>15, <1>16 DEF StationsNumbered
<1> QED BY <1>12, <1>13, <1>17 DEF RegisterInv

LEMMA RegisterSteps ==
  ASSUME MapAssumption
  PROVE  RegisterInv /\ [Map!Next]_Map!vars => RegisterInv'
<1> SUFFICES ASSUME RegisterInv, [Map!Next]_Map!vars PROVE RegisterInv'
  OBVIOUS
<1> DEFINE Same == UNCHANGED <<locations, stations, nextseq>>
                   /\ changes' \in {changes, changes + 1}
<1>1. ASSUME Map!MapSteps PROVE Same
  BY <1>1 DEF Map!MapSteps, Map!Compute, Map!Store, Map!RefreshGoesOn, Map!LookUp, Map!Refresh,
              Map!DropPlace,
              Map!DropAll, Map!Tick, Map!registry
<1>2. ASSUME NEW p \in Points, Map!StationSteps(p) PROVE RegisterInv'
  <2>1. CASE Map!Heartbeat(p) \/ Map!FallsSilent(p)
    BY <2>1, HeardKeeps
  <2>2. CASE \E k \in Map!Numbers, v \in {"available", "occupied", "unavailable", "faulted"} :
               Map!StatusNotification(p, k, v)
    <3>1. Same
      BY <2>2 DEF Map!StatusNotification, Map!Change
    <3> QED BY <3>1, Untouched
  <2> QED BY <1>2, <2>1, <2>2 DEF Map!StationSteps
<1>3. ASSUME Map!AdminSteps PROVE RegisterInv'
  <2>1. ASSUME NEW l \in Places, Map!CreateLocation(l) PROVE RegisterInv'
    BY <2>1, CreateLocationStep
  <2>2. ASSUME NEW l \in Places, NEW active \in BOOLEAN,
               Map!DeleteLocation(l) \/ Map!UpdateLocation(l, active)
        PROVE  RegisterInv'
    <3>1. PICK b \in BOOLEAN :
            /\ locations' = [locations EXCEPT ![l].active = b]
            /\ changes' = changes + 1 /\ UNCHANGED <<stations, nextseq>>
      BY <2>2 DEF Map!DeleteLocation, Map!UpdateLocation, Map!Administers, Map!Change
    <3> QED BY <3>1, ActiveChange
  <2>3. ASSUME NEW l \in Places, NEW p \in Points, Map!CreateStation(p, l) \/ Map!MoveStation(p, l)
        PROVE  RegisterInv'
    BY <2>3, CreateStationStep, MoveStationStep
  <2>4. ASSUME NEW p \in Points, Map!DeleteStation(p) PROVE RegisterInv'
    BY <2>4, UpdateStationStep DEF Map!DeleteStation
  <2>5. ASSUME NEW p \in Points, NEW v \in {"active", "maintenance"}, Map!UpdateStation(p, v)
        PROVE  RegisterInv'
    BY <2>5, UpdateStationStep
  <2>6. ASSUME NEW p \in Points, Map!AddConnector(p) PROVE RegisterInv'
    <3>1. Same
      BY <2>6 DEF Map!AddConnector, Map!Administers, Map!Change
    <3> QED BY <3>1, Untouched
  <2>7. ASSUME NEW p \in Points, NEW k \in Map!Numbers, Map!DeleteConnector(p, k) PROVE RegisterInv'
    <3>1. Same
      BY <2>7 DEF Map!DeleteConnector, Map!Administers, Map!Change
    <3> QED BY <3>1, Untouched
  <2> QED BY <1>3, <2>1, <2>2, <2>3, <2>4, <2>5, <2>6, <2>7 DEF Map!AdminSteps
<1>4. ASSUME Map!Restart PROVE Same
  BY <1>4 DEF Map!Restart, Map!Change, Map!registry
<1>5. CASE UNCHANGED Map!vars
  <2>1. Same
    BY <1>5 DEF Map!vars, Map!registry
  <2> QED BY <2>1, Untouched
<1> QED BY <1>1, <1>2, <1>3, <1>4, <1>5, Untouched DEF Map!Next

(* No two stations ever have one EVSE id.  Two with one id would stand at  *)
(* locations of one number, hence at one location, under one number.       *)
THEOREM EvseIdsNeverClash ==
  ASSUME MapAssumption
  PROVE  Map!Spec => []EvseIdsAreUnique
<1>1. RegisterInv => EvseIdsAreUnique
  BY DEF RegisterInv, EvseIdsAreUnique, LocationsNumbered, StationsNumbered, Map!EvseId
<1> QED BY <1>1, RegisterAtFirst, RegisterSteps, PTL DEF Map!Spec
=============================================================================
