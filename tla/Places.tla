-------------------------------- MODULE Places --------------------------------
(***************************************************************************)
(* The register of locations, stations and connectors as administrators    *)
(* keep it and stations report to it, and the statuses of locations that   *)
(* the map is given out of a cache in Redis.                               *)
(*                                                                         *)
(* An administrator's request and a station's message change the database  *)
(* in one step; the tasks the message leaves behind, which drop cached     *)
(* statuses, run later, and a request for the map takes a step from one    *)
(* await to the next.                                                      *)
(***************************************************************************)
EXTENDS FiniteSets, Register

CONSTANTS
  Places,         \* ids of locations
  AtFirst,        \* the stations there are at first, and where
  Requests,       \* bound: how many requests for the map overlap
  None,
  TTL,            \* CACHE_TTL, in ticks of the clock
  MaxConnectors,  \* bound: connectors of a station
  MaxChanges      \* bound: changes ever made

ASSUME PlacesAssumption ==
  /\ Points \subseteq Nat /\ IsFiniteSet(Points) /\ IsFiniteSet(Places)
  /\ AtFirst \in [Points -> Places \cup {None}]
  /\ None \notin Places /\ "all" \notin Places
  /\ {TTL, MaxConnectors} \subseteq Nat \ {0} /\ MaxChanges \in Nat

VARIABLES
  locations,  \* locations
  connectors, \* connectors.status, by station and number
  nextseq,    \* location_seq_counter
  cache,      \* location_status:{id} and locations_status:all, in Redis
  drops,      \* the tasks that have a location's cached status to drop
  dropsAll,   \* the tasks that have the common one to drop
  req,        \* the requests for the map in progress
  changes     \* changes made

registry == <<locations, stations, connectors, nextseq>>
vars == <<registry, cache, drops, dropsAll, req, changes>>

Keys == Places \cup {"all"}
Numbers == 1..MaxConnectors

----------------------------------------------------------------------------
(* The register at first, as the migration that numbers it leaves it *)

Older(p) == {q \in Points : q <= p /\ AtFirst[q] = AtFirst[p]}
First == {AtFirst[p] : p \in Points} \ {None}

Init ==
  /\ \E order \in [First -> 1..Cardinality(First)] :
       /\ \A l, m \in First : l # m => order[l] # order[m]
       /\ locations = [l \in Places |->
            [made |-> l \in First, active |-> TRUE,
             seq |-> IF l \in First THEN order[l] ELSE 0]]
       /\ stations = [p \in Points |->
            IF AtFirst[p] = None
            THEN [made |-> FALSE, at |-> None, status |-> "active", seq |-> 0,
                  evse |-> EvseId(0, 0), heard |-> FALSE]
            ELSE [made |-> TRUE, at |-> AtFirst[p], status |-> "active",
                  seq |-> Cardinality(Older(p)), heard |-> FALSE,
                  evse |-> EvseId(order[AtFirst[p]], Cardinality(Older(p)))]]
  /\ nextseq = Cardinality(First) + 1
  /\ connectors = [p \in Points |->
       [n \in Numbers |-> IF AtFirst[p] # None /\ n = 1 THEN "available" ELSE "none"]]
  /\ cache = [k \in Keys |-> None]
  /\ drops = [l \in Places |-> 0] /\ dropsAll = 0
  /\ req = [r \in Requests |-> None]
  /\ changes = 0

----------------------------------------------------------------------------
(* What the map is told of a location *)

Shown(l) == {p \in At(l) : stations[p].status # "inactive"}
Has(p, status) == \E n \in Numbers : connectors[p][n] = status

Calculated(p) ==
  IF stations[p].status = "maintenance" THEN "maintenance"
  ELSE IF ~stations[p].heard THEN "offline"
  ELSE IF Has(p, "available") THEN "available"
  ELSE IF Has(p, "occupied") THEN "occupied"
  ELSE "offline"

Count(l, status) == Cardinality({p \in Shown(l) : Calculated(p) = status})

LocationStatus(l) ==
  LET total == Cardinality(Shown(l)) IN
  IF total = 0 THEN "offline"
  ELSE IF Count(l, "available") = total THEN "available"
  ELSE IF Count(l, "available") > 0 THEN "partial"
  ELSE IF Count(l, "occupied") > 0 THEN "occupied"
  ELSE IF Count(l, "maintenance") = total THEN "maintenance"
  ELSE "offline"

OnMap == {l \in Places : locations[l].made /\ locations[l].active}

(* get_location_details; get_locations_with_status. *)
View(k) ==
  IF k = "all" THEN [l \in OnMap |-> LocationStatus(l)]
  ELSE IF k \notin OnMap THEN None
  ELSE [status |-> LocationStatus(k),
        stations |-> [p \in Shown(k) |-> Calculated(p)]]

Continues(r, work) == req' = [req EXCEPT ![r] = work]

(* A cached answer is given as it is. *)
LookUp_Touch(r, k) ==
  /\ req[r] = None
  /\ IF cache[k] # None
     THEN cache' = [cache EXCEPT ![k].left = TTL] /\ UNCHANGED req
     ELSE Continues(r, [step |-> "compute", key |-> k]) /\ UNCHANGED cache
  /\ UNCHANGED <<registry, drops, dropsAll, changes>>
LookUp(r, k) ==
  /\ req[r] = None /\ cache[k] = None
  /\ Continues(r, [step |-> "compute", key |-> k])
  /\ UNCHANGED <<registry, cache, drops, dropsAll, changes>>

Compute(r) ==
  /\ req[r] # None /\ req[r].step = "compute"
  /\ Continues(r, IF View(req[r].key) = None THEN None
                  ELSE [step |-> "store", key |-> req[r].key, view |-> View(req[r].key)])
  /\ UNCHANGED <<registry, cache, drops, dropsAll, changes>>

Store(r) ==
  /\ req[r] # None /\ req[r].step = "store"
  /\ cache' = [cache EXCEPT ![req[r].key] = [view |-> req[r].view, left |-> TTL]]
  /\ Continues(r, None)
  /\ UNCHANGED <<registry, drops, dropsAll, changes>>

(* refresh_location_status: drops both cached answers, one after the       *)
(* other, and then asks like everybody else.                               *)
Refresh(r, l) ==
  /\ req[r] = None
  /\ cache' = [cache EXCEPT ![l] = None]
  /\ Continues(r, [step |-> "refresh", key |-> l])
  /\ UNCHANGED <<registry, drops, dropsAll, changes>>

RefreshGoesOn(r) ==
  /\ req[r] # None /\ req[r].step = "refresh"
  /\ cache' = [cache EXCEPT !["all"] = None]
  /\ Continues(r, IF cache[req[r].key] # None THEN None
                  ELSE [step |-> "compute", key |-> req[r].key])
  /\ UNCHANGED <<registry, drops, dropsAll, changes>>

(* Redis drops an answer TTL after it was stored. *)
Tick ==
  /\ \E k \in Keys : cache[k] # None
  /\ cache' = [k \in Keys |->
       IF cache[k] = None \/ cache[k].left = 1 THEN None
       ELSE [cache[k] EXCEPT !.left = @ - 1]]
  /\ UNCHANGED <<registry, drops, dropsAll, req, changes>>

----------------------------------------------------------------------------
(* invalidate_cache, in a task of its own *)

DropPlace(l) ==
  /\ drops[l] > 0
  /\ drops' = [drops EXCEPT ![l] = @ - 1] /\ dropsAll' = dropsAll + 1
  /\ cache' = [cache EXCEPT ![l] = None]
  /\ UNCHANGED <<registry, req, changes>>

DropAll ==
  /\ dropsAll > 0
  /\ dropsAll' = dropsAll - 1
  /\ cache' = [cache EXCEPT !["all"] = None]
  /\ UNCHANGED <<registry, drops, req, changes>>

----------------------------------------------------------------------------
(* Messages of a station, and their absence *)

Change == changes < MaxChanges /\ changes' = changes + 1

Invalidates(p) ==
  /\ drops' = [drops EXCEPT ![stations[p].at] = @ + 1]
  /\ UNCHANGED <<cache, dropsAll, req>>

Heartbeat(p) ==
  /\ stations[p].made /\ Change
  /\ stations' = [stations EXCEPT ![p].heard = TRUE]
  /\ Invalidates(p)
  /\ UNCHANGED <<locations, connectors, nextseq>>

(* An unknown connector is inserted. *)
StatusNotification(p, n, status) ==
  /\ stations[p].made /\ Change
  /\ connectors' = [connectors EXCEPT ![p][n] = status]
  /\ Invalidates(p)
  /\ UNCHANGED <<locations, stations, nextseq>>

(* Five minutes without a heartbeat, of which nobody is told. *)
FallsSilent(p) ==
  /\ stations[p].heard /\ Change
  /\ stations' = [stations EXCEPT ![p].heard = FALSE]
  /\ UNCHANGED <<locations, connectors, nextseq, cache, drops, dropsAll, req>>

----------------------------------------------------------------------------
(* Requests of administrators, which leave the cache alone *)

Administers == Change /\ UNCHANGED <<cache, drops, dropsAll, req>>

CreateLocation(l) ==
  /\ ~locations[l].made /\ Administers
  /\ locations' = [locations EXCEPT ![l] = [made |-> TRUE, active |-> TRUE, seq |-> nextseq]]
  /\ nextseq' = nextseq + 1
  /\ UNCHANGED <<stations, connectors>>

UpdateLocation(l, active) ==
  /\ locations[l].made /\ locations[l].active # active /\ Administers
  /\ locations' = [locations EXCEPT ![l].active = active]
  /\ UNCHANGED <<stations, connectors, nextseq>>

DeleteLocation(l) ==
  /\ locations[l].made /\ At(l) = {} /\ Administers
  /\ locations' = [locations EXCEPT ![l].active = FALSE]
  /\ UNCHANGED <<stations, connectors, nextseq>>

Numbered(p, l) == [stations[p] EXCEPT
  !.at = l, !.seq = NextAt(l), !.evse = EvseId(locations[l].seq, NextAt(l))]

(* Whether the location is active is not asked. *)
CreateStation(p, l) ==
  /\ ~stations[p].made /\ locations[l].made /\ Administers
  /\ stations' = [stations EXCEPT ![p] = [Numbered(p, l) EXCEPT !.made = TRUE]]
  /\ \E many \in 0..MaxConnectors :
       connectors' = [connectors EXCEPT
         ![p] = [n \in Numbers |-> IF n <= many THEN "available" ELSE "none"]]
  /\ UNCHANGED <<locations, nextseq>>

(* update_station with location_id: numbered anew, even where it stands. *)
MoveStation(p, l) ==
  /\ stations[p].made /\ locations[l].made /\ Administers
  /\ stations' = [stations EXCEPT ![p] = Numbered(p, l)]
  /\ UNCHANGED <<locations, connectors, nextseq>>

UpdateStation(p, status) ==
  /\ stations[p].made /\ stations[p].status # status /\ Administers
  /\ stations' = [stations EXCEPT ![p].status = status]
  /\ UNCHANGED <<locations, connectors, nextseq>>

(* Not while a session runs there; sessions are not in this module, so     *)
(* that it may be done or not in any state.                                *)
DeleteStation(p) == UpdateStation(p, "inactive")

AddConnector(p) ==
  LET next == Max({n \in Numbers : connectors[p][n] # "none"} \cup {0}) + 1 IN
  /\ stations[p].made /\ next <= MaxConnectors /\ Administers
  /\ connectors' = [connectors EXCEPT ![p][next] = "available"]
  /\ UNCHANGED <<locations, stations, nextseq>>

DeleteConnector(p, n) ==
  /\ connectors[p][n] # "none" /\ Administers
  /\ connectors' = [connectors EXCEPT ![p][n] = "none"]
  /\ UNCHANGED <<locations, stations, nextseq>>

----------------------------------------------------------------------------

(* The tasks and the requests are gone, the cache is not. *)
Restart ==
  /\ Change
  /\ drops' = [l \in Places |-> 0] /\ dropsAll' = 0
  /\ req' = [r \in Requests |-> None]
  /\ UNCHANGED <<registry, cache>>

MapSteps ==
  \/ \E r \in Requests :
       \/ Compute(r) \/ Store(r) \/ RefreshGoesOn(r)
       \/ \E k \in Keys : LookUp(r, k)
       \/ \E l \in Places : Refresh(r, l)
  \/ \E l \in Places : DropPlace(l)
  \/ DropAll \/ Tick

StationSteps(p) ==
  \/ Heartbeat(p) \/ FallsSilent(p)
  \/ \E n \in Numbers, status \in {"available", "occupied", "unavailable", "faulted"} :
       StatusNotification(p, n, status)

AdminSteps ==
  \/ \E l \in Places :
       \/ CreateLocation(l) \/ DeleteLocation(l)
       \/ \E active \in BOOLEAN : UpdateLocation(l, active)
       \/ \E p \in Points : CreateStation(p, l) \/ MoveStation(p, l)
  \/ \E p \in Points :
       \/ DeleteStation(p) \/ AddConnector(p)
       \/ \E status \in {"active", "maintenance"} : UpdateStation(p, status)
       \/ \E n \in Numbers : DeleteConnector(p, n)

Next == MapSteps \/ (\E p \in Points : StationSteps(p)) \/ AdminSteps \/ Restart

Spec == Init /\ [][Next]_vars

(* The event loop runs every task and request on, and Redis its clock. *)
FairSpec ==
  /\ Spec
  /\ \A r \in Requests : WF_vars(Compute(r) \/ Store(r) \/ RefreshGoesOn(r))
  /\ \A l \in Places : WF_vars(DropPlace(l))
  /\ WF_vars(DropAll) /\ WF_vars(Tick)

----------------------------------------------------------------------------
(* Properties *)

(* Once nothing changes any more, what the cache answers is, for good,     *)
(* what the database says: however a request that stores an old answer     *)
(* meets the tasks that drop it, and though nothing is dropped when an     *)
(* administrator changes something or a station falls silent.              *)
MapCatchesUp ==
  <>[](\A k \in Keys : cache[k] # None => cache[k].view = View(k))
=============================================================================
