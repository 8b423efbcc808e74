------------------------------ MODULE Stations ------------------------------
(***************************************************************************)
(* The WebSocket connections of one charging station: how one is admitted  *)
(* and registered, how its command listener subscribes to the station's    *)
(* Redis channel, how heartbeats keep the station online, and how a closed *)
(* connection is cleaned up.                                               *)
(*                                                                         *)
(* Everything a connection registers it registers under the STATION's id:  *)
(* the Redis key that says "online", the entry of _active_handlers, the    *)
(* entry of _active_pubsubs.  A station that reconnects before the backend *)
(* has noticed the loss of its old connection has two connections at once. *)
(* What runs between two awaits is one step.                               *)
(***************************************************************************)
EXTENDS Integers, FiniteSets

CONSTANTS
  Connections,      \* connections the station may ever open
  None,             \* no entry
  VerifyKeys,       \* VERIFY_STATION_API_KEYS
  Presents,         \* what each connection shows for itself
  MaxPerIp,         \* _OCPP_MAX_STATIONS_PER_IP
  MaxPerMinute,     \* _OCPP_MAX_RECONNECTS_PER_MIN
  MaxBeats,         \* bound: heartbeats being processed at a time
  MaxFaults,        \* bound: failures of the connection to Redis
  MaxRestarts       \* bound: restarts of the backend

ASSUME ConnectionsAssumption ==
  IsFiniteSet(Connections) /\ None \notin Connections
ASSUME KeysAssumption ==
  /\ VerifyKeys \in BOOLEAN
  /\ Presents \in [Connections -> {"local address", "simulator", "master key",
                                   "station key", "other key", "nothing"}]
ASSUME BoundsAssumption ==
  /\ MaxPerIp \in Nat /\ MaxPerMinute \in Nat
  /\ MaxBeats \in Nat /\ MaxFaults \in Nat /\ MaxRestarts \in Nat

VARIABLES
  phase,       \* where handle_connection of each connection is
  listener,    \* where its task _handle_redis_commands is
  victim,      \* the pubsub its _cleanup popped and is unsubscribing
  handler,     \* _active_handlers[station]
  pubsub,      \* _active_pubsubs[station], by the connection that made it
  subscribed,  \* pubsubs subscribed to the channel in Redis
  online,      \* the key ocpp:station:<station> in Redis
  slots,       \* _ocpp_ip_connections of the station's address
  recent,      \* connections of the last minute
  asking,      \* refresh_station_ttl tasks before the answer of EXISTS
  lapsed,      \* those that found no key
  disturbed,   \* history: connections that met another, or lost Redis
  faults, restarts

conns    == <<phase, listener, victim>>
registry == <<handler, pubsub>>
admitted == <<slots, recent>>
refresh  == <<asking, lapsed>>
history  == <<disturbed, faults, restarts>>
vars     == <<conns, registry, subscribed, online, admitted, refresh, history>>

Phases == {"new", "authorizing", "registering", "serving", "unregistering",
           "unsubscribing", "leaving", "closed"}
Listeners == {"none", "subscribing", "listening", "calling", "cancelled",
              "ending", "ended"}

Live == {c \in Connections : phase[c] \notin {"new", "closed"}}

Init ==
  /\ phase = [c \in Connections |-> "new"]
  /\ listener = [c \in Connections |-> "none"]
  /\ victim = [c \in Connections |-> None]
  /\ handler = None /\ pubsub = None
  /\ subscribed = {} /\ online = FALSE
  /\ slots = 0 /\ recent = {}
  /\ asking = 0 /\ lapsed = 0
  /\ disturbed = {} /\ faults = 0 /\ restarts = 0

----------------------------------------------------------------------------
(* Connecting.  (Operators named X_Y are mutants of X: the code with the   *)
(* fault Y.)                                                               *)

Admits(c) == Cardinality(recent) < MaxPerMinute /\ slots < MaxPerIp

(* websocket_endpoint *)
Connect(c) ==
  /\ phase[c] = "new" /\ Admits(c)
  /\ phase' = [phase EXCEPT ![c] = "authorizing"]
  /\ slots' = slots + 1
  /\ recent' = recent \cup {c}
  /\ disturbed' = IF Live = {} THEN disturbed ELSE disturbed \cup Live \cup {c}
  /\ UNCHANGED <<listener, victim, registry, subscribed, online, refresh,
                 faults, restarts>>

(* Refused by one limit or the other; only the second counts the attempt. *)
TurnAway(c) ==
  /\ phase[c] = "new" /\ ~Admits(c)
  /\ phase' = [phase EXCEPT ![c] = "closed"]
  /\ recent' = IF Cardinality(recent) < MaxPerMinute THEN recent \cup {c}
               ELSE recent
  /\ UNCHANGED <<listener, victim, registry, subscribed, online, slots,
                 refresh, history>>

MinutePasses(c) ==
  /\ c \in recent
  /\ recent' = recent \ {c}
  /\ UNCHANGED <<conns, registry, subscribed, online, slots, refresh, history>>

(* verify_station_connection: the key of a station that is not active, or  *)
(* that has expired, is no good either, nor any while the database fails.  *)
MayPass(c) ==
  VerifyKeys => Presents[c] \in {"local address", "simulator", "master key",
                                 "station key"}

(* The station is known and its key is good: the WebSocket is accepted. *)
Accept(c) ==
  /\ phase[c] = "authorizing" /\ MayPass(c)
  /\ phase' = [phase EXCEPT ![c] = "registering"]
  /\ UNCHANGED <<listener, victim, registry, subscribed, online, admitted,
                 refresh, history>>

(* register_station, then the task of the listener; messages are served    *)
(* from now on, whether the listener has subscribed or not.                *)
Register(c) ==
  /\ phase[c] = "registering"
  /\ phase' = [phase EXCEPT ![c] = "serving"]
  /\ online' = TRUE
  /\ handler' = c
  /\ listener' = [listener EXCEPT ![c] = "subscribing"]
  /\ UNCHANGED <<victim, pubsub, subscribed, admitted, refresh, history>>

----------------------------------------------------------------------------
(* The command listener *)

(* listen_commands: the subscription and, as a second step, Redis's        *)
(* confirmation of it.                                                     *)
Subscribe(c) ==
  /\ listener[c] = "subscribing" /\ c \notin subscribed
  /\ subscribed' = subscribed \cup {c}
  /\ UNCHANGED <<conns, registry, online, admitted, refresh, history>>

Confirm(c) ==
  /\ listener[c] = "subscribing" /\ c \in subscribed
  /\ listener' = [listener EXCEPT ![c] = "listening"]
  /\ pubsub' = c
  /\ UNCHANGED <<phase, victim, handler, subscribed, online, admitted, refresh,
                 history>>

(* Somebody publishes a command, the listener calls the station ...        *)
HandleCommand(c) ==
  /\ listener[c] = "listening" /\ c \in subscribed
  /\ listener' = [listener EXCEPT ![c] = "calling"]
  /\ UNCHANGED <<phase, victim, registry, subscribed, online, admitted,
                 refresh, history>>

(* ... and goes on listening after the answer, an error or the timeout. *)
CommandEnds_ByItsError(c) ==
  /\ listener[c] = "calling"
  /\ \E after \in {"listening", "ending"} :
       listener' = [listener EXCEPT ![c] = after]
  /\ UNCHANGED <<phase, victim, registry, online, admitted, refresh, history>>
  /\ subscribed' = IF listener'[c] = "ending" THEN subscribed \ {c}
                   ELSE subscribed
CommandEnds(c) ==
  /\ listener[c] = "calling"
  /\ listener' = [listener EXCEPT ![c] = "listening"]
  /\ UNCHANGED <<phase, victim, registry, subscribed, online, admitted,
                 refresh, history>>

(* The `finally' of listen_commands: the station's entry is removed, the   *)
(* pubsub unsubscribed and closed.                                         *)
StopListening(c) ==
  /\ listener' = [listener EXCEPT ![c] = "ending"]
  /\ pubsub' = None
  /\ UNCHANGED <<phase, victim, handler, online, admitted, refresh, restarts>>

(* It runs when the task is cancelled, ... *)
CancelledRuns(c) ==
  /\ listener[c] = "cancelled"
  /\ StopListening(c)
  /\ UNCHANGED <<subscribed, disturbed, faults>>

(* ... when somebody else has unsubscribed the pubsub, ... *)
Unsubscribed(c) ==
  /\ listener[c] = "listening" /\ c \notin subscribed
  /\ StopListening(c)
  /\ UNCHANGED <<subscribed, disturbed, faults>>

(* ... and when its connection to Redis fails: nobody starts it again. *)
RedisDrops(c) ==
  /\ listener[c] \in {"subscribing", "listening"}
  /\ faults < MaxFaults /\ faults' = faults + 1
  /\ disturbed' = disturbed \cup {c}
  /\ subscribed' = subscribed \ {c}
  /\ StopListening(c)

ListenerEnds(c) ==
  /\ listener[c] = "ending"
  /\ listener' = [listener EXCEPT ![c] = "ended"]
  /\ subscribed' = subscribed \ {c}
  /\ UNCHANGED <<phase, victim, registry, online, admitted, refresh, history>>

----------------------------------------------------------------------------
(* Heartbeats.  refresh_station_ttl asks whether the key exists and then   *)
(* extends it, or registers the station again.                             *)

Heartbeat(c) ==
  /\ phase[c] = "serving" /\ asking + lapsed < MaxBeats
  /\ asking' = asking + 1
  /\ UNCHANGED <<conns, registry, subscribed, online, admitted, lapsed, history>>

RefreshAnswered ==
  /\ asking > 0
  /\ asking' = asking - 1
  /\ lapsed' = IF online THEN lapsed ELSE lapsed + 1
  /\ UNCHANGED <<conns, registry, subscribed, online, admitted, history>>

RefreshRegisters ==
  /\ lapsed > 0
  /\ lapsed' = lapsed - 1
  /\ online' = TRUE
  /\ UNCHANGED <<conns, registry, subscribed, admitted, asking, history>>

KeyExpires_Never == FALSE
(* The key lives 600 seconds, two heartbeats. *)
KeyExpires ==
  /\ online
  /\ online' = FALSE
  /\ UNCHANGED <<conns, registry, subscribed, admitted, refresh, history>>

----------------------------------------------------------------------------
(* Closing *)

Cancelled_Never(c) == listener
Cancelled(c) ==
  IF listener[c] \in {"subscribing", "listening", "calling"}
  THEN [listener EXCEPT ![c] = "cancelled"] ELSE listener

(* handle_connection is over: the station was refused, is unknown, its     *)
(* WebSocket dropped or was closed by a shutdown, an error was raised.     *)
(* _cleanup begins, whatever had been registered and by whom.              *)
Close(c) ==
  /\ phase[c] \in {"authorizing", "registering", "serving"}
  /\ phase' = [phase EXCEPT ![c] = "unregistering"]
  /\ listener' = Cancelled(c)
  /\ UNCHANGED <<victim, registry, subscribed, online, admitted, refresh,
                 history>>

(* unregister_station: the key is deleted and the station's pubsub popped. *)
Unregister(c) ==
  /\ phase[c] = "unregistering"
  /\ online' = FALSE
  /\ pubsub' = None
  /\ victim' = [victim EXCEPT ![c] = pubsub]
  /\ phase' = [phase EXCEPT ![c] = IF pubsub = None THEN "leaving"
                                   ELSE "unsubscribing"]
  /\ UNCHANGED <<listener, handler, subscribed, admitted, refresh, history>>

UnsubscribeVictim(c) ==
  /\ phase[c] = "unsubscribing"
  /\ subscribed' = subscribed \ {victim[c]}
  /\ victim' = [victim EXCEPT ![c] = None]
  /\ phase' = [phase EXCEPT ![c] = "leaving"]
  /\ UNCHANGED <<listener, registry, online, admitted, refresh, history>>

(* The slot of the address is released however the handler ended. *)
Released_Twice == IF slots > 1 THEN slots - 2 ELSE 0
Released == IF slots > 0 THEN slots - 1 ELSE 0

Leave(c) ==
  /\ phase[c] = "leaving"
  /\ phase' = [phase EXCEPT ![c] = "closed"]
  /\ handler' = None
  /\ slots' = Released
  /\ UNCHANGED <<listener, victim, pubsub, subscribed, online, recent, refresh,
                 history>>

(* Redis refuses the DELETE: _cleanup logs it and goes no further. *)
CleanupFails(c) ==
  /\ phase[c] = "unregistering"
  /\ faults < MaxFaults /\ faults' = faults + 1
  /\ phase' = [phase EXCEPT ![c] = "closed"]
  /\ slots' = Released
  /\ UNCHANGED <<listener, victim, registry, subscribed, online, recent,
                 refresh, disturbed, restarts>>

(* The backend stops, at once or after closing the connections it knows,   *)
(* and starts again: what it knew is gone, Redis drops its subscriptions   *)
(* and keeps the key.                                                      *)
Restart ==
  /\ restarts < MaxRestarts /\ restarts' = restarts + 1
  /\ phase' = [c \in Connections |-> IF phase[c] = "new" THEN "new" ELSE "closed"]
  /\ listener' = [c \in Connections |-> IF listener[c] = "none" THEN "none"
                                        ELSE "ended"]
  /\ victim' = [c \in Connections |-> None]
  /\ handler' = None /\ pubsub' = None
  /\ subscribed' = {}
  /\ slots' = 0 /\ recent' = {}
  /\ asking' = 0 /\ lapsed' = 0
  /\ UNCHANGED <<online, disturbed, faults>>

----------------------------------------------------------------------------

Next ==
  \/ \E c \in Connections :
       \/ Connect(c) \/ TurnAway(c) \/ MinutePasses(c)
       \/ Accept(c) \/ Register(c)
       \/ Subscribe(c) \/ Confirm(c) \/ HandleCommand(c) \/ CommandEnds(c)
       \/ CancelledRuns(c) \/ Unsubscribed(c) \/ RedisDrops(c) \/ ListenerEnds(c)
       \/ Heartbeat(c)
       \/ Close(c) \/ Unregister(c) \/ UnsubscribeVictim(c) \/ Leave(c)
       \/ CleanupFails(c)
  \/ RefreshAnswered \/ RefreshRegisters \/ KeyExpires
  \/ Restart

Spec == Init /\ [][Next]_vars

(* Tasks the loop can run are run, Redis answers, and time passes.         *)
(* Nothing is assumed of the station.                                      *)
Fairness ==
  /\ \A c \in Connections :
       /\ WF_vars(CancelledRuns(c))
       /\ WF_vars(ListenerEnds(c))
  /\ WF_vars(RefreshAnswered) /\ WF_vars(RefreshRegisters)
  /\ WF_vars(KeyExpires)

FairSpec == Spec /\ Fairness

----------------------------------------------------------------------------
(* Properties *)

(* The type of what the loop and Redis hold. *)
TypeOK ==
  /\ phase \in [Connections -> Phases]
  /\ listener \in [Connections -> Listeners]
  /\ victim \in [Connections -> Connections \cup {None}]
  /\ handler \in Connections \cup {None}
  /\ pubsub \in Connections \cup {None}
  /\ subscribed \subseteq Connections
  /\ online \in BOOLEAN
  /\ slots \in Nat
  /\ recent \subseteq Connections
  /\ asking \in Nat /\ lapsed \in Nat
  /\ disturbed \subseteq Connections
  /\ faults \in Nat /\ restarts \in Nat

(* The counter of an address is the number of its open connections: no     *)
(* way a handler ends leaks a slot (its stations would be locked out in    *)
(* the end) or releases one twice.                                         *)
SlotsCountConnections == slots = Cardinality(Live)

(* A connection that met no other of its station is known to the backend   *)
(* as long as it is served, and hears its commands once it has subscribed: *)
(* failing commands, late listeners of closed connections and failed       *)
(* cleanups do not matter.                                                 *)
HeardIfUndisturbed ==
  \A c \in Connections \ disturbed : phase[c] = "serving" =>
    /\ handler = c
    /\ listener[c] = "subscribing" \/ c \in subscribed

(* A closed connection leaves no subscription behind, even if it closed    *)
(* while it was subscribing: a command would count a listener that is not  *)
(* there.                                                                  *)
ClosedIsUnsubscribed ==
  \A c \in Connections : (phase[c] = "closed") ~> [](c \notin subscribed)

(* A station that is gone does not stay online: not when the cleanup       *)
(* failed, nor when a heartbeat's refresh registers it again afterwards.   *)
OfflineInTheEnd == (<>[](Live = {})) => (<>[]~online)
=============================================================================
