-------------------------------- MODULE Notices --------------------------------
(***************************************************************************)
(* What the system tells the world outside: webhooks that other companies  *)
(* subscribe to, and push notices on the devices of clients and owners.    *)
(*                                                                         *)
(* Everything runs in one event loop.  A handler leaves tasks behind; they *)
(* are started in the order they were left in, and a delivery then waits   *)
(* for its receiver while others go on.  A handler's own pushes are sent   *)
(* in the handler's step, for webpush never suspends.                      *)
(***************************************************************************)
EXTENDS Integers, Sequences, SequencesExt, FiniteSets

CONSTANTS
  Hooks,     \* ids of webhook subscriptions
  Stations,
  Devices,   \* browsers that can subscribe to pushes
  User,      \* whose device it is
  Clients,   \* the users that have a row in clients
  Owner,     \* the user who owns the locations
  EventSets,   \* sets of events a webhook is subscribed to
  None,
  Attempts,  \* max_retries
  Interval,  \* throttle_interval, in ticks of the clock
  MaxKeys,   \* entries the throttle may hold before it is pruned
  Day,       \* 24 hours between two warnings, in ticks
  MaxNews,   \* bound: requests and messages handled
  MaxChanges, \* bound: changes of subscriptions
  MaxTime,   \* bound: the clock
  MaxRestarts

Events == {"connector.status_changed", "charging.started", "charging.progress",
           "charging.completed", "charging.error", "station.online", "station.offline"}

ASSUME NoticesAssumption ==
  /\ EventSets \subseteq SUBSET Events
  /\ IsFiniteSet(Hooks) /\ IsFiniteSet(Stations)
  /\ None \notin Nat
  /\ None \notin [type: {"client", "owner"}, used: Nat \cup {None}]
  /\ {Attempts, Interval, Day} \subseteq Nat \ {0} /\ {MaxKeys, MaxTime} \subseteq Nat

VARIABLES
  hooks,    \* webhook_subscriptions
  log,      \* webhook_delivery_log
  throttle, \* _throttle: when progress of a station was last passed on
  ready,    \* the tasks the loop has to start, in order
  sending,  \* the deliveries that wait for their receiver or for a retry
  up,       \* stations.is_available, and whether the heartbeat is recent
  session,  \* active_sessions
  pushes,   \* push_subscriptions
  clock,
  news,     \* how many things have happened: the number of the latest
  changes,  \* changes of subscriptions made
  restarts,
  passed,   \* ghost: when this process passed progress of a station on
  warned    \* ghost: when a subscription's device got a low-balance warning

webhooks == <<hooks, log, throttle, sending, passed>>
push == <<pushes, warned>>
time == <<clock, restarts>>
vars == <<webhooks, push, time, ready, up, session, news, changes>>

Init ==
  /\ hooks = [h \in Hooks |-> [made |-> FALSE, active |-> FALSE, events |-> {}]]
  /\ log = {}
  /\ throttle = [p \in Stations |-> None]
  /\ ready = << >> /\ sending = {}
  /\ up = [p \in Stations |-> [available |-> TRUE, recent |-> TRUE]]
  /\ session \in [Stations -> BOOLEAN]    \* restored from Redis
  /\ pushes = [d \in Devices |-> None]
  /\ clock = 0 /\ news = 0 /\ changes = 0 /\ restarts = 0
  /\ passed = [p \in Stations |-> << >>]
  /\ warned = [d \in Devices |-> << >>]

Changes == changes < MaxChanges /\ changes' = changes + 1

(* A request or a message is handled, and leaves tasks for the loop. *)
Happens(tasks) ==
  /\ news < MaxNews /\ news' = news + 1
  /\ ready' = ready \o tasks
  /\ UNCHANGED changes

----------------------------------------------------------------------------
(* Pushes *)

(* send_notification: one webpush to each subscription.  An endpoint that  *)
(* is gone answers 404 or 410, and such an answer is false where the code  *)
(* asks whether there is one: no subscription is ever removed here.        *)
Targets(u, type) == {d \in Devices : User[d] = u /\ pushes[d] # None /\ pushes[d].type = type}

Used(subs, reached) ==
  [d \in Devices |-> IF d \in reached THEN [subs[d] EXCEPT !.used = clock] ELSE subs[d]]

(* The latest use of a client's subscriptions, those never used coming     *)
(* last.                                                                   *)
LatestUse_NullsFirst(subs, u) ==
  LET used == {subs[d].used : d \in Targets(u, "client")}
  IN  IF used = {} \/ None \in used THEN None ELSE CHOOSE t \in used : \A s \in used : s <= t
LatestUse(subs, u) ==
  LET used == {subs[d].used : d \in Targets(u, "client")} \ {None}
  IN  IF used = {} THEN None ELSE CHOOSE t \in used : \A s \in used : s <= t

WarningDue(subs, u) == LET last == LatestUse(subs, u) IN last # None => clock - last >= Day

Subscribe(d, type) ==
  /\ Changes
  /\ pushes' = [pushes EXCEPT ![d] =
       IF @ = None THEN [type |-> type, used |-> None] ELSE [@ EXCEPT !.type = type]]
  /\ UNCHANGED <<webhooks, warned, time, ready, up, session, news>>

Unsubscribe(d) ==
  /\ Changes
  /\ pushes[d] # None
  /\ pushes' = [pushes EXCEPT ![d] = None]
  /\ warned' = [warned EXCEPT ![d] = << >>]
  /\ UNCHANGED <<webhooks, time, ready, up, session, news>>

TypeOf(u) == IF u \in Clients THEN "client" ELSE "owner"

TestPush(u) ==
  /\ Happens(<< >>)
  /\ \E reached \in SUBSET Targets(u, TypeOf(u)) : pushes' = Used(pushes, reached)
  /\ UNCHANGED <<webhooks, warned, time, up, session>>

(* The pushes of a start through the API. *)
ApiStart(u) ==
  /\ Happens(<< >>)
  /\ \E reached \in SUBSET (Targets(u, "client") \cup Targets(Owner, "owner")) :
       pushes' = Used(pushes, reached)
  /\ UNCHANGED <<webhooks, warned, time, up, session>>

(* And of a stop, which warns the client whose balance has become low: the *)
(* notice that the session is over counts as the day's last.               *)
ApiStop(u, low) ==
  /\ Happens(<< >>)
  /\ UNCHANGED <<webhooks, time, up, session>>
  /\ \E told \in SUBSET (Targets(u, "client") \cup Targets(Owner, "owner")) :
       LET subs == Used(pushes, told) IN
       \/ /\ low /\ WarningDue(subs, u)
          /\ \E reached \in SUBSET Targets(u, "client") :
               /\ pushes' = Used(subs, reached)
               /\ warned' = [d \in Devices |-> IF d \in reached THEN Append(warned[d], clock)
                                                                ELSE warned[d]]
       \/ /\ ~low \/ ~WarningDue(subs, u)
          /\ pushes' = subs /\ UNCHANGED warned

----------------------------------------------------------------------------
(* What leaves tasks behind *)

Dispatch(event, p) == [do |-> "dispatch", event |-> event, at |-> p, n |-> news + 1]
PushTask(u, type) == [do |-> "push", user |-> u, type |-> type, n |-> news + 1]

PaymentConfirmed(u) ==
  /\ Happens(<<PushTask(u, "client")>>)
  /\ UNCHANGED <<webhooks, push, time, up, session>>

(* The notice of an error goes to the client of the latest session that    *)
(* the connector's transactions name; if none has started, to nobody.      *)
ErrorNotice(u) == PushTask(u, "client")

StatusNotification(p, faulty, u) ==
  /\ LET changed == Dispatch("connector.status_changed", p)
     IN  Happens(IF faulty THEN <<ErrorNotice(u), Dispatch("charging.error", p), changed>>
                           ELSE <<changed>>)
  /\ UNCHANGED <<webhooks, push, time, up, session>>

StartTransaction(p) ==
  /\ session' = [session EXCEPT ![p] = TRUE]
  /\ Happens(<<Dispatch("charging.started", p)>>)
  /\ UNCHANGED <<webhooks, push, time, up>>

(* "low": the client hears that the reserved funds run out. *)
MeterValues(p, low, u) ==
  /\ session[p]
  /\ LET progress == Dispatch("charging.progress", p)
     IN  Happens(IF low THEN <<PushTask(u, "client"), progress>> ELSE <<progress>>)
  /\ UNCHANGED <<webhooks, push, time, up, session>>

StopTransaction(p) ==
  /\ session' = [session EXCEPT ![p] = FALSE]
  /\ Happens(<<Dispatch("charging.completed", p)>>)
  /\ UNCHANGED <<webhooks, push, time, up>>

Heartbeat(p) ==
  /\ Happens(<< >>)
  /\ up' = [up EXCEPT ![p] = [available |-> TRUE, recent |-> TRUE]]
  /\ UNCHANGED <<webhooks, push, time, session>>

FallsSilent(p) ==
  /\ Happens(<< >>)
  /\ up' = [up EXCEPT ![p].recent = FALSE]
  /\ UNCHANGED <<webhooks, push, time, session>>

DeleteStation(p) ==
  /\ Happens(<< >>)
  /\ up' = [up EXCEPT ![p].available = FALSE]
  /\ UNCHANGED <<webhooks, push, time, session>>

(* update_all_station_statuses, every two minutes. *)
Sweep ==
  LET lost == {p \in Stations : up[p].available /\ ~up[p].recent}
      back == {p \in Stations : ~up[p].available /\ up[p].recent}
  IN  /\ lost \cup back # {}
      /\ up' = [p \in Stations |-> [up[p] EXCEPT !.available = up[p].recent]]
      /\ \E downs \in SetToSeqs(lost), ups \in SetToSeqs(back) :
           Happens([i \in 1..2 * Len(downs) |->
                      IF i % 2 = 1 THEN PushTask(Owner, "owner")
                      ELSE Dispatch("station.offline", downs[i \div 2])]
                   \o [i \in DOMAIN ups |-> Dispatch("station.online", ups[i])])
      /\ UNCHANGED <<webhooks, push, time, session>>

----------------------------------------------------------------------------
(* What an administrator does to webhooks *)

CreateWebhook(h, events) ==
  /\ Changes
  /\ ~hooks[h].made
  /\ hooks' = [hooks EXCEPT ![h] = [made |-> TRUE, active |-> TRUE, events |-> events]]
  /\ UNCHANGED <<log, throttle, sending, passed, push, time, ready, up, session, news>>

UpdateWebhook(h, active, events) ==
  /\ Changes
  /\ hooks[h].made
  /\ hooks' = [hooks EXCEPT ![h] = [@ EXCEPT !.active = active, !.events = events]]
  /\ UNCHANGED <<log, throttle, sending, passed, push, time, ready, up, session, news>>

(* Its rows of the log go with it; its deliveries under way do not. *)
DeleteWebhook(h) ==
  /\ Changes
  /\ hooks[h].made
  /\ hooks' = [hooks EXCEPT ![h] = [made |-> FALSE, active |-> FALSE, events |-> {}]]
  /\ log' = {row \in log : row.hook # h}
  /\ UNCHANGED <<throttle, sending, passed, push, time, ready, up, session, news>>

----------------------------------------------------------------------------
(* The tasks *)

Starts(task) == ready # << >> /\ task = Head(ready)

(* Entries that have gone by three intervals are forgotten. *)
Pruned_All(table) ==
  IF Cardinality({p \in Stations : table[p] # None}) <= MaxKeys THEN table
  ELSE [p \in Stations |-> None]
Pruned(table) ==
  IF Cardinality({p \in Stations : table[p] # None}) <= MaxKeys THEN table
  ELSE [p \in Stations |-> IF table[p] # None /\ table[p] > clock - 3 * Interval
                           THEN table[p] ELSE None]

Throttled(task) ==
  /\ task.event = "charging.progress"
  /\ throttle[task.at] # None
  /\ clock - throttle[task.at] < Interval

Wanting(event) == {h \in Hooks : hooks[h].active /\ event \in hooks[h].events}

(* _dispatch: one task for each subscription, in whatever order the        *)
(* database returns them.                                                  *)
RunDispatch(task) ==
  /\ Starts(task) /\ task.do = "dispatch"
  /\ IF Throttled(task)
     THEN /\ ready' = Tail(ready)
          /\ UNCHANGED <<throttle, passed>>
     ELSE /\ IF task.event = "charging.progress"
             THEN /\ throttle' = Pruned([throttle EXCEPT ![task.at] = clock])
                  /\ passed' = [passed EXCEPT ![task.at] = Append(@, clock)]
             ELSE UNCHANGED <<throttle, passed>>
          /\ \E to \in SetToSeqs(Wanting(task.event)) :
               ready' = Tail(ready) \o [i \in DOMAIN to |->
                 [do |-> "deliver", hook |-> to[i], n |-> task.n,
                  event |-> task.event, at |-> task.at]]
  /\ UNCHANGED <<hooks, log, sending, push, time, up, session, news, changes>>

(* _deliver up to its first await: the envelope is stamped and signed.     *)
RunDeliver(task) ==
  /\ Starts(task) /\ task.do = "deliver"
  /\ ready' = Tail(ready)
  /\ sending' = sending \cup {[hook |-> task.hook, n |-> task.n, event |-> task.event,
                               at |-> task.at, stamp |-> clock, attempt |-> 1]}
  /\ UNCHANGED <<hooks, log, throttle, passed, push, time, up, session, news, changes>>

RunPush(task) ==
  /\ Starts(task) /\ task.do = "push"
  /\ ready' = Tail(ready)
  /\ \E reached \in SUBSET Targets(task.user, task.type) : pushes' = Used(pushes, reached)
  /\ UNCHANGED <<webhooks, warned, time, up, session, news, changes>>

(* The envelope of the next attempt. *)
Again_Stamped(d) == [d EXCEPT !.attempt = d.attempt + 1, !.stamp = clock]
Again(d) == [d EXCEPT !.attempt = d.attempt + 1]

(* An answer, a refusal or no answer within ten seconds: it is logged, if  *)
(* the subscription is still there, and what failed is tried again after a *)
(* pause, up to the last attempt.                                          *)
Answered(d, success) ==
  /\ d \in sending
  /\ log' = IF hooks[d.hook].made
            THEN log \cup {[hook |-> d.hook, n |-> d.n, event |-> d.event, at |-> d.at,
                            stamp |-> d.stamp, attempt |-> d.attempt, success |-> success]}
            ELSE log
  /\ sending' = (sending \ {d}) \cup
       (IF success \/ d.attempt = Attempts THEN {} ELSE {Again(d)})
  /\ UNCHANGED <<hooks, throttle, passed, push, time, ready, up, session, news, changes>>

Tick ==
  /\ clock < MaxTime /\ clock' = clock + 1
  /\ UNCHANGED <<webhooks, push, restarts, ready, up, session, news, changes>>

(* What is only in memory is lost; sessions are restored from Redis when   *)
(* the shutdown was orderly.                                               *)
Restart ==
  /\ restarts < MaxRestarts /\ restarts' = restarts + 1
  /\ throttle' = [p \in Stations |-> None] /\ passed' = [p \in Stations |-> << >>]
  /\ ready' = << >> /\ sending' = {}
  /\ session' \in {session, [p \in Stations |-> FALSE]}
  /\ UNCHANGED <<hooks, log, push, clock, up, news, changes>>

Next ==
  \/ \E d \in Devices : (\E type \in {"client", "owner"} : Subscribe(d, type)) \/ Unsubscribe(d)
  \/ \E u \in Clients \cup {Owner} : TestPush(u)
  \/ \E u \in Clients :
       \/ ApiStart(u)
       \/ \E low \in BOOLEAN : ApiStop(u, low)
       \/ PaymentConfirmed(u)
       \/ \E p \in Stations, bad \in BOOLEAN : StatusNotification(p, bad, u) \/ MeterValues(p, bad, u)
  \/ \E p \in Stations :
       \/ StartTransaction(p) \/ StopTransaction(p)
       \/ Heartbeat(p) \/ FallsSilent(p) \/ DeleteStation(p)
  \/ Sweep
  \/ \E h \in Hooks :
       \/ \E events \in EventSets :
            CreateWebhook(h, events) \/ \E active \in BOOLEAN : UpdateWebhook(h, active, events)
       \/ DeleteWebhook(h)
  \/ \E task \in ToSet(ready) : RunDispatch(task) \/ RunDeliver(task) \/ RunPush(task)
  \/ \E d \in sending, success \in BOOLEAN : Answered(d, success)
  \/ Tick
  \/ Restart

Spec == Init /\ [][Next]_vars

----------------------------------------------------------------------------
(* Properties *)

(* Deliveries arrive in any order, for one that fails is tried again while *)
(* later ones pass it.  Their timestamps tell the order all the same: what *)
(* happened earlier bears no later stamp, to whichever subscriber it went, *)
(* and all attempts of one delivery, which a subscriber may get twice,     *)
(* bear the same.                                                          *)
TimestampsTellOrder ==
  \A a, b \in log :
    /\ a.n < b.n => a.stamp <= b.stamp
    /\ a.n = b.n /\ a.hook = b.hook /\ a.event = b.event /\ a.at = b.at
         => a.stamp = b.stamp

(* While one process runs, the progress of a station is passed on at most  *)
(* once in thirty seconds, also after the table that remembers when was    *)
(* pruned because it had grown too long.                                   *)
ProgressIsSpaced ==
  \A p \in Stations : \A i \in 2..Len(passed[p]) : passed[p][i] - passed[p][i - 1] >= Interval

(* No device is warned of a low balance twice in a day, although the       *)
(* warnings leave no record of their own, each has only the last use of    *)
(* some subscription to go by, and devices come and go in between.         *)
WarnedOnceADay ==
  \A d \in Devices : \A i \in 2..Len(warned[d]) : warned[d][i] - warned[d][i - 1] >= Day
=============================================================================
