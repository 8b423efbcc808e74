----------------------------- MODULE NoticesProofs -----------------------------
(***************************************************************************)
(* For every set of webhooks, stations and devices, every interval, and    *)
(* every bound: timestamps tell the order of events, the progress of a     *)
(* station is passed on at most once in an interval, and no device is      *)
(* warned twice a day.  Each rests on an invariant about variables of its  *)
(* own: the queue of the loop and what it has sent, the table of the       *)
(* throttle, and the subscriptions.                                        *)
(***************************************************************************)
EXTENDS Notices, FiniteSetTheorems, WellFoundedInduction, TLAPS

LEMMA Constants ==
  /\ Attempts \in Nat /\ Interval \in Nat /\ Day \in Nat /\ Interval > 0 /\ Day > 0
  /\ MaxKeys \in Nat /\ None \notin Nat
  /\ None \notin [type: {"client", "owner"}, used: Nat \cup {None}]
  /\ IsFiniteSet(Hooks) /\ IsFiniteSet(Stations)
BY NoticesAssumption

Counters == clock \in Nat /\ news \in Nat

LEMMA CountersHold == Spec => []Counters
<1>1. Init => Counters
  BY DEF Init, Counters
<1>2. Counters /\ [Next]_vars => Counters'
  <2> SUFFICES ASSUME Counters, [Next]_vars PROVE Counters'
    OBVIOUS
  <2>1. \/ UNCHANGED <<clock, news>>
        \/ news' = news + 1 /\ clock' = clock
        \/ news' = news /\ clock' = clock + 1
    <3>1. CASE UNCHANGED vars
      BY <3>1 DEF vars, time
    <3>2. ASSUME NEW d \in Devices, NEW type \in {"client", "owner"},
                 Subscribe(d, type) \/ Unsubscribe(d)
          PROVE  UNCHANGED <<clock, news>>
      BY <3>2 DEF Subscribe, Unsubscribe, time
    <3>3. ASSUME NEW u, TestPush(u) \/ ApiStart(u) \/ PaymentConfirmed(u)
                        \/ (\E low \in BOOLEAN : ApiStop(u, low))
          PROVE  news' = news + 1 /\ clock' = clock
      BY <3>3 DEF TestPush, ApiStart, PaymentConfirmed, ApiStop, Happens, time
    <3>4. ASSUME NEW p \in Stations, NEW bad \in BOOLEAN, NEW u,
                 StatusNotification(p, bad, u) \/ MeterValues(p, bad, u)
          PROVE  news' = news + 1 /\ clock' = clock
      BY <3>4 DEF StatusNotification, MeterValues, Happens, time
    <3>5. ASSUME NEW p \in Stations,
                 StartTransaction(p) \/ StopTransaction(p) \/ Heartbeat(p)
                   \/ FallsSilent(p) \/ DeleteStation(p)
          PROVE  news' = news + 1 /\ clock' = clock
      BY <3>5 DEF StartTransaction, StopTransaction, Heartbeat, FallsSilent,
        DeleteStation, Happens, time
    <3>6. ASSUME Sweep PROVE news' = news + 1 /\ clock' = clock
      BY <3>6 DEF Sweep, Happens, time
    <3>7. ASSUME NEW h \in Hooks, NEW active, NEW events,
                 CreateWebhook(h, events) \/ UpdateWebhook(h, active, events)
                   \/ DeleteWebhook(h)
          PROVE  UNCHANGED <<clock, news>>
      BY <3>7 DEF CreateWebhook, UpdateWebhook, DeleteWebhook, time
    <3>8. ASSUME NEW task, RunDispatch(task) \/ RunDeliver(task) \/ RunPush(task)
          PROVE  UNCHANGED <<clock, news>>
      BY <3>8 DEF RunDispatch, RunDeliver, RunPush, time
    <3>9. ASSUME NEW d, NEW success, Answered(d, success) PROVE UNCHANGED <<clock, news>>
      BY <3>9 DEF Answered, time
    <3>10. Tick => news' = news /\ clock' = clock + 1
      BY DEF Tick
    <3>11. Restart => UNCHANGED <<clock, news>>
      BY DEF Restart
    <3> QED BY <3>1, <3>2, <3>3, <3>4, <3>5, <3>6, <3>7, <3>8, <3>9, <3>10, <3>11 DEF Next
  <2> QED BY <2>1 DEF Counters
<1> QED BY <1>1, <1>2, PTL DEF Spec

----------------------------------------------------------------------------
(* The tasks of the loop and the deliveries they become *)

PushTasks == [do: {"push"}, user: Clients \cup {Owner}, type: {"client", "owner"}, n: Nat]
DispatchTasks == [do: {"dispatch"}, event: Events, at: Stations, n: Nat]
DeliverTasks == [do: {"deliver"}, hook: Hooks, n: Nat, event: Events, at: Stations]
Tasks == PushTasks \cup DispatchTasks \cup DeliverTasks

(* One thing that happened at one station; one delivery of it. *)
SameNews(x, y) == x.n = y.n /\ x.event = y.event /\ x.at = y.at
SameDelivery(x, y) == SameNews(x, y) /\ x.hook = y.hook

(* What is delivered is no later, and another, than what is dispatched     *)
(* after it; of two deliveries the one that starts first is no later.      *)
Precedes(x, y) == x.n <= y.n /\ ~SameNews(x, y)
DeliveredBefore(x, y) == x.n <= y.n /\ ~SameDelivery(x, y)

(* x is before y in the queue.  A dispatch puts its deliveries at the end, *)
(* so that those of what happened earlier come first.                      *)
InTurn(x, y) ==
  /\ x.do = "dispatch" /\ y.do = "dispatch" => Precedes(x, y)
  /\ x.do = "deliver" /\ y.do = "deliver" => DeliveredBefore(x, y)
  /\ x.do = "deliver" /\ y.do = "dispatch" => Precedes(x, y)
  /\ x.do = "dispatch" /\ y.do = "deliver" => Precedes(y, x)

(* The delivery s is under way or logged, x is in the queue. *)
Gone(s, x) ==
  /\ x.do = "dispatch" => Precedes(s, x)
  /\ x.do = "deliver" => DeliveredBefore(s, x)

Queued(q, S) ==
  /\ \A i, j \in 1..Len(q) : i < j => InTurn(q[i], q[j])
  /\ \A i \in 1..Len(q), s \in S : Gone(s, q[i])

Stamped(S, now, latest) ==
  /\ \A s \in S : s.n \in Nat /\ s.n <= latest /\ s.stamp \in Nat /\ s.stamp <= now
  /\ \A a, b \in S : /\ a.n < b.n => a.stamp <= b.stamp
                     /\ SameDelivery(a, b) => a.stamp = b.stamp

Sent == sending \cup log

Deliveries ==
  /\ ready \in Seq(Tasks)
  /\ \A i \in 1..Len(ready) : ready[i].n <= news
  /\ Queued(ready, Sent)
  /\ Stamped(Sent, clock, news)

LEMMA TaskFacts ==
  ASSUME NEW x \in Tasks
  PROVE  /\ x.n \in Nat
         /\ x.do = "dispatch" => x.event \in Events /\ x.at \in Stations
         /\ x.do = "deliver" => x.hook \in Hooks /\ x.event \in Events /\ x.at \in Stations
BY DEF Tasks, PushTasks, DispatchTasks, DeliverTasks

LEMMA TailFacts ==
  ASSUME NEW S, NEW q \in Seq(Tasks), q # << >>, Queued(q, S)
  PROVE  /\ Head(q) \in Tasks /\ Head(q) = q[1] /\ 1 \in 1..Len(q)
         /\ Tail(q) \in Seq(Tasks) /\ Len(Tail(q)) \in Nat
         /\ \A i \in 1..Len(Tail(q)) : /\ i + 1 \in 1..Len(q) /\ Tail(q)[i] = q[i + 1]
                                       /\ Tail(q)[i] \in Tasks
                                       /\ InTurn(Head(q), Tail(q)[i])
         /\ \A s \in S : Gone(s, Head(q))
         /\ Queued(Tail(q), S)
<1>1. /\ Head(q) \in Tasks /\ Head(q) = q[1] /\ Len(q) \in Nat /\ Len(q) > 0
      /\ Tail(q) \in Seq(Tasks) /\ Len(Tail(q)) = Len(q) - 1
      /\ \A i \in 1..Len(Tail(q)) : Tail(q)[i] = q[i + 1] /\ Tail(q)[i] \in Tasks
  OBVIOUS
<1>2. /\ 1 \in 1..Len(q) /\ Len(Tail(q)) \in Nat
      /\ \A i \in 1..Len(Tail(q)) : i + 1 \in 1..Len(q) /\ 1 < i + 1
      /\ \A i, j \in 1..Len(Tail(q)) : i < j => i + 1 < j + 1
  BY <1>1
<1>3. \A i \in 1..Len(Tail(q)) : InTurn(Head(q), Tail(q)[i])
  BY <1>1, <1>2 DEF Queued
<1>4. Queued(Tail(q), S)
  BY <1>1, <1>2 DEF Queued
<1>5. \A s \in S : Gone(s, Head(q))
  BY <1>1, <1>2 DEF Queued
<1> QED BY <1>1, <1>2, <1>3, <1>4, <1>5

LEMMA ConcatFacts ==
  ASSUME NEW q \in Seq(Tasks), NEW t \in Seq(Tasks)
  PROVE  /\ q \o t \in Seq(Tasks) /\ Len(q) \in Nat /\ Len(t) \in Nat
         /\ Len(q \o t) = Len(q) + Len(t)
         /\ \A i \in 1..Len(q \o t) :
              \/ i \in 1..Len(q) /\ (q \o t)[i] = q[i]
              \/ /\ i > Len(q) /\ i - Len(q) \in 1..Len(t)
                 /\ (q \o t)[i] = t[i - Len(q)]
<1> DEFINE r == q \o t
<1>1. /\ r \in Seq(Tasks) /\ Len(q) \in Nat /\ Len(t) \in Nat
      /\ Len(r) = Len(q) + Len(t)
      /\ \A i \in 1..Len(q) : r[i] = q[i]
      /\ \A i \in 1..Len(t) : r[Len(q) + i] = t[i]
  OBVIOUS
<1> HIDE DEF r
<1>2. ASSUME NEW i \in 1..Len(r), i \notin 1..Len(q)
      PROVE  i > Len(q) /\ i - Len(q) \in 1..Len(t) /\ Len(q) + (i - Len(q)) = i
  BY <1>1, <1>2
<1>3. \A i \in 1..Len(r) : i \notin 1..Len(q) => r[i] = t[i - Len(q)]
  BY <1>1, <1>2
<1>4. /\ r \in Seq(Tasks) /\ Len(r) = Len(q) + Len(t)
      /\ \A i \in 1..Len(r) :
           \/ i \in 1..Len(q) /\ r[i] = q[i]
           \/ i > Len(q) /\ i - Len(q) \in 1..Len(t) /\ r[i] = t[i - Len(q)]
  BY <1>1, <1>2, <1>3
<1> QED BY <1>1, <1>4 DEF r

LEMMA Appended ==
  ASSUME NEW S, NEW q \in Seq(Tasks), NEW t \in Seq(Tasks), Queued(q, S), Queued(t, S),
         \A i \in 1..Len(q), j \in 1..Len(t) : InTurn(q[i], t[j])
  PROVE  q \o t \in Seq(Tasks) /\ Queued(q \o t, S)
<1> DEFINE r == q \o t
<1>1. /\ r \in Seq(Tasks) /\ Len(q) \in Nat /\ Len(t) \in Nat
      /\ Len(r) = Len(q) + Len(t)
  BY ConcatFacts
<1>2. \A i \in 1..Len(r) :
        \/ i \in 1..Len(q) /\ r[i] = q[i]
        \/ i > Len(q) /\ i - Len(q) \in 1..Len(t) /\ r[i] = t[i - Len(q)]
  BY ConcatFacts
<1> HIDE DEF r
<1>3. ASSUME NEW i \in 1..Len(r), NEW j \in 1..Len(r), i < j
      PROVE  InTurn(r[i], r[j])
  <2>1. CASE i \in 1..Len(q) /\ j \in 1..Len(q)
    <3>1. r[i] = q[i] /\ r[j] = q[j]
      BY <1>1, <1>2, <2>1
    <3> QED BY <1>3, <2>1, <3>1 DEF Queued
  <2>2. CASE i \in 1..Len(q) /\ j \notin 1..Len(q)
    <3>1. r[i] = q[i]
      BY <1>1, <1>2, <2>2
    <3> QED BY <1>2, <2>2, <3>1
  <2>3. CASE i \notin 1..Len(q)
    <3>1. j \notin 1..Len(q) /\ i - Len(q) < j - Len(q)
      BY <1>1, <1>3, <2>3
    <3>2. InTurn(t[i - Len(q)], t[j - Len(q)])
      BY <1>2, <2>3, <3>1 DEF Queued
    <3> QED BY <1>2, <2>3, <3>1, <3>2
  <2> QED BY <2>1, <2>2, <2>3
<1>4. \A i \in 1..Len(r), s \in S : Gone(s, r[i])
  BY <1>1, <1>2 DEF Queued
<1>5. r \in Seq(Tasks) /\ Queued(r, S)
  BY <1>1, <1>3, <1>4 DEF Queued
<1> QED BY <1>5 DEF r

(* What is sent changes, but no new delivery starts. *)
LEMMA NoneStarts ==
  ASSUME NEW q, NEW S, NEW T, NEW now, NEW latest, Queued(q, S), Stamped(S, now, latest),
         \A s \in T : \E r \in S : /\ s.n = r.n /\ s.event = r.event /\ s.at = r.at
                                   /\ s.hook = r.hook /\ s.stamp = r.stamp
  PROVE  Queued(q, T) /\ Stamped(T, now, latest)
<1>1. ASSUME NEW i \in 1..Len(q), NEW s \in T PROVE Gone(s, q[i])
  <2>1. PICK r \in S : /\ s.n = r.n /\ s.event = r.event /\ s.at = r.at
                       /\ s.hook = r.hook /\ s.stamp = r.stamp
    OBVIOUS
  <2>2. Gone(r, q[i])
    BY DEF Queued
  <2> QED BY <2>1, <2>2 DEF Gone, Precedes, DeliveredBefore, SameDelivery, SameNews
<1>2. Queued(q, T)
  BY <1>1 DEF Queued
<1>3. ASSUME NEW a \in T, NEW b \in T
      PROVE  /\ a.n \in Nat /\ a.n <= latest /\ a.stamp \in Nat /\ a.stamp <= now
             /\ a.n < b.n => a.stamp <= b.stamp
             /\ SameDelivery(a, b) => a.stamp = b.stamp
  <2>1. PICK r \in S : /\ a.n = r.n /\ a.event = r.event /\ a.at = r.at
                       /\ a.hook = r.hook /\ a.stamp = r.stamp
    OBVIOUS
  <2>2. PICK s \in S : /\ b.n = s.n /\ b.event = s.event /\ b.at = s.at
                       /\ b.hook = s.hook /\ b.stamp = s.stamp
    OBVIOUS
  <2> QED BY <2>1, <2>2 DEF Stamped, SameDelivery, SameNews
<1>4. Stamped(T, now, latest)
  BY <1>3 DEF Stamped
<1> QED BY <1>2, <1>4

LEMMA StampedLater ==
  ASSUME NEW S, NEW now \in Nat, NEW latest \in Nat, NEW now2 \in Nat, NEW latest2 \in Nat,
         now <= now2, latest <= latest2, Stamped(S, now, latest)
  PROVE  Stamped(S, now2, latest2)
<1>1. \A s \in S : s.n \in Nat /\ s.n <= latest2 /\ s.stamp \in Nat /\ s.stamp <= now2
  BY DEF Stamped
<1> QED BY <1>1 DEF Stamped

(* Something happens: its tasks have a number of their own. *)
LEMMA NewsComes ==
  ASSUME Counters, Counters', Deliveries, NEW tasks \in Seq(Tasks), Happens(tasks),
         UNCHANGED <<sending, log, clock>>,
         \A i \in 1..Len(tasks) : tasks[i].n = news + 1 /\ tasks[i].do # "deliver",
         \A i, j \in 1..Len(tasks) :
           i < j /\ tasks[i].do = "dispatch" /\ tasks[j].do = "dispatch"
             => ~SameNews(tasks[i], tasks[j])
  PROVE  Deliveries'
<1>1. /\ ready' = ready \o tasks /\ news' = news + 1 /\ Sent' = Sent /\ clock' = clock
  BY DEF Happens, Sent
<1>2. \A i \in 1..Len(ready) : ready[i] \in Tasks /\ ready[i].n \in Nat /\ ready[i].n <= news
  BY TaskFacts DEF Deliveries
<1>3. \A s \in Sent : s.n \in Nat /\ s.n <= news
  BY DEF Deliveries, Stamped
<1>4. \A i \in 1..Len(ready), j \in 1..Len(tasks) : InTurn(ready[i], tasks[j])
  BY <1>2 DEF InTurn, Precedes, SameNews, Counters
<1>5. Queued(tasks, Sent)
  <2>1. ASSUME NEW i \in 1..Len(tasks), NEW j \in 1..Len(tasks), i < j
        PROVE  InTurn(tasks[i], tasks[j])
    BY <2>1 DEF InTurn, Precedes, Counters
  <2>2. ASSUME NEW i \in 1..Len(tasks), NEW s \in Sent PROVE Gone(s, tasks[i])
    BY <1>3 DEF Gone, Precedes, SameNews, Counters
  <2> QED BY <2>1, <2>2 DEF Queued
<1>6. ready' \in Seq(Tasks) /\ Queued(ready', Sent)
  BY <1>1, <1>4, <1>5, Appended DEF Deliveries
<1>7. \A i \in 1..Len(ready') : ready'[i].n <= news'
  <2> SUFFICES ASSUME NEW i \in 1..Len(ready') PROVE ready'[i].n <= news + 1
    BY <1>1
  <2>1. /\ Len(ready) \in Nat /\ Len(tasks) \in Nat /\ ready \in Seq(Tasks)
    BY DEF Deliveries
  <2>2. \/ i \in 1..Len(ready) /\ ready'[i] = ready[i]
        \/ i - Len(ready) \in 1..Len(tasks) /\ ready'[i] = tasks[i - Len(ready)]
    BY <1>1, <2>1, ConcatFacts
  <2> QED BY <1>2, <2>2 DEF Counters
<1>8. Stamped(Sent, clock, news')
  <2>1. clock \in Nat /\ news \in Nat /\ news' \in Nat /\ news <= news'
    BY <1>1 DEF Counters
  <2> QED BY <2>1, StampedLater DEF Deliveries
<1> QED BY <1>1, <1>6, <1>7, <1>8 DEF Deliveries

(* A task is done and leaves nothing. *)
LEMMA TaskDone ==
  ASSUME Counters, Deliveries, ready # << >>, ready' = Tail(ready),
         UNCHANGED <<sending, log, clock, news>>
  PROVE  Deliveries'
<1>1. /\ ready \in Seq(Tasks) /\ Queued(ready, Sent)
  BY DEF Deliveries
<1>2. /\ ready' \in Seq(Tasks) /\ Queued(ready', Sent)
      /\ \A i \in 1..Len(ready') : i + 1 \in 1..Len(ready) /\ ready'[i] = ready[i + 1]
  BY <1>1, TailFacts
<1> QED BY <1>2 DEF Deliveries, Sent

(* A dispatch puts one delivery for each subscriber at the end. *)
LEMMA Dispatched ==
  ASSUME Counters, Deliveries, NEW task, Starts(task), task.do = "dispatch",
         UNCHANGED <<sending, log, clock, news>>,
         NEW to \in SetToSeqs(Wanting(task.event)),
         ready' = Tail(ready) \o [i \in DOMAIN to |->
                    [do |-> "deliver", hook |-> to[i], n |-> task.n,
                     event |-> task.event, at |-> task.at]]
  PROVE  Deliveries'
<1> DEFINE x(i) == [do |-> "deliver", hook |-> to[i], n |-> task.n,
                    event |-> task.event, at |-> task.at]
           rest == Tail(ready)
           new == [i \in DOMAIN to |-> x(i)]
<1>1. /\ ready \in Seq(Tasks) /\ Queued(ready, Sent) /\ ready # << >> /\ task = Head(ready)
  BY DEF Deliveries, Starts
<1>2. /\ task \in Tasks /\ task = ready[1] /\ 1 \in 1..Len(ready)
      /\ rest \in Seq(Tasks) /\ Len(rest) \in Nat
      /\ \A i \in 1..Len(rest) : /\ i + 1 \in 1..Len(ready) /\ rest[i] = ready[i + 1]
                                 /\ rest[i] \in Tasks /\ InTurn(task, rest[i])
      /\ \A s \in Sent : Gone(s, task)
      /\ Queued(rest, Sent)
  BY <1>1, TailFacts
<1>3. task.n \in Nat /\ task.n <= news /\ task.event \in Events /\ task.at \in Stations
  BY <1>2, TaskFacts DEF Deliveries
<1> DEFINE W == Wanting(task.event)
           m == Cardinality(W)
<1>4. W \subseteq Hooks /\ m \in Nat
  <2>1. W \in SUBSET Hooks
    BY DEF Wanting
  <2> QED BY <2>1, Constants, FS_Subset, FS_CardinalityType
<1>5. /\ to \in [1..m -> W] /\ DOMAIN to = 1..m
      /\ \A i, j \in 1..m : i # j => to[i] # to[j]
  BY DEF SetToSeqs
<1> HIDE DEF W, m
<1>6. \A i \in 1..m : x(i) \in Tasks /\ x(i).n = task.n
        /\ x(i).do = "deliver" /\ x(i).hook = to[i] /\ SameNews(x(i), task)
  BY <1>3, <1>4, <1>5 DEF Tasks, DeliverTasks, SameNews
<1>7. new \in [1..m -> Tasks] /\ \A i \in 1..m : new[i] = x(i)
  BY <1>5, <1>6
<1> HIDE DEF x, new, rest
<1>8. new \in Seq(Tasks) /\ Len(new) = m
  BY <1>4, <1>7
<1>9. \A i \in 1..Len(rest), j \in 1..Len(new) : InTurn(rest[i], new[j])
  <2> SUFFICES ASSUME NEW i \in 1..Len(rest), NEW j \in 1..m PROVE InTurn(rest[i], x(j))
    BY <1>7, <1>8
  <2>1. InTurn(task, rest[i])
    BY <1>2
  <2>2. x(j).n = task.n /\ x(j).do = "deliver" /\ SameNews(x(j), task)
    BY <1>6
  <2> QED BY <2>1, <2>2 DEF InTurn, Precedes, DeliveredBefore, SameDelivery, SameNews
<1>10. Queued(new, Sent)
  <2>1. ASSUME NEW i \in 1..m, NEW j \in 1..m, i < j PROVE InTurn(x(i), x(j))
    <3>1. x(i).hook # x(j).hook /\ x(i).n = x(j).n /\ x(i).n \in Nat
          /\ x(i).do = "deliver" /\ x(j).do = "deliver"
      BY <1>3, <1>5, <1>6, <2>1
    <3> QED BY <3>1 DEF InTurn, DeliveredBefore, SameDelivery
  <2>2. ASSUME NEW i \in 1..m, NEW s \in Sent PROVE Gone(s, x(i))
    <3>1. Gone(s, task)
      BY <1>2
    <3>2. x(i).n = task.n /\ x(i).do = "deliver" /\ SameNews(x(i), task)
      BY <1>6
    <3> QED BY <3>1, <3>2 DEF Gone, Precedes, DeliveredBefore, SameDelivery, SameNews
  <2> QED BY <1>7, <1>8, <2>1, <2>2 DEF Queued
<1>11. rest \o new \in Seq(Tasks) /\ Queued(rest \o new, Sent)
  BY <1>2, <1>8, <1>9, <1>10, Appended
<1>12. ready' = rest \o new
  BY DEF rest, new, x
<1>13. \A i \in 1..Len(ready') : ready'[i].n <= news
  <2> TAKE i \in 1..Len(ready')
  <2>1. \/ i \in 1..Len(rest) /\ ready'[i] = rest[i]
        \/ i - Len(rest) \in 1..Len(new) /\ ready'[i] = new[i - Len(rest)]
    <3>1. \A j \in 1..Len(rest \o new) :
            \/ j \in 1..Len(rest) /\ (rest \o new)[j] = rest[j]
            \/ j - Len(rest) \in 1..Len(new) /\ (rest \o new)[j] = new[j - Len(rest)]
      BY <1>2, <1>8, ConcatFacts
    <3> QED BY <1>12, <3>1
  <2> QED BY <1>2, <1>3, <1>6, <1>7, <1>8, <2>1 DEF Deliveries
<1> QED BY <1>11, <1>12, <1>13 DEF Deliveries, Sent

(* A delivery starts: it bears the present time, and no earlier one is     *)
(* left in the queue.                                                      *)
LEMMA Delivered ==
  ASSUME Counters, Deliveries, NEW task, RunDeliver(task)
  PROVE  Deliveries'
<1> DEFINE new == [hook |-> task.hook, n |-> task.n, event |-> task.event,
                   at |-> task.at, stamp |-> clock, attempt |-> 1]
           rest == Tail(ready)
<1>1. /\ ready \in Seq(Tasks) /\ Queued(ready, Sent) /\ ready # << >> /\ task = Head(ready)
      /\ task.do = "deliver" /\ ready' = rest /\ Sent' = Sent \cup {new}
      /\ UNCHANGED <<clock, news>>
  BY DEF Deliveries, RunDeliver, Starts, Sent, time
<1>2. /\ task \in Tasks /\ task = ready[1] /\ 1 \in 1..Len(ready)
      /\ rest \in Seq(Tasks)
      /\ \A i \in 1..Len(rest) : /\ i + 1 \in 1..Len(ready) /\ rest[i] = ready[i + 1]
                                 /\ rest[i] \in Tasks /\ InTurn(task, rest[i])
      /\ \A s \in Sent : Gone(s, task)
      /\ Queued(rest, Sent)
  BY <1>1, TailFacts
<1>3. task.n \in Nat /\ task.n <= news
  BY <1>2, TaskFacts DEF Deliveries
<1>4. /\ new.n = task.n /\ new.stamp = clock /\ SameDelivery(new, task)
  BY DEF SameDelivery, SameNews
<1> HIDE DEF new, rest
<1>5. ASSUME NEW i \in 1..Len(rest) PROVE Gone(new, rest[i])
  <2>1. InTurn(task, rest[i])
    BY <1>2
  <2> QED BY <1>1, <1>4, <2>1
          DEF InTurn, Gone, Precedes, DeliveredBefore, SameDelivery, SameNews
<1>6. Queued(rest, Sent')
  BY <1>1, <1>2, <1>5 DEF Queued
<1>7. Stamped(Sent', clock, news)
  <2>1. \A s \in Sent : s.n <= new.n /\ ~SameDelivery(s, new) /\ ~SameDelivery(new, s)
    BY <1>1, <1>2, <1>4 DEF Gone, DeliveredBefore, SameDelivery, SameNews
  <2>2. /\ \A s \in Sent : s.n \in Nat /\ s.n <= news /\ s.stamp \in Nat /\ s.stamp <= clock
        /\ new.n \in Nat /\ new.n <= news /\ new.stamp \in Nat /\ new.stamp <= clock
    BY <1>3, <1>4 DEF Deliveries, Stamped, Counters
  <2>3. ASSUME NEW a \in Sent', NEW b \in Sent'
        PROVE  /\ a.n < b.n => a.stamp <= b.stamp
               /\ SameDelivery(a, b) => a.stamp = b.stamp
    <3>1. CASE a \in Sent /\ b \in Sent
      BY <3>1 DEF Deliveries, Stamped
    <3>2. CASE a \in Sent /\ b = new
      BY <1>4, <2>1, <2>2, <3>2
    <3>3. CASE a = new /\ b \in Sent
      BY <2>1, <2>2, <3>3
    <3>4. CASE a = new /\ b = new
      BY <2>2, <3>4
    <3> QED BY <1>1, <3>1, <3>2, <3>3, <3>4
  <2> QED BY <1>1, <2>2, <2>3 DEF Stamped
<1>8. \A i \in 1..Len(rest) : rest[i].n <= news
  BY <1>2 DEF Deliveries
<1> QED BY <1>1, <1>2, <1>6, <1>7, <1>8 DEF Deliveries

(* The queue stays and no delivery starts. *)
LEMMA NothingStarts ==
  ASSUME Counters, Counters', Deliveries, UNCHANGED <<ready, news>>, clock' >= clock,
         \A s \in Sent' : \E r \in Sent : /\ s.n = r.n /\ s.event = r.event /\ s.at = r.at
                                          /\ s.hook = r.hook /\ s.stamp = r.stamp
  PROVE  Deliveries'
<1>1. Queued(ready, Sent') /\ Stamped(Sent', clock, news)
  BY NoneStarts DEF Deliveries
<1>2. Stamped(Sent', clock', news)
  BY <1>1, StampedLater DEF Counters
<1> QED BY <1>1, <1>2 DEF Deliveries

LEMMA HeadFacts ==
  ASSUME Deliveries, NEW task, Starts(task)
  PROVE  task \in Tasks /\ ready # << >>
BY TailFacts DEF Deliveries, Starts

(* What is left behind by the handlers. *)
LEMMA NewTasks ==
  ASSUME Counters
  PROVE  /\ \A e \in Events, p \in Stations :
              /\ Dispatch(e, p) \in Tasks /\ Dispatch(e, p).n = news + 1
              /\ Dispatch(e, p).do = "dispatch"
              /\ Dispatch(e, p).event = e /\ Dispatch(e, p).at = p
         /\ \A u \in Clients \cup {Owner}, type \in {"client", "owner"} :
              /\ PushTask(u, type) \in Tasks /\ PushTask(u, type).n = news + 1
              /\ PushTask(u, type).do = "push"
<1>1. news + 1 \in Nat
  BY DEF Counters
<1> QED BY <1>1 DEF Dispatch, PushTask, Tasks, PushTasks, DispatchTasks

(* Those of a sweep: two for each station that fell silent, one for each   *)
(* that is back.                                                           *)
LEMMA SweepTasks ==
  ASSUME Counters, NEW lost \in SUBSET Stations, NEW back \in SUBSET Stations,
         NEW downs \in SetToSeqs(lost), NEW ups \in SetToSeqs(back)
  PROVE  LET tasks == [i \in 1..2 * Len(downs) |->
                         IF i % 2 = 1 THEN PushTask(Owner, "owner")
                         ELSE Dispatch("station.offline", downs[i \div 2])]
                      \o [i \in DOMAIN ups |-> Dispatch("station.online", ups[i])]
         IN  /\ tasks \in Seq(Tasks)
             /\ \A i \in 1..Len(tasks) : tasks[i].n = news + 1 /\ tasks[i].do # "deliver"
             /\ \A i, j \in 1..Len(tasks) :
                  i < j /\ tasks[i].do = "dispatch" /\ tasks[j].do = "dispatch"
                    => ~SameNews(tasks[i], tasks[j])
<1> DEFINE m == Cardinality(lost)
           k == Cardinality(back)
           x(i) == IF i % 2 = 1 THEN PushTask(Owner, "owner")
                   ELSE Dispatch("station.offline", downs[i \div 2])
           y(i) == Dispatch("station.online", ups[i])
           s == [i \in 1..2 * Len(downs) |-> x(i)]
           t == [i \in DOMAIN ups |-> y(i)]
<1>1. m \in Nat /\ k \in Nat
  BY Constants, FS_Subset, FS_CardinalityType
<1>2. /\ downs \in [1..m -> lost] /\ ups \in [1..k -> back]
      /\ \A i, j \in 1..m : i # j => downs[i] # downs[j]
      /\ \A i, j \in 1..k : i # j => ups[i] # ups[j]
  BY DEF SetToSeqs
<1>3. Len(downs) = m /\ DOMAIN ups = 1..k
  BY <1>1, <1>2
<1> HIDE DEF m, k
<1>4. \A i \in 1..2 * m : i % 2 = 1 \/ i \div 2 \in 1..m
  BY <1>1
<1>5. \A i, j \in 1..2 * m : i % 2 # 1 /\ j % 2 # 1 /\ i # j => i \div 2 # j \div 2
  BY <1>1
<1>6. {"station.offline", "station.online"} \subseteq Events
  BY DEF Events
<1>7. \A i \in 1..2 * m :
        /\ x(i) \in Tasks /\ x(i).n = news + 1 /\ x(i).do # "deliver"
        /\ x(i).do = "dispatch" => /\ i % 2 # 1 /\ x(i).event = "station.offline"
                                   /\ x(i).at = downs[i \div 2]
  <2> TAKE i \in 1..2 * m
  <2>1. CASE i % 2 = 1
    <3>1. x(i) = PushTask(Owner, "owner")
      BY <2>1
    <3>2. x(i) \in Tasks /\ x(i).n = news + 1 /\ x(i).do = "push"
      BY <3>1, NewTasks
    <3> QED BY <3>2
  <2>2. CASE i % 2 # 1
    <3>1. downs[i \div 2] \in Stations
      BY <1>2, <1>4, <2>2
    <3>2. x(i) = Dispatch("station.offline", downs[i \div 2])
      BY <2>2
    <3> HIDE DEF x
    <3>3. x(i) \in Tasks /\ x(i).n = news + 1 /\ x(i).do = "dispatch"
          /\ x(i).event = "station.offline" /\ x(i).at = downs[i \div 2]
      BY <1>6, <3>1, <3>2, NewTasks
    <3> QED BY <2>2, <3>3
  <2> QED BY <2>1, <2>2
<1>8. \A i \in 1..k :
        /\ y(i) \in Tasks /\ y(i).n = news + 1 /\ y(i).do # "deliver"
        /\ y(i).event = "station.online" /\ y(i).at = ups[i]
  <2> TAKE i \in 1..k
  <2>1. ups[i] \in Stations
    BY <1>2
  <2>2. y(i) \in Tasks /\ y(i).n = news + 1 /\ y(i).do = "dispatch"
        /\ y(i).event = "station.online" /\ y(i).at = ups[i]
    BY <1>6, <2>1, NewTasks
  <2> QED BY <2>2
<1> HIDE DEF x, y
<1>9. /\ s \in Seq(Tasks) /\ Len(s) = 2 * m /\ \A i \in 1..2 * m : s[i] = x(i)
      /\ t \in Seq(Tasks) /\ Len(t) = k /\ \A i \in 1..k : t[i] = y(i)
  <2>1. 2 * m \in Nat
    BY <1>1
  <2>2. s \in [1..2 * m -> Tasks] /\ t \in [1..k -> Tasks]
    BY <1>3, <1>7, <1>8
  <2> QED BY <1>1, <1>3, <2>1, <2>2
<1> HIDE DEF s, t
<1> DEFINE r == s \o t
<1>10. /\ r \in Seq(Tasks)
       /\ \A i \in 1..Len(r) :
            \/ i \in 1..2 * m /\ r[i] = x(i)
            \/ i - 2 * m \in 1..k /\ i > 2 * m /\ r[i] = y(i - 2 * m)
  <2>1. /\ s \in Seq(Tasks) /\ Len(s) = 2 * m /\ t \in Seq(Tasks) /\ Len(t) = k
    BY <1>9
  <2>2. /\ r \in Seq(Tasks)
        /\ \A i \in 1..Len(r) :
             \/ i \in 1..Len(s) /\ r[i] = s[i]
             \/ i > Len(s) /\ i - Len(s) \in 1..Len(t) /\ r[i] = t[i - Len(s)]
    BY <2>1, ConcatFacts
  <2> HIDE DEF r
  <2>3. ASSUME NEW i \in 1..Len(r)
        PROVE  \/ i \in 1..2 * m /\ r[i] = x(i)
               \/ i - 2 * m \in 1..k /\ i > 2 * m /\ r[i] = y(i - 2 * m)
    <3>1. CASE i \in 1..Len(s) /\ r[i] = s[i]
      <4>1. i \in 1..2 * m
        BY <2>1, <3>1
      <4> QED BY <1>9, <3>1, <4>1
    <3>2. CASE i > Len(s) /\ i - Len(s) \in 1..Len(t) /\ r[i] = t[i - Len(s)]
      <4>1. i > 2 * m /\ i - 2 * m \in 1..k /\ r[i] = t[i - 2 * m]
        BY <2>1, <3>2
      <4> QED BY <1>9, <4>1
    <3> QED BY <2>2, <3>1, <3>2
  <2> QED BY <2>2, <2>3
<1> HIDE DEF r
<1>11. \A i \in 1..Len(r) : r[i].n = news + 1 /\ r[i].do # "deliver"
  BY <1>7, <1>8, <1>10
<1>12. ASSUME NEW i \in 1..Len(r), NEW j \in 1..Len(r), i < j,
              r[i].do = "dispatch", r[j].do = "dispatch"
       PROVE  ~SameNews(r[i], r[j])
  <2>1. CASE i \in 1..2 * m /\ j \in 1..2 * m
    <3>1. r[i] = x(i) /\ r[j] = x(j)
      BY <1>1, <1>10, <2>1
    <3>2. i \div 2 \in 1..m /\ j \div 2 \in 1..m /\ i \div 2 # j \div 2
      BY <1>4, <1>5, <1>7, <1>12, <2>1, <3>1
    <3>3. x(i).at # x(j).at
      <4>1. x(i).at = downs[i \div 2] /\ x(j).at = downs[j \div 2]
        BY <1>7, <1>12, <2>1, <3>1
      <4> QED BY <1>2, <3>2, <4>1
    <3> QED BY <3>1, <3>3 DEF SameNews
  <2>2. CASE i \in 1..2 * m /\ j \notin 1..2 * m
    <3>1. r[i] = x(i) /\ j - 2 * m \in 1..k /\ r[j] = y(j - 2 * m)
      BY <1>1, <1>10, <2>2
    <3>2. r[i].event = "station.offline" /\ r[j].event = "station.online"
      BY <1>7, <1>8, <1>12, <2>2, <3>1
    <3> QED BY <3>2 DEF SameNews
  <2>3. CASE i \notin 1..2 * m
    <3>1. j \notin 1..2 * m
      BY <1>1, <1>12, <2>3
    <3>2. /\ i - 2 * m \in 1..k /\ r[i] = y(i - 2 * m)
          /\ j - 2 * m \in 1..k /\ r[j] = y(j - 2 * m) /\ i - 2 * m # j - 2 * m
      BY <1>1, <1>10, <1>12, <2>3, <3>1
    <3>3. r[i].at # r[j].at
      BY <1>2, <1>8, <3>2
    <3> QED BY <3>3 DEF SameNews
  <2> QED BY <2>1, <2>2, <2>3
<1>13. r = [i \in 1..2 * Len(downs) |->
              IF i % 2 = 1 THEN PushTask(Owner, "owner")
              ELSE Dispatch("station.offline", downs[i \div 2])]
           \o [i \in DOMAIN ups |-> Dispatch("station.online", ups[i])]
  BY DEF r, s, t, x, y
<1> QED BY <1>10, <1>11, <1>12, <1>13

(* What happens leaves no task, one, or two that tell different news. *)
LEMMA HandlerKeeps ==
  ASSUME Counters, Counters', Deliveries, UNCHANGED <<sending, log, clock>>
  PROVE  /\ Happens(<< >>) => Deliveries'
         /\ \A x \in Tasks :
              x.n = news + 1 /\ x.do # "deliver" /\ Happens(<<x>>) => Deliveries'
         /\ \A x, y \in Tasks :
              /\ x.n = news + 1 /\ x.do # "deliver" /\ y.n = news + 1 /\ y.do # "deliver"
              /\ x.do = "push" \/ y.do = "push"
              /\ Happens(<<x, y>>)
              => Deliveries'
         /\ \A x, y, z \in Tasks :
              /\ x.n = news + 1 /\ x.do = "push"
              /\ y.n = news + 1 /\ y.do # "deliver"
              /\ z.n = news + 1 /\ z.do # "deliver" /\ y.event # z.event
              /\ Happens(<<x, y, z>>)
              => Deliveries'
<1>1. ASSUME Happens(<< >>) PROVE Deliveries'
  <2> DEFINE w == << >>
  <2>1. w \in Seq(Tasks) /\ Len(w) = 0 /\ Happens(w)
    BY <1>1
  <2> HIDE DEF w
  <2>2. \A i \in 1..Len(w) : FALSE
    BY <2>1
  <2> QED BY <2>1, <2>2, NewsComes
<1>2. ASSUME NEW x \in Tasks, x.n = news + 1, x.do # "deliver", Happens(<<x>>)
      PROVE  Deliveries'
  <2> DEFINE w == <<x>>
  <2>1. w \in Seq(Tasks) /\ Len(w) = 1 /\ w[1] = x /\ Happens(w)
    BY <1>2
  <2> HIDE DEF w
  <2>2. \A i \in 1..Len(w) : i = 1
    BY <2>1
  <2>3. /\ \A i \in 1..Len(w) : w[i].n = news + 1 /\ w[i].do # "deliver"
        /\ \A i, j \in 1..Len(w) : ~(i < j)
    BY <1>2, <2>1, <2>2
  <2> QED BY <2>1, <2>3, NewsComes
<1>3. ASSUME NEW x \in Tasks, NEW y \in Tasks, x.n = news + 1, x.do # "deliver",
             y.n = news + 1, y.do # "deliver", x.do = "push" \/ y.do = "push",
             Happens(<<x, y>>)
      PROVE  Deliveries'
  <2> DEFINE w == <<x, y>>
  <2>1. w \in Seq(Tasks) /\ Len(w) = 2 /\ w[1] = x /\ w[2] = y /\ Happens(w)
    BY <1>3
  <2> HIDE DEF w
  <2>2. \A i \in 1..Len(w) : i = 1 \/ i = 2
    BY <2>1
  <2>3. \A i \in 1..Len(w) : w[i].n = news + 1 /\ w[i].do # "deliver"
    BY <1>3, <2>1, <2>2
  <2>4. \A i, j \in 1..Len(w) :
          i < j /\ w[i].do = "dispatch" /\ w[j].do = "dispatch" => ~SameNews(w[i], w[j])
    BY <1>3, <2>1, <2>2
  <2> QED BY <2>1, <2>3, <2>4, NewsComes
<1>4. ASSUME NEW x \in Tasks, NEW y \in Tasks, NEW z \in Tasks,
             x.n = news + 1, x.do = "push", y.n = news + 1, y.do # "deliver",
             z.n = news + 1, z.do # "deliver", y.event # z.event, Happens(<<x, y, z>>)
      PROVE  Deliveries'
  <2> DEFINE w == <<x, y, z>>
  <2>1. w \in Seq(Tasks) /\ Len(w) = 3 /\ w[1] = x /\ w[2] = y /\ w[3] = z /\ Happens(w)
    BY <1>4
  <2> HIDE DEF w
  <2>2. \A i \in 1..Len(w) : i = 1 \/ i = 2 \/ i = 3
    BY <2>1
  <2>3. \A i \in 1..Len(w) : w[i].n = news + 1 /\ w[i].do # "deliver"
    BY <1>4, <2>1, <2>2
  <2>4. \A i, j \in 1..Len(w) :
          i < j /\ w[i].do = "dispatch" /\ w[j].do = "dispatch" => ~SameNews(w[i], w[j])
    BY <1>4, <2>1, <2>2 DEF SameNews
  <2> QED BY <2>1, <2>3, <2>4, NewsComes
<1> QED BY <1>1, <1>2, <1>3, <1>4

LEMMA DeliveriesHold == Spec => []Deliveries
<1>1. Init => Deliveries
  <2> SUFFICES ASSUME Init PROVE Deliveries
    OBVIOUS
  <2>1. ready \in Seq(Tasks) /\ Len(ready) = 0 /\ Sent = {}
    BY DEF Init, Sent
  <2> QED BY <2>1 DEF Deliveries, Queued, Stamped
<1>2. Counters /\ Counters' /\ Deliveries /\ [Next]_vars => Deliveries'
  <2> SUFFICES ASSUME Counters, Counters', Deliveries, [Next]_vars PROVE Deliveries'
    OBVIOUS
  <2>1. UNCHANGED <<ready, news, sending, log, clock>> => Deliveries'
    BY DEF Deliveries, Sent
  <2>2. CASE UNCHANGED vars
    BY <2>1, <2>2 DEF vars, webhooks, time
  <2>3. ASSUME NEW d \in Devices, NEW type \in {"client", "owner"},
               Subscribe(d, type) \/ Unsubscribe(d)
        PROVE  Deliveries'
    BY <2>1, <2>3 DEF Subscribe, Unsubscribe, webhooks, time
  <2>4. ASSUME NEW u, TestPush(u) \/ ApiStart(u) \/ (\E low \in BOOLEAN : ApiStop(u, low))
        PROVE  Deliveries'
    BY <2>4, HandlerKeeps DEF TestPush, ApiStart, ApiStop, webhooks, time
  <2>5. ASSUME NEW u \in Clients, PaymentConfirmed(u) PROVE Deliveries'
    BY <2>5, HandlerKeeps, NewTasks DEF PaymentConfirmed, webhooks, time
  <2>6. ASSUME NEW p \in Stations, Heartbeat(p) \/ FallsSilent(p) \/ DeleteStation(p)
        PROVE  Deliveries'
    BY <2>6, HandlerKeeps DEF Heartbeat, FallsSilent, DeleteStation, webhooks, time
  <2>7. ASSUME NEW p \in Stations, StartTransaction(p) \/ StopTransaction(p)
        PROVE  Deliveries'
    <3>1. PICK e \in Events : Happens(<<Dispatch(e, p)>>) /\ UNCHANGED <<sending, log, clock>>
      BY <2>7 DEF StartTransaction, StopTransaction, webhooks, time, Events
    <3> QED BY <3>1, HandlerKeeps, NewTasks
  <2>8. ASSUME NEW p \in Stations, NEW low \in BOOLEAN, NEW u \in Clients, MeterValues(p, low, u)
        PROVE  Deliveries'
    <3> DEFINE x == PushTask(u, "client")
               y == Dispatch("charging.progress", p)
    <3>1. /\ x \in Tasks /\ x.n = news + 1 /\ x.do = "push"
          /\ y \in Tasks /\ y.n = news + 1 /\ y.do = "dispatch"
      BY NewTasks DEF Events
    <3>2. UNCHANGED <<sending, log, clock>>
      BY <2>8 DEF MeterValues, webhooks, time
    <3>3. Happens(<<x, y>>) \/ Happens(<<y>>)
      BY <2>8, Zenon DEF MeterValues
    <3> HIDE DEF x, y
    <3> QED BY <3>1, <3>2, <3>3, HandlerKeeps
  <2>9. ASSUME NEW p \in Stations, NEW faulty \in BOOLEAN, NEW u \in Clients,
               StatusNotification(p, faulty, u)
        PROVE  Deliveries'
    <3> DEFINE x == ErrorNotice(u)
               y == Dispatch("charging.error", p)
               z == Dispatch("connector.status_changed", p)
    <3>1. /\ x \in Tasks /\ x.n = news + 1 /\ x.do = "push"
          /\ y \in Tasks /\ y.n = news + 1 /\ y.do = "dispatch"
          /\ z \in Tasks /\ z.n = news + 1 /\ z.do = "dispatch" /\ y.event # z.event
      BY NewTasks DEF Events, ErrorNotice
    <3>2. UNCHANGED <<sending, log, clock>>
      BY <2>9 DEF StatusNotification, webhooks, time
    <3>3. Happens(<<x, y, z>>) \/ Happens(<<z>>)
      BY <2>9, Zenon DEF StatusNotification
    <3> HIDE DEF x, y, z
    <3> QED BY <3>1, <3>2, <3>3, HandlerKeeps
  <2>10. ASSUME Sweep PROVE Deliveries'
    <3> DEFINE lost == {p \in Stations : up[p].available /\ ~up[p].recent}
               back == {p \in Stations : ~up[p].available /\ up[p].recent}
    <3>1. PICK downs \in SetToSeqs(lost), ups \in SetToSeqs(back) :
            Happens([i \in 1..2 * Len(downs) |->
                       IF i % 2 = 1 THEN PushTask(Owner, "owner")
                       ELSE Dispatch("station.offline", downs[i \div 2])]
                    \o [i \in DOMAIN ups |-> Dispatch("station.online", ups[i])])
      BY <2>10 DEF Sweep
    <3>2. lost \in SUBSET Stations /\ back \in SUBSET Stations
      OBVIOUS
    <3>3. UNCHANGED <<sending, log, clock>>
      BY <2>10 DEF Sweep, webhooks, time
    <3> HIDE DEF lost, back
    <3> QED BY <3>1, <3>2, <3>3, SweepTasks, NewsComes
  <2>11. ASSUME NEW h \in Hooks, NEW active, NEW events,
                CreateWebhook(h, events) \/ UpdateWebhook(h, active, events)
         PROVE  Deliveries'
    BY <2>1, <2>11 DEF CreateWebhook, UpdateWebhook, time
  <2>12. ASSUME NEW h \in Hooks, DeleteWebhook(h) PROVE Deliveries'
    <3>1. Sent' \subseteq Sent /\ UNCHANGED <<ready, news, clock>>
      BY <2>12 DEF DeleteWebhook, Sent, time
    <3>2. clock' >= clock
      BY <3>1 DEF Counters
    <3> QED BY <3>1, <3>2, NothingStarts
  <2>13. ASSUME NEW task \in ToSet(ready), RunDispatch(task) PROVE Deliveries'
    <3>1. UNCHANGED <<sending, log, clock, news>> /\ Starts(task) /\ task.do = "dispatch"
      BY <2>13 DEF RunDispatch, time
    <3>2. CASE ready' = Tail(ready)
      BY <3>1, <3>2, TaskDone, HeadFacts
    <3>3. CASE \E to \in SetToSeqs(Wanting(task.event)) :
                 ready' = Tail(ready) \o [i \in DOMAIN to |->
                   [do |-> "deliver", hook |-> to[i], n |-> task.n,
                    event |-> task.event, at |-> task.at]]
      BY <3>1, <3>3, Dispatched
    <3> QED BY <2>13, <3>2, <3>3 DEF RunDispatch
  <2>14. ASSUME NEW task \in ToSet(ready), RunPush(task) PROVE Deliveries'
    BY <2>14, TaskDone DEF RunPush, Starts, webhooks, time
  <2>15. ASSUME NEW d \in sending, NEW success \in BOOLEAN, Answered(d, success)
         PROVE  Deliveries'
    <3> DEFINE row == [hook |-> d.hook, n |-> d.n, event |-> d.event, at |-> d.at,
                       stamp |-> d.stamp, attempt |-> d.attempt, success |-> success]
    <3>1. /\ row.hook = d.hook /\ row.n = d.n /\ row.event = d.event
          /\ row.at = d.at /\ row.stamp = d.stamp
      OBVIOUS
    <3>2. /\ Again(d).hook = d.hook /\ Again(d).n = d.n /\ Again(d).event = d.event
          /\ Again(d).at = d.at /\ Again(d).stamp = d.stamp
      BY DEF Again
    <3>3. log' \subseteq log \cup {row} /\ sending' \subseteq sending \cup {Again(d)}
          /\ UNCHANGED <<ready, news, clock>>
      BY <2>15 DEF Answered, time
    <3> HIDE DEF row
    <3>4. \A s \in Sent' : \E r \in Sent : /\ s.n = r.n /\ s.event = r.event /\ s.at = r.at
                                           /\ s.hook = r.hook /\ s.stamp = r.stamp
      BY <3>1, <3>2, <3>3 DEF Sent
    <3>5. clock' >= clock
      BY <3>3 DEF Counters
    <3> QED BY <3>3, <3>4, <3>5, NothingStarts
  <2>16. ASSUME Tick PROVE Deliveries'
    <3>1. UNCHANGED <<ready, news>> /\ Sent' = Sent /\ clock' >= clock
      BY <2>16 DEF Tick, webhooks, Sent, Counters
    <3> QED BY <3>1, NothingStarts
  <2>17. ASSUME Restart PROVE Deliveries'
    <3>1. ready' = << >> /\ Sent' \subseteq Sent /\ UNCHANGED <<clock, news>>
      BY <2>17 DEF Restart, Sent
    <3>2. ready' \in Seq(Tasks) /\ Len(ready') = 0
      BY <3>1
    <3>3. Stamped(Sent', clock', news')
      BY <3>1 DEF Deliveries, Stamped
    <3> QED BY <3>2, <3>3 DEF Deliveries, Queued
  <2> QED BY <2>2, <2>3, <2>4, <2>5, <2>6, <2>7, <2>8, <2>9, <2>10, <2>11, <2>12, <2>13,
             <2>14, <2>15, <2>16, <2>17, Delivered DEF Next
<1> QED BY <1>1, <1>2, CountersHold, PTL DEF Spec

(* Whatever order deliveries arrive in, an event that came first bears no  *)
(* later timestamp, and the attempts of one delivery bear the same one     *)
(* (WebhookService._dispatch and _deliver): the tasks start first in,      *)
(* first out, and a delivery is stamped once, when it starts.              *)
THEOREM OrderToldByTimestamps == Spec => []TimestampsTellOrder
<1>1. Deliveries => TimestampsTellOrder
  BY DEF Deliveries, Stamped, Sent, SameDelivery, SameNews, TimestampsTellOrder
<1> QED BY <1>1, DeliveriesHold, PTL

----------------------------------------------------------------------------
(* The throttle *)

(* The table has the last time progress was passed on, or, if the entry    *)
(* was pruned, that time lies an interval back.                            *)
SpacingAt(p) ==
  LET s == passed[p]
      last == s[Len(s)]
  IN /\ throttle[p] = None => s = << >> \/ (last <= clock /\ clock - last >= Interval)
     /\ throttle[p] # None => s # << >> /\ throttle[p] = last /\ last <= clock
     /\ \A i \in 2..Len(s) : s[i] - s[i - 1] >= Interval

Spacing ==
  /\ throttle \in [Stations -> Nat \cup {None}]
  /\ passed \in [Stations -> Seq(Nat)]
  /\ \A p \in Stations : SpacingAt(p)

LEMMA SpacingStays ==
  ASSUME Counters, Counters', Spacing, UNCHANGED <<throttle, passed>>, clock' >= clock
  PROVE  Spacing'
<1> SUFFICES ASSUME NEW p \in Stations PROVE SpacingAt(p)'
  BY DEF Spacing
<1>1. SpacingAt(p) /\ passed[p] \in Seq(Nat)
  BY DEF Spacing
<1>2. passed[p] # << >> => passed[p][Len(passed[p])] \in Nat
  BY <1>1
<1> QED BY <1>1, <1>2, Constants DEF SpacingAt, Counters

LEMMA PassedOn ==
  ASSUME Counters, Spacing, NEW p \in Stations,
         throttle[p] = None \/ clock - throttle[p] >= Interval,
         throttle' = Pruned([throttle EXCEPT ![p] = clock]),
         passed' = [passed EXCEPT ![p] = Append(@, clock)], UNCHANGED clock
  PROVE  Spacing'
<1> DEFINE table == [throttle EXCEPT ![p] = clock]
<1>1. table \in [Stations -> Nat \cup {None}] /\ table[p] = clock
      /\ \A q \in Stations \ {p} : table[q] = throttle[q]
  BY DEF Spacing, Counters
<1>2. throttle' = Pruned(table)
  OBVIOUS
<1> HIDE DEF table
<1>3. /\ throttle' \in [Stations -> Nat \cup {None}]
      /\ \A q \in Stations :
           \/ throttle'[q] = table[q]
           \/ throttle'[q] = None /\ table[q] # None /\ ~(table[q] > clock - 3 * Interval)
  BY <1>1, <1>2 DEF Pruned
<1>4. passed' \in [Stations -> Seq(Nat)] /\ passed'[p] = Append(passed[p], clock)
      /\ passed[p] \in Seq(Nat)
      /\ \A q \in Stations \ {p} : passed'[q] = passed[q] /\ passed[q] \in Seq(Nat)
  BY DEF Spacing, Counters
<1>5. SpacingAt(p)'
  <2> DEFINE s == passed[p]
             t == passed'[p]
  <2>1. /\ Len(s) \in Nat /\ Len(t) = Len(s) + 1 /\ t[Len(t)] = clock /\ t # << >>
        /\ \A i \in 1..Len(s) : t[i] = s[i] /\ s[i] \in Nat
    BY <1>4 DEF Counters
  <2>2. throttle'[p] = clock
    <3>1. \A x \in Nat, y \in Nat : y > 0 => x > x - 3 * y
      OBVIOUS
    <3>2. clock > clock - 3 * Interval
      BY <3>1, Constants DEF Counters
    <3> QED BY <1>1, <1>3, <3>2
  <2>3. s # << >> => clock - s[Len(s)] >= Interval
    BY Constants DEF Spacing, SpacingAt
  <2>4. \A i \in 2..Len(t) : t[i] - t[i - 1] >= Interval
    <3> SUFFICES ASSUME NEW i \in 2..Len(t) PROVE t[i] - t[i - 1] >= Interval
      OBVIOUS
    <3>1. CASE i = Len(t)
      <4>1. t[i] = clock /\ t[i - 1] = s[Len(s)] /\ s # << >>
        BY <2>1, <3>1
      <4> QED BY <2>3, <4>1
    <3>2. CASE i # Len(t)
      <4>1. i \in 2..Len(s) /\ t[i] = s[i] /\ t[i - 1] = s[i - 1]
        BY <2>1, <3>2
      <4> QED BY <4>1 DEF Spacing, SpacingAt
    <3> QED BY <3>1, <3>2
  <2> QED BY <2>1, <2>2, <2>4, Constants DEF SpacingAt, Counters
<1>6. ASSUME NEW q \in Stations \ {p} PROVE SpacingAt(q)'
  <2>1. SpacingAt(q) /\ table[q] = throttle[q] /\ passed'[q] = passed[q]
        /\ throttle[q] \in Nat \cup {None}
    BY <1>1, <1>4 DEF Spacing
  <2>2. passed[q] # << >> => passed[q][Len(passed[q])] \in Nat
    BY <1>4
  <2>3. \/ throttle'[q] = throttle[q]
        \/ throttle'[q] = None /\ throttle[q] # None /\ ~(throttle[q] > clock - 3 * Interval)
    BY <1>3, <2>1
  <2> QED BY <2>1, <2>2, <2>3, Constants DEF SpacingAt, Counters
<1> QED BY <1>3, <1>4, <1>5, <1>6 DEF Spacing

LEMMA SpacingHolds == Spec => []Spacing
<1>1. Init => Spacing
  <2> SUFFICES ASSUME Init PROVE Spacing
    OBVIOUS
  <2>1. /\ throttle \in [Stations -> Nat \cup {None}]
        /\ passed \in [Stations -> Seq(Nat)]
        /\ \A p \in Stations : throttle[p] = None /\ passed[p] = << >>
    BY DEF Init
  <2> QED BY <2>1 DEF Spacing, SpacingAt
<1>2. Counters /\ Counters' /\ Deliveries /\ Spacing /\ [Next]_vars => Spacing'
  <2> SUFFICES ASSUME Counters, Counters', Deliveries, Spacing, [Next]_vars PROVE Spacing'
    OBVIOUS
  <2>1. UNCHANGED <<webhooks, clock>> => Spacing'
    BY SpacingStays DEF webhooks, Counters
  <2>2. CASE UNCHANGED vars
    BY <2>1, <2>2 DEF vars, time
  <2>3. ASSUME NEW d \in Devices, NEW type \in {"client", "owner"},
               Subscribe(d, type) \/ Unsubscribe(d)
        PROVE  Spacing'
    BY <2>1, <2>3 DEF Subscribe, Unsubscribe, time
  <2>4. ASSUME NEW u, TestPush(u) \/ ApiStart(u) \/ PaymentConfirmed(u)
                      \/ (\E low \in BOOLEAN : ApiStop(u, low))
        PROVE  Spacing'
    BY <2>1, <2>4 DEF TestPush, ApiStart, PaymentConfirmed, ApiStop, time
  <2>5. ASSUME NEW p \in Stations, NEW bad \in BOOLEAN, NEW u,
               \/ StatusNotification(p, bad, u) \/ MeterValues(p, bad, u)
               \/ StartTransaction(p) \/ StopTransaction(p) \/ Heartbeat(p)
               \/ FallsSilent(p) \/ DeleteStation(p)
        PROVE  Spacing'
    BY <2>1, <2>5 DEF StatusNotification, MeterValues, StartTransaction,
      StopTransaction, Heartbeat, FallsSilent, DeleteStation, time
  <2>6. Sweep => Spacing'
    BY <2>1 DEF Sweep, time
  <2>7. ASSUME NEW h \in Hooks, NEW active, NEW events,
               CreateWebhook(h, events) \/ UpdateWebhook(h, active, events)
                 \/ DeleteWebhook(h)
        PROVE  Spacing'
    BY <2>7, SpacingStays DEF CreateWebhook, UpdateWebhook, DeleteWebhook, time, Counters
  <2>8. ASSUME NEW task \in ToSet(ready), RunDispatch(task) PROVE Spacing'
    <3>1. CASE UNCHANGED <<throttle, passed>>
      BY <2>8, <3>1, SpacingStays DEF RunDispatch, time, Counters
    <3>2. CASE task.event = "charging.progress" /\ ~Throttled(task)
      <4>1. task.at \in Stations
        BY <2>8, HeadFacts, TaskFacts DEF RunDispatch
      <4>2. throttle[task.at] = None \/ clock - throttle[task.at] >= Interval
        BY <3>2, <4>1, Constants DEF Throttled, Spacing, Counters
      <4>3. /\ throttle' = Pruned([throttle EXCEPT ![task.at] = clock])
            /\ passed' = [passed EXCEPT ![task.at] = Append(@, clock)]
            /\ UNCHANGED clock
        BY <2>8, <3>2 DEF RunDispatch, time
      <4> QED BY <4>1, <4>2, <4>3, PassedOn
    <3> QED BY <2>8, <3>1, <3>2 DEF RunDispatch
  <2>9. ASSUME NEW task, RunDeliver(task) \/ RunPush(task) PROVE Spacing'
    BY <2>9, SpacingStays DEF RunDeliver, RunPush, webhooks, time, Counters
  <2>10. ASSUME NEW d, NEW success, Answered(d, success) PROVE Spacing'
    BY <2>10, SpacingStays DEF Answered, time, Counters
  <2>11. Tick => Spacing'
    BY SpacingStays DEF Tick, webhooks, Counters
  <2>12. ASSUME Restart PROVE Spacing'
    <3>1. /\ throttle' = [p \in Stations |-> None] /\ passed' = [p \in Stations |-> << >>]
      BY <2>12 DEF Restart
    <3>2. /\ throttle' \in [Stations -> Nat \cup {None}]
          /\ passed' \in [Stations -> Seq(Nat)]
          /\ \A p \in Stations : throttle'[p] = None /\ passed'[p] = << >>
      BY <3>1
    <3> QED BY <3>2 DEF Spacing, SpacingAt
  <2> QED BY <2>2, <2>3, <2>4, <2>5, <2>6, <2>7, <2>8, <2>9, <2>10, <2>11, <2>12 DEF Next
<1> QED BY <1>1, <1>2, CountersHold, DeliveriesHold, PTL DEF Spec

(* While the process runs, a station's progress is passed on at most once  *)
(* in the interval, pruned table or not (WebhookService._dispatch).        *)
THEOREM ProgressSpaced == Spec => []ProgressIsSpaced
<1>1. Spacing => ProgressIsSpaced
  BY DEF Spacing, SpacingAt, ProgressIsSpaced
<1> QED BY <1>1, SpacingHolds, PTL
----------------------------------------------------------------------------
(* Warnings of a low balance *)

(* A device that was warned has been used since. *)
WarningAt(d) ==
  LET s == warned[d]
      sub == pushes[d]
  IN /\ s # << >> => sub # None /\ sub.used # None /\ s[Len(s)] <= sub.used
     /\ \A i \in 2..Len(s) : s[i] - s[i - 1] >= Day

Subscriptions == [type: {"client", "owner"}, used: Nat \cup {None}]

SubsOK(subs) ==
  /\ subs \in [Devices -> Subscriptions \cup {None}]
  /\ \A d \in Devices : subs[d] # None /\ subs[d].used # None => subs[d].used <= clock

Warnings ==
  /\ SubsOK(pushes)
  /\ warned \in [Devices -> Seq(Nat)]
  /\ \A d \in Devices : WarningAt(d)

(* Used marks those that are reached, and changes no other. *)
LEMMA UsedFacts ==
  ASSUME Counters, NEW subs, SubsOK(subs),
         NEW reached \in SUBSET {d \in Devices : subs[d] # None}
  PROVE  /\ SubsOK(Used(subs, reached))
         /\ \A d \in reached : /\ Used(subs, reached)[d] # None
                               /\ Used(subs, reached)[d].used = clock
         /\ \A d \in Devices \ reached : Used(subs, reached)[d] = subs[d]
         /\ \A d \in Devices : /\ subs[d] # None => Used(subs, reached)[d] # None
                               /\ subs[d] # None => Used(subs, reached)[d].type = subs[d].type
<1> DEFINE new == Used(subs, reached)
<1>1. \A d \in Devices : new[d] = IF d \in reached THEN [subs[d] EXCEPT !.used = clock]
                                 ELSE subs[d]
  BY DEF Used
<1>2. ASSUME NEW d \in reached
      PROVE  /\ new[d] \in Subscriptions /\ new[d].used = clock /\ new[d] # None
             /\ new[d].type = subs[d].type
  <2>1. d \in Devices /\ subs[d] \in Subscriptions
    BY DEF SubsOK
  <2>2. new[d] = [subs[d] EXCEPT !.used = clock]
    BY <1>1, <2>1
  <2>3. new[d] \in Subscriptions /\ new[d].used = clock /\ new[d].type = subs[d].type
    BY <2>1, <2>2 DEF Subscriptions, Counters
  <2> QED BY <2>3, Constants DEF Subscriptions
<1>3. \A d \in Devices \ reached : new[d] = subs[d]
  BY <1>1
<1>4. new = [d \in Devices |-> new[d]]
  BY DEF Used
<1> HIDE DEF new
<1>5. \A d \in Devices : new[d] \in Subscriptions \cup {None}
  BY <1>2, <1>3 DEF SubsOK
<1>6. \A d \in Devices : new[d] # None /\ new[d].used # None => new[d].used <= clock
  BY <1>2, <1>3 DEF SubsOK, Counters
<1>7. SubsOK(new)
  BY <1>4, <1>5, <1>6 DEF SubsOK
<1>8. \A d \in Devices : subs[d] # None => new[d] # None /\ new[d].type = subs[d].type
  BY <1>2, <1>3
<1> QED BY <1>2, <1>3, <1>7, <1>8 DEF new

(* Of naturals up to n there is a greatest one: the furthest below n is    *)
(* the least of the distances.                                             *)
LEMMA GreatestExists ==
  ASSUME NEW n \in Nat, NEW T, T \subseteq 0..n, T # {}
  PROVE  \E x \in T : \A y \in T : y <= x
<1> DEFINE S == {n - t : t \in T}
<1>1. S \subseteq Nat /\ S # {}
  <2>1. \A t \in T : t \in Nat /\ t <= n /\ n - t \in Nat
    OBVIOUS
  <2>2. PICK t \in T : TRUE
    OBVIOUS
  <2> QED BY <2>1, <2>2
<1>2. PICK x \in S : \A y \in S : ~ (<<y, x>> \in OpToRel(<, Nat))
  BY <1>1, NatLessThanWellFounded, WFMin
<1>3. PICK m \in T : x = n - m
  BY <1>2
<1>4. \A u \in T : u <= m
  <2> TAKE u \in T
  <2>1. n - u \in S /\ n - u \in Nat /\ n - m \in Nat /\ m \in Nat /\ u \in Nat
    BY <1>1
  <2>2. ~ (n - u < n - m)
    BY <1>2, <1>3, <2>1 DEF OpToRel
  <2> QED BY <2>1, <2>2
<1> QED BY <1>4

(* The client's other devices cannot hide a use of this one. *)
LEMMA LatestUseFacts ==
  ASSUME Counters, NEW subs, SubsOK(subs), NEW u, NEW d \in Targets(u, "client"),
         subs[d] # None, subs[d].used # None,
         \A e \in Targets(u, "client") : subs[e] # None
  PROVE  /\ LatestUse(subs, u) \in Nat /\ LatestUse(subs, u) >= subs[d].used
<1> DEFINE used == {subs[e].used : e \in Targets(u, "client")} \ {None}
<1>1. Targets(u, "client") \subseteq Devices
  BY DEF Targets
<1>2. \A e \in Targets(u, "client") :
        /\ subs[e].used \in Nat \cup {None}
        /\ subs[e].used # None => subs[e].used \in 0..clock
  <2> TAKE e \in Targets(u, "client")
  <2>1. subs[e] \in Subscriptions
    BY <1>1 DEF SubsOK
  <2>2. subs[e].used \in Nat \cup {None}
    BY <2>1 DEF Subscriptions
  <2> QED BY <1>1, <2>2 DEF SubsOK, Counters
<1>3. used \subseteq 0..clock /\ subs[d].used \in used
  BY <1>2
<1>4. PICK g \in used : \A s \in used : s <= g
  BY <1>3, GreatestExists DEF Counters
<1>5. LatestUse(subs, u) = CHOOSE t \in used : \A s \in used : s <= t
  BY <1>3 DEF LatestUse
<1>6. LatestUse(subs, u) \in used /\ \A s \in used : s <= LatestUse(subs, u)
  BY <1>4, <1>5
<1> HIDE DEF used
<1>7. LatestUse(subs, u) \in 0..clock /\ subs[d].used \in 0..clock
      /\ subs[d].used <= LatestUse(subs, u)
  BY <1>3, <1>6
<1> QED BY <1>7 DEF Counters

(* Devices are used, and nobody is warned. *)
LEMMA OnlyUsed ==
  ASSUME Counters, Warnings, NEW reached \in SUBSET {d \in Devices : pushes[d] # None},
         pushes' = Used(pushes, reached), UNCHANGED <<warned, clock>>
  PROVE  Warnings'
<1>1. SubsOK(pushes)' /\ warned' = warned
  BY UsedFacts DEF Warnings, SubsOK
<1>2. ASSUME NEW d \in Devices PROVE WarningAt(d)'
  <2>1. WarningAt(d) /\ warned[d] \in Seq(Nat)
    BY DEF Warnings
  <2>2. CASE d \in reached
    <3>1. pushes'[d] # None /\ pushes'[d].used = clock
      BY <2>2, UsedFacts DEF Warnings
    <3>2. pushes[d] # None /\ pushes[d].used # None => pushes[d].used <= clock
      BY DEF Warnings, SubsOK
    <3>3. warned[d] # << >> => warned[d][Len(warned[d])] \in Nat
      BY <2>1
    <3>4. pushes[d].used \in Nat \cup {None}
      BY <2>2 DEF Warnings, SubsOK, Subscriptions
    <3>5. warned[d] # << >> => warned[d][Len(warned[d])] <= clock
      BY <2>1, <3>2, <3>3, <3>4 DEF WarningAt, Counters
    <3> QED BY <1>1, <2>1, <3>1, <3>5, Constants DEF WarningAt, Counters
  <2>3. CASE d \notin reached
    <3>1. pushes'[d] = pushes[d]
      BY <2>3, UsedFacts DEF Warnings
    <3> QED BY <1>1, <2>1, <3>1 DEF WarningAt
  <2> QED BY <2>2, <2>3
<1> QED BY <1>1, <1>2 DEF Warnings

(* A client is warned, after the notice that the session is over.          *)
LEMMA Warned ==
  ASSUME Counters, Warnings, NEW u, NEW subs, SubsOK(subs),
         \A d \in Devices : /\ pushes[d] # None => subs[d] # None
                            /\ subs[d] # pushes[d] => pushes[d] # None /\ subs[d].used = clock,
         NEW reached \in SUBSET Targets(u, "client"), WarningDue(subs, u),
         pushes' = Used(subs, reached), UNCHANGED clock,
         warned' = [d \in Devices |-> IF d \in reached THEN Append(warned[d], clock)
                                                       ELSE warned[d]]
  PROVE  Warnings'
<1>1. Targets(u, "client") \subseteq {d \in Devices : subs[d] # None}
  BY DEF Targets
<1>2. /\ SubsOK(pushes')
      /\ \A d \in reached : pushes'[d] # None /\ pushes'[d].used = clock
      /\ \A d \in Devices \ reached : pushes'[d] = subs[d]
  BY <1>1, UsedFacts
<1>3. SubsOK(pushes)'
  BY <1>2 DEF SubsOK
<1>4. warned' \in [Devices -> Seq(Nat)]
  BY DEF Warnings, Counters
<1>5. ASSUME NEW d \in Devices
      PROVE  /\ warned[d] \in Seq(Nat)
             /\ warned[d] # << >> => /\ subs[d] # None /\ subs[d].used \in Nat
                                     /\ warned[d][Len(warned[d])] \in Nat
                                     /\ warned[d][Len(warned[d])] <= subs[d].used
                                     /\ subs[d].used <= clock
  <2>1. WarningAt(d) /\ warned[d] \in Seq(Nat)
    BY DEF Warnings
  <2>2. warned[d] # << >> => warned[d][Len(warned[d])] \in Nat
    BY <2>1
  <2>3. pushes[d] # None => pushes[d].used \in Nat \cup {None}
    BY DEF Warnings, SubsOK, Subscriptions
  <2>4. pushes[d] # None /\ pushes[d].used # None => pushes[d].used <= clock
    BY DEF Warnings, SubsOK
  <2> QED BY <2>1, <2>2, <2>3, <2>4, Constants DEF WarningAt, Counters
<1>6. ASSUME NEW d \in Devices PROVE WarningAt(d)'
  <2> DEFINE s == warned[d]
             t == warned'[d]
  <2>1. WarningAt(d)
    BY DEF Warnings
  <2>2. CASE d \in reached
    <3>1. /\ t = Append(s, clock) /\ s \in Seq(Nat)
      BY <1>5, <2>2
    <3> HIDE DEF t
    <3>2. /\ Len(s) \in Nat /\ Len(t) = Len(s) + 1 /\ t[Len(t)] = clock /\ t # << >>
          /\ \A i \in 1..Len(s) : t[i] = s[i] /\ s[i] \in Nat
      BY <3>1 DEF Counters
    <3>3. s # << >> => clock - s[Len(s)] >= Day
      <4> SUFFICES ASSUME s # << >> PROVE clock - s[Len(s)] >= Day
        OBVIOUS
      <4>1. /\ subs[d] # None /\ subs[d].used \in Nat /\ subs[d].used # None
            /\ s[Len(s)] \in Nat /\ s[Len(s)] <= subs[d].used
        BY <1>5, Constants
      <4>2. /\ LatestUse(subs, u) \in Nat /\ LatestUse(subs, u) >= subs[d].used
        BY <1>1, <2>2, <4>1, LatestUseFacts
      <4>3. clock - LatestUse(subs, u) >= Day
        BY <4>2, Constants DEF WarningDue
      <4> QED BY <4>1, <4>2, <4>3, Constants DEF Counters
    <3>4. \A i \in 2..Len(t) : t[i] - t[i - 1] >= Day
      <4> SUFFICES ASSUME NEW i \in 2..Len(t) PROVE t[i] - t[i - 1] >= Day
        OBVIOUS
      <4>1. CASE i = Len(t)
        <5>1. i - 1 = Len(s) /\ Len(s) \in 1..Len(s)
          BY <3>2, <4>1
        <5>2. t[i] = clock /\ t[i - 1] = s[Len(s)]
          BY <3>2, <4>1, <5>1
        <5>3. s # << >>
          BY <3>2, <5>1
        <5>4. clock - s[Len(s)] >= Day
          BY <3>3, <5>3
        <5> QED BY <5>2, <5>4
      <4>2. CASE i # Len(t)
        <5>1. i \in 2..Len(s) /\ i \in 1..Len(s) /\ i - 1 \in 1..Len(s)
          BY <3>2, <4>2
        <5>2. t[i] = s[i]
          BY <3>2, <5>1
        <5>3. t[i - 1] = s[i - 1]
          BY <3>2, <5>1
        <5>4. s[i] - s[i - 1] >= Day
          BY <2>1, <5>1 DEF WarningAt
        <5> QED BY <5>2, <5>3, <5>4
      <4> QED BY <4>1, <4>2
    <3> QED BY <1>2, <2>2, <3>2, <3>4, Constants DEF WarningAt, Counters, t
  <2>3. CASE d \notin reached
    <3>1. warned'[d] = warned[d] /\ pushes'[d] = subs[d]
      BY <1>2, <2>3
    <3> QED BY <1>5, <2>1, <3>1, Constants DEF WarningAt
  <2> QED BY <2>2, <2>3
<1> QED BY <1>3, <1>4, <1>6 DEF Warnings

LEMMA WarningsStay ==
  ASSUME Counters, Warnings, UNCHANGED push, clock' \in Nat, clock' >= clock
  PROVE  Warnings'
<1>1. \A d \in Devices : pushes[d] # None => pushes[d].used \in Nat \cup {None}
  BY DEF Warnings, SubsOK, Subscriptions
<1>2. SubsOK(pushes)'
  BY <1>1 DEF Warnings, SubsOK, push, Counters
<1> QED BY <1>2 DEF Warnings, WarningAt, push

LEMMA WarningsHold == Spec => []Warnings
<1>1. Init => Warnings
  <2> SUFFICES ASSUME Init PROVE Warnings
    OBVIOUS
  <2>1. /\ pushes \in [Devices -> Subscriptions \cup {None}]
        /\ warned \in [Devices -> Seq(Nat)]
        /\ \A d \in Devices : pushes[d] = None /\ warned[d] = << >>
    BY DEF Init
  <2> QED BY <2>1 DEF Warnings, SubsOK, WarningAt
<1>2. Counters /\ Counters' /\ Warnings /\ [Next]_vars => Warnings'
  <2> SUFFICES ASSUME Counters, Counters', Warnings, [Next]_vars PROVE Warnings'
    OBVIOUS
  <2>1. UNCHANGED <<push, clock>> => Warnings'
    BY WarningsStay DEF Counters
  <2>2. CASE UNCHANGED vars
    BY <2>1, <2>2 DEF vars, time
  <2>3. ASSUME NEW d \in Devices, NEW type \in {"client", "owner"}, Subscribe(d, type)
        PROVE  Warnings'
    <3> DEFINE x == IF pushes[d] = None THEN [type |-> type, used |-> None]
                    ELSE [pushes[d] EXCEPT !.type = type]
    <3>1. pushes[d] = None \/ pushes[d] \in Subscriptions
      BY DEF Warnings, SubsOK
    <3>2. x \in Subscriptions /\ x.used = IF pushes[d] = None THEN None ELSE pushes[d].used
      BY <3>1 DEF Subscriptions
    <3>3. pushes' = [pushes EXCEPT ![d] = x] /\ UNCHANGED <<warned, clock>>
      BY <2>3, Zenon DEF Subscribe, time
    <3>4. x # None
      BY <3>2, Constants DEF Subscriptions
    <3> HIDE DEF x
    <3>5. /\ pushes' \in [Devices -> Subscriptions \cup {None}] /\ pushes'[d] = x
          /\ \A e \in Devices \ {d} : pushes'[e] = pushes[e]
      BY <3>2, <3>3 DEF Warnings, SubsOK
    <3>6. SubsOK(pushes)'
      BY <3>2, <3>3, <3>5 DEF Warnings, SubsOK
    <3>7. \A e \in Devices : WarningAt(e)'
      BY <3>2, <3>3, <3>4, <3>5 DEF Warnings, WarningAt
    <3> QED BY <3>3, <3>6, <3>7 DEF Warnings
  <2>4. ASSUME NEW d \in Devices, Unsubscribe(d) PROVE Warnings'
    <3>1. /\ pushes' = [pushes EXCEPT ![d] = None] /\ warned' = [warned EXCEPT ![d] = << >>]
          /\ clock' = clock
      BY <2>4 DEF Unsubscribe, time
    <3>2. /\ pushes' \in [Devices -> Subscriptions \cup {None}]
          /\ warned' \in [Devices -> Seq(Nat)]
          /\ pushes'[d] = None /\ warned'[d] = << >>
          /\ \A e \in Devices \ {d} : pushes'[e] = pushes[e] /\ warned'[e] = warned[e]
      BY <3>1 DEF Warnings, SubsOK
    <3> QED BY <3>1, <3>2 DEF Warnings, SubsOK, WarningAt
  <2>5. ASSUME NEW u, TestPush(u) \/ ApiStart(u) PROVE Warnings'
    <3>1. PICK reached \in SUBSET {d \in Devices : pushes[d] # None} :
            pushes' = Used(pushes, reached)
      BY <2>5 DEF TestPush, ApiStart, Targets
    <3> QED BY <2>5, <3>1, OnlyUsed DEF TestPush, ApiStart, time
  <2>6. ASSUME NEW u, NEW low \in BOOLEAN, ApiStop(u, low) PROVE Warnings'
    <3>1. clock' = clock
      BY <2>6 DEF ApiStop, time
    <3>2. PICK told \in SUBSET (Targets(u, "client") \cup Targets(Owner, "owner")) :
            \/ /\ WarningDue(Used(pushes, told), u)
               /\ \E reached \in SUBSET Targets(u, "client") :
                    /\ pushes' = Used(Used(pushes, told), reached)
                    /\ warned' = [d \in Devices |-> IF d \in reached THEN Append(warned[d], clock)
                                                                     ELSE warned[d]]
            \/ pushes' = Used(pushes, told) /\ UNCHANGED warned
      BY <2>6, Zenon DEF ApiStop
    <3>3. told \in SUBSET {d \in Devices : pushes[d] # None}
      BY DEF Targets
    <3>4. CASE pushes' = Used(pushes, told) /\ UNCHANGED warned
      BY <3>1, <3>3, <3>4, OnlyUsed
    <3>5. ASSUME NEW reached \in SUBSET Targets(u, "client"), WarningDue(Used(pushes, told), u),
                 pushes' = Used(Used(pushes, told), reached),
                 warned' = [d \in Devices |-> IF d \in reached THEN Append(warned[d], clock)
                                                               ELSE warned[d]]
          PROVE  Warnings'
      <4> DEFINE subs == Used(pushes, told)
      <4>1. /\ SubsOK(subs)
            /\ \A d \in Devices : pushes[d] # None => subs[d] # None
            /\ \A d \in told : subs[d].used = clock /\ pushes[d] # None
            /\ \A d \in Devices \ told : subs[d] = pushes[d]
        BY <3>3, UsedFacts DEF Warnings
      <4>2. \A d \in Devices : subs[d] # pushes[d] => pushes[d] # None /\ subs[d].used = clock
        BY <4>1
      <4>3. WarningDue(subs, u) /\ pushes' = Used(subs, reached)
        BY <3>5
      <4> HIDE DEF subs
      <4> QED BY <3>1, <3>5, <4>1, <4>2, <4>3, Warned
    <3> QED BY <3>2, <3>4, <3>5
  <2>7. ASSUME NEW u, NEW p, NEW bad,
               PaymentConfirmed(u) \/ StatusNotification(p, bad, u) \/ MeterValues(p, bad, u)
        PROVE  Warnings'
    BY <2>1, <2>7 DEF PaymentConfirmed, StatusNotification, MeterValues, time
  <2>8. ASSUME NEW p,
               \/ StartTransaction(p) \/ StopTransaction(p) \/ Heartbeat(p)
               \/ FallsSilent(p) \/ DeleteStation(p) \/ Sweep
        PROVE  Warnings'
    BY <2>1, <2>8 DEF StartTransaction, StopTransaction, Heartbeat, FallsSilent,
      DeleteStation, Sweep, time
  <2>9. ASSUME NEW h \in Hooks, NEW active, NEW events,
                CreateWebhook(h, events) \/ UpdateWebhook(h, active, events)
                  \/ DeleteWebhook(h)
         PROVE  Warnings'
    BY <2>1, <2>9 DEF CreateWebhook, UpdateWebhook, DeleteWebhook, time
  <2>10. ASSUME NEW task, RunDispatch(task) \/ RunDeliver(task) PROVE Warnings'
    BY <2>1, <2>10 DEF RunDispatch, RunDeliver, time
  <2>11. ASSUME NEW task, RunPush(task) PROVE Warnings'
    <3>1. PICK reached \in SUBSET {d \in Devices : pushes[d] # None} :
            pushes' = Used(pushes, reached)
      BY <2>11 DEF RunPush, Targets
    <3> QED BY <2>11, <3>1, OnlyUsed DEF RunPush, time
  <2>12. ASSUME NEW d, NEW success, Answered(d, success) PROVE Warnings'
    BY <2>1, <2>12 DEF Answered, time
  <2>13. Tick \/ Restart => Warnings'
    BY WarningsStay DEF Tick, Restart, Counters
  <2> QED BY <2>2, <2>3, <2>4, <2>5, <2>6, <2>7, <2>8, <2>9, <2>10, <2>11, <2>12, <2>13
             DEF Next
<1> QED BY <1>1, <1>2, CountersHold, PTL DEF Spec

(* No device is warned twice a day, whichever of the client's devices were *)
(* reached, used, added or removed in between                              *)
(* (check_and_send_low_balance_warning).                                   *)
THEOREM OneWarningADay == Spec => []WarnedOnceADay
<1>1. Warnings => WarnedOnceADay
  BY DEF Warnings, WarningAt, WarnedOnceADay
<1> QED BY <1>1, WarningsHold, PTL
=============================================================================
