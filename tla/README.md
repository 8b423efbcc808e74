# A formal model of the O!Charge backend

TLA+ modules for the backend of an electric-vehicle charging network
(`src/backend`): what its payments, charging sessions, bookings and station
connections do, what they promise, what TLC checks of it on small instances and
what TLAPS proves of it for every instance.

    tlc -workers 2 -config MCCharging_mixed.cfg MCCharging      one run
    tlapm ChargingProofs.tla                                    one module's proofs

`PROJECT.json` lists the runs with their properties, the mutants that show each
property can fail, the source lines each definition stands for, the hazards the
properties are aimed at, and the theorems.

## 1. The system

### How it executes

One `uvicorn` process with one worker runs a FastAPI application on one event
loop. Handlers are coroutines, but nearly all database calls are synchronous
SQLAlchemy: the code between two `await`s is not interleaved with anything, and
the synchronous OCPP handlers (`@on(...)` methods) are single steps. So the
interleavings that exist are those of

- coroutines at their `await`s: calls to payment providers, to Redis, to the
  station;
- commits in the middle of a handler, where a crash may fall;
- the outside: clients, providers, stations and their connections, all of which
  repeat, delay and lose messages;
- jobs of the process: station statuses (2 min), hanging sessions (30 min),
  booking expiry (1 min), guest sessions (5 min), payment cleanup (1 h),
  idempotency keys (daily).

State lives in PostgreSQL (READ COMMITTED, `statement_timeout` 30 s), in Redis
(keys with a TTL, publish/subscribe channels for commands) and in dictionaries of
the process (`active_sessions`, `_active_handlers`, `_active_pubsubs`, connection
counters), which a crash loses.

### Components

| Component | State | Operations | Talks to | Modelled |
|---|---|---|---|---|
| Balance top-ups (`crud/ocpp_service.py`, `payment/`, `balance/topup.py`, `namba_service.py`) | `balance_topups`, `clients.balance`, `payment_transactions_odengi`, polling tasks | create, webhook, poll, forced check, status, cancel, cleanup | payment providers | TopUp |
| Charging sessions (`charging/`) | `charging_sessions`, `clients.balance`, `connectors.status` | start, stop, stop hanging sessions | Redis commands to the OCPP handler; bookings | Charging (prices constant) |
| OCPP 1.6 handler (`ws_handler.py`) | `ocpp_transactions`, `active_sessions`, pending keys in Redis | boot, heartbeat, status, start, samples, stop; commands to the station | stations; sessions and balances directly | Charging, Booking, Stations |
| Connections of stations (`redis_manager.py`, endpoint in `main.py`) | online keys, subscriptions, handler and pubsub entries, counters | connect, register, listen, refresh, clean up, shut down | Redis, stations | Stations |
| Bookings (`booking_service.py`) | `bookings`, `connectors.status` | create, cancel, use, expire | session start, the expiry job | Booking |
| Station status manager | `stations.is_available` | the 2-minute job | heartbeats, subscribers | its effect in Booking, its job in Notices |
| OCPP 2.0.1 handler (`ws_handler_v201.py`) | as 1.6, keyed by a hash of the station's own transaction id; one entry per station | boot, status, authorize, TransactionEvent (Started, Updated, Ended) | as 1.6 | Transactions201 |
| Pricing (`pricing_service.py`, `ai_pricing_service.py`, `admin/tariffs.py`, `station/tariff.py`) | plans and rules, station prices, promo codes, competitors' prices, recommendations | the rate in force, reservation, settlement; CRUD; the survey and the advice | session start and stop | Tariffs |
| Idempotency middleware | `idempotency_keys` | look up, run, save, clean up | every POST of four paths | Access |
| Authentication, one-time codes (`auth/`, `otp_service.py`, `profile.py`) | `otp_codes`, `users`, `clients`, cookies | send, verify, change a number; SSO, refresh, logout | SMS, the browser | Access |
| Outgoing webhooks and pushes (`webhook_service.py`, `push_service.py`) | subscriptions, delivery log, throttle, tasks | dispatch, deliver, retry, warn | every OCPP handler; operators' servers, browsers | Notices |
| Corporate accounts (`corporate_service.py`) | groups, employees, their ledger | top up, authorise, reserve, refund | no endpoint calls the last three | Corporate |
| Location status (`location_status_service.py`) | cached answers in Redis | compute, store, drop | station messages, the apps | Places |
| Administration (`admin/`) | the tables of the parts above | stations, locations, connectors; staff; tariffs; webhooks; companies | | Places, Access, Tariffs, Notices, Corporate |
| Guest charging (`guest/`) | `guest_sessions` | start, stop, cancel unpaid | charging, payments | not modelled |
| Partner revenue, live sockets, history, receipts, simulator, logs, health | what they read, or one row | reports, broadcasts | | not modelled |

### What is hard about it, and what makes it correct

- **Top-ups.** Three paths credit the same invoice (the provider's webhook, the
  poll of the request that created it, a forced check), and one of them sleeps
  inside its transaction, awaiting the provider, with the row locked. Correct
  means: credited at most once, only with money the provider took, never
  reopened, the ledger a chain, and no invoice in `processing` for ever.
- **Charging.** The reservation of a session is settled by four paths (client's
  stop, station's StopTransaction, the hanging-session job, a reboot), each with
  its own code; what links a transaction to a session is a Redis key, an
  `id_tag`, or an in-memory entry per connector and per station. Correct means:
  each reservation is settled once, nobody goes below zero or is paid to charge,
  a command reaches the transaction it is for, and every session ends.
- **Bookings.** `connectors.status` is one column written by bookings, sessions,
  the expiry job and four station messages. Correct means: a reserved connector
  has its booking, a booking ends once, in one way, is used only by its client,
  and keeps the others off.
- **Connections.** All a connection registers it registers under its station's
  id, and a station that reconnects has two connections for a while. Correct
  means: a served connection hears its commands, closed ones leave nothing
  behind, slots come back, and a station that is gone goes offline.
- **OCPP 2.0.1.** The station names its transactions and repeats what is not
  answered; the handler commits twice per event, keeps one entry per station and
  numbers transactions by a hash that another process computes otherwise. Correct
  means: settled once, never dearer than shown, an answered Ended settles, and no
  connector stays occupied for nothing.
- **Pricing.** Overlapping rules with priorities, days and hours across midnight,
  on two clocks, in five computations of a rate. Correct means: the rate shown is
  the rate charged, a session keeps it whatever is edited meanwhile, and rules the
  overlap check lets pass compete at the edges of their hours at most.
- **Access.** Requests overlap: attempts at a code must all be counted, a key must
  stop a second run, what a browser keeps after a logout must have a reason, and the
  staff must not lock itself out.
- **Notices.** Deliveries fail, are repeated and overtake each other, a restart
  loses them. Correct means: a receiver can tell the order, a flood of progress is
  throttled, nobody is warned twice a day.
- **Places.** Numbers derived from a greatest one while stations come, move and go;
  answers cached by one coroutine while another drops them. Correct means: EVSE
  ids stay unique, and the map catches up.
- **Corporate.** Who pays is read again at the end of a session. Correct means:
  balances, counters and ledger agree all the same.

`PROJECT.json` lists these hazards one by one, at their lines.

## 2. The modules

| Module | What it is |
|---|---|
| `TopUp` | the rows of `balance_topups` and everything that changes them |
| `PrepaidAccount` | what top-ups promise: an invoice paid is credited whole, once |
| `Charging` | sessions, transactions, commands and money on one OCPP 1.6 station |
| `ReservedFunds` | what sessions promise about money: hold, then settle once |
| `Booking` | bookings and all the writers of `connectors.status` |
| `Stations` | the WebSocket connections of one station |
| `Transactions201` | sessions and transactions of one OCPP 2.0.1 station |
| `Tariffs` | plans, rules, prices, what a session pays, the advice on prices |
| `Access` | one-time codes, cookies, accounts of the staff, idempotency keys |
| `Notices` | webhooks and pushes, from the event to the last attempt |
| `Register` | the stations of the register and how they are numbered |
| `Places` | how the register is changed, and the cached map of it |
| `CompanyBooks` | the counters and the ledger of companies, and how they must agree |
| `Corporate` | the requests that change them: balances, limits, charges and refunds |
| `Sums` | the sum of a row of numbers: averages of `Tariffs`, sums over the ledger of `CompanyBooks` |
| `MC*` | instances: the constants TLC's `.cfg` files need |
| `*Proofs` | theorems and their proofs: about the module they are named for; `RegistryProofs` about `Stations` and `Places`, `MoneyProofs` about `Tariffs` and `Corporate` |

An action is one stretch of code between two awaits or commits, and is named for
the method or the message; operators whose name ends in `_Something` are mutants,
faulty forms of the definition they stand next to, used by no specification.

**TopUp.** A row is `status`, `paid_amount`, `needs_status_check` and
`status_check_count`; `expired` says that the clock passed `invoice_expires_at`.
The loop's state is explicit: background tasks of acknowledged webhooks, create
requests that await the provider, rounds the polling task has left, forced checks
queued, and the one `perform_status_check` that sleeps with what it had read.
That check holds the row's lock (`Unlocked`): whoever else needs the row blocks
the only thread, which the holder needs to go on, so the waiter fails with the
statement's timeout. The provider's side (`account`) is open, paid, void or
refunded; its answers may be late, may leave the amount out (`MissingAmounts`)
and may name it early (`EarlyAmounts`).

**Charging.** Rows of `charging_sessions` with `amount`, `energy`,
`payment_processed` and the linked transaction; `paid` is a history variable with
what the client gave for the session, net. `txs` joins the database's
transactions with what the station does with each. `pending`, `entry` and `last`
are the three memories that link messages to sessions. Start and stop commit
before they publish; `starting` and `sending` are requests between the two, and a
crash loses them. `SettleByStation` and `StopSession` are the two settlements.
A reading that MeterValues computes against another transaction's `meter_start`
may be any number (`Readings`).

Assumed: the station sends what concerns the transactions of one connector in
order; a reboot makes it forget the RemoteStarts it waits with; transactions
start after a RemoteStart; the limit that stops a session is the amount the
reservation was computed from. Publishing a RemoteStart and its handling are one
step, and the online check before it is part of whether it is delivered.

**Booking.** Everything that writes `connectors.status`, with money and
transactions reduced to who charges where. `Settled` marks what the station still
holds of a session that has been stopped. BookingService runs from its SELECT to
its commit without an await: each method is one step.

**Stations.** `phase` is where `handle_connection` of each connection is,
`listener` where its command task is; `handler`, `pubsub` and `online` are the
three things registered under the station's id, `subscribed` the channel's
subscribers in Redis. `_cleanup` is four steps, one per await. `disturbed` is a
history variable: connections that were open together with another of their
station, or whose Redis connection failed.

**Transactions201.** `device` and `meter` are the station, `rows` what the handler
has stored of its transactions, under `Numeric(t)`, a number that names the
transaction and the process (`run`) that hashed it. `entry` is the one element of
`active_sessions` the station has. `Started`, `Updated` and `Ended` are the three
kinds of TransactionEvent with every helper they call; the answer of a Started or
an Ended may be lost, and then the station sends it again. `CrashInStarted` and
`CrashInEnded` stop between the two commits. `OccupiedForAReason` names the two ways
a connector stays occupied for good: a restart, after which the Ended has another
number, and a Started on another EVSE that was given the client's session by the
lookup of `_handle_transaction_started` (user and station), for its Ended frees the
connector of its own row only. `StartSession` and `StopSession` are
the requests of the API, whose commands `RequestStart` and `SendStop` publish
after the commit. Meters count whole kWh and do not go back.

**Tariffs.** The operators that choose a rate (`Pricings` at the start,
`RateAtStop`, `RatesByClient` and `RateAtEnded` at the three ends, `ShownRates` and
`StatusRate` for what is shown) are each translated from the computation of their
own that the code has; sets of results stand for what an ORDER BY leaves open.
The state is the plans, the rules, the stations' prices, one session, the
competitors and the recommendations; time moves between the points of a week. The
parts of the advice that only report change nothing and are left out.

Prices, discounts, promo codes and the balance are any integers: the API takes any number
(`TariffRuleCreate`, `CompetitorPriceCreate`), and nothing checks a price that is less
than nothing. So the operators ask what their code asks, in some places whether a price
is there and not nought (`Priced`), in others whether it is positive (`Own`, `Positive`).
A connector's kind is a nullable column: for one
without a kind rules of every kind hold together, whatever the overlap check says, so
`ApartNeverMeet` is about connectors whose kind is known. It is about two different
rules that overlap nowhere by `RulesOverlap`. Rules kept apart by their hours
(`ApartByHours`) may still apply together in the one hour in which one ends and the
other begins, for the selection includes both ends; rules that only their days keep
apart must say nothing of weekends. An hour edited to nothing is cleared, and an empty list
of days is no list, as in the code.

`Fee` is the stations' `session_fee`. A `StopTransaction` may come after the client's
stop: it computes amount and energy of the settled session again, at the rate of the
start, and `KeepsItsRate` is about that step as well.

**Access.** A request with several awaits occupies a slot of `req` and takes a step
from each await to the next; requests that only call the database are one step.
`codes`, `users`, `clients` and `keys` are tables, `runs` a history of what ran under a
key and what became of it. `tried`, in a code, counts the guesses compared with it, the
history variable that `attempts` is checked against. Finding an account and making one
are two steps each (`FindAccount` and `FindClient`, `CreateUser` and `SaveUser`), for the
code awaits in between.

`jar` is the cookies of a browser by the domain they were set for: one that is named
(`wide`) or none (`host`). `Domain` is what each handler computes, login
(`auth/otp.py:104-134`), refresh (`auth/session.py:84-98`) and logout (`:495-507`), from the
settings and from the origin of the page: `insecure` is one at localhost, at an IP address
or without TLS. The API itself is taken to be reached over TLS, without which a browser
ignores the cookies of a logout. `out` is a history of the last logout: which request it
was, and whether a refresh sent before its answer was answered after it.

**Notices.** `ready` is the loop's queue of tasks in the order they were left,
`sending` the deliveries that await their receiver or their next attempt.
A task, a delivery and a line of the log say which station they are about (`at`), as
the payload does: two stations that one sweep finds silent are two deliveries of one
event. `throttle` is pruned like the code's table. `passed` and `warned` are history
variables. Pushes of a request are sent within its step, for the library that
sends them does not suspend.

**Places** (with `Register`). `stations` and `locations` with the numbers an EVSE id is made of;
`cache` with the answer and the ticks it has left; a request for the map is
`LookUp`, `Compute`, `Store`, and the tasks a station's message leaves behind are
`DropPlace` and then `DropAll`. What administrators change drops nothing.

**Corporate** (with `CompanyBooks`). One step per request. `CanEmployeeCharge`,
`ReserveFunds` and `RefundUnused` are called by nobody in the repository: `cleared` and
`charging` are what an external caller would keep, and let others act in between. `Costs`
is what a session may have come to when it is refunded, more than was reserved included.
`Charged` is what one row of the ledger adds to what was charged and not given back;
`Booked` is the balance that the rows of a company end with.

Modules do not share a state space: Charging and Booking have `connectors.status`
in common and each models the other's effect on it; Stations supplies the losses
that Charging's and Transactions201's `Disconnect` and undelivered commands stand
for; TopUp, Charging and Transactions201 share `clients.balance`, which each
changes by relative UPDATEs or under a row lock; the rates of Tariffs are
constants of the two modules of sessions; what Places registers and Notices
reports comes from the messages of Charging and Booking.

## 3. What is checked

| Run (`.cfg`) | Question | Instance |
|---|---|---|
| `topup_link` (`MCTopUp_link`) | Can an invoice be credited twice, unpaid, reopened, or left in processing? | one Namba invoice, two webhooks with or without amount, early amounts, two checks, one restart |
| `topup_pair` (`MCTopUp_pair`) | Is what is approved credited, is PrepaidAccount implemented? | a card and a QR invoice of one client, the second superseding the first |
| `charging_promise` (`MCCharging_mixed`) | Is ReservedFunds implemented, and nobody paid to charge, if no station reboots? | two clients on one connector, repeated requests, plug-ins that land in the other's session |
| `charging_fair` (`MCCharging_fair`) | Does money follow the status, is what is settled final, does a session end with no help, is nobody overcharged or below zero? | one session, three transactions, repeats, notices, a reboot, a crash, energy of four times the reservation |
| `booking_life` (`MCBooking_bookings`) | Do bookings end, once, for their client, and free their connector? | two clients, two bookings, two sessions, one connector, one reboot |
| `stations_life` (`MCStations_life`) | Are slots, subscriptions and the online key given back, and is a connection alone heard? | two connections, a Redis failure, a heartbeat in flight, a restart |
| `trans201_life` (`MCTransactions201_life`) | Is a session settled once, as shown, by an answered Ended, and the connector freed? | one session, two EVSEs, two transactions, one fault of any kind |
| `tariffs_rates` (`MCTariffs_rates`) | Is the rate shown the rate charged, and kept? Do rules that pass the check compete? Is advice in its band? | one plan of two rules from three contents, one price, four points of the week, two competitors |
| `access_requests` (`MCAccess_requests`) | Are guesses bounded and repeats explained, is what survives a logout, and is somebody of the staff left? | two overlapping requests of five, one browser, pages of either origin, COOKIE_DOMAIN set, two phones, two of the staff, one key |
| `notices_told` (`MCNotices_told`) | Can a receiver tell the order, is progress throttled, is nobody warned twice a day? | one webhook, two stations, two devices, three events, two attempts, a restart |
| `places_map` (`MCPlaces_map`) | Are EVSE ids unique, does the map catch up? | three stations, two locations, three changes, one request at a time |
| `corporate_books` (`MCCorporate_books`) | Do balance, counters and ledger agree? | one company, two employees, two sessions of cost 0 to 2, two edits, two days |

Every property of a passing run has a mutant, a plausible fault in one mapped
definition, that TLC refutes under that run's own configuration.

**Bounds.** One client, invoice, connector or station has no influence on another
but through a shared row; two of each are enough for every pair that does share
one (two sessions of a client, two clients of a connector, two connections). Two
webhooks cover repetition, three transactions a repeated StartTransaction after a
first session, an energy above the reservation an additional charge, and a balance
that does not cover it the cap. One restart and one reboot at any point cover
those of a longer history, for nothing counts them; where a second matters (a
settled session that is settled again) it shows within one. `TurnAway` in
`stations_life` is reached through the limit of reconnections per minute, for two
connections cannot exceed a limit per address that lets them overlap.

In `trans201_life` two transactions make a second one follow, or be taken for, a first, on
the EVSE of the session or on the other (the EVSEs are alike but for the session, so they
are permuted), and one fault (a lost answer, a reboot, a lost connection, a restart or a
crash between commits) may fall anywhere. The two rules of `tariffs_rates` have three
contents: one by kind of connector, by day on some days; one by power, in the evening and
not at weekends; one by the minute, over midnight at weekends. The first is apart from the
second by its hours and from the third by its days, the second overlaps the third; of the
two hours, 18 is where the first ends and the second begins, so that rules taken to be
apart do meet there, and 3 is where the third ends, past midnight. The two hours lie
inside and outside the night of either clock. Five requests in `access_requests` are a
code with four guesses, two of which pass the limit together; or a login, a new colleague,
who logs in and deactivates the first; or a login and a change of number; or a login from
an insecure page, a logout that leaves its cookies and a refresh with them; or a login and
a refresh that is answered after a logout. The events of `notices_told` are one that is
throttled, one that is not and one that a sweep may send for both stations; stations and
devices are alike and are permuted, a day and the interval are one tick of a clock that
moves once, and what takes longer, pruning entries that are old, is in the proof; three
changes of `places_map` a creation, a move and a message, or an overlap of a message and a
request. The proofs hold for all bounds.

**Fairness.** Nothing is assumed of clients, providers, stations or Redis'
subscribers. Assumed is what the process does by itself: a timer expires, a
suspended HTTP call returns or times out, a ready task runs (`TopUp`); the
hanging-session job runs and every started session becomes old enough
(`Charging`); the expiry job runs every minute (`Booking`); a cancelled task runs
its `finally`, and a key's TTL passes (`Stations`); requests and tasks of the loop
run on, and Redis drops what its TTL has passed (`Places`). Each is one weak fairness
condition in the module's `FairSpec`, next to the job it stands for. Deadlock
is checked in `places_map`; with their bounds used up the other systems may stop.

## 4. What is proved

Eight modules of theorems, for every value of the constants. Those that need that a set
of numbers bounded on one side has a greatest (or least) element begin with a lemma that
says so.

- `TopUpProofs`: `TypeCorrect`, `AtMostOneCredit`, `CreditsBacked`,
  `ApprovedMeansCredited`, `LockProtectsSnapshot`, `ApprovedForever`,
  `TopUpImplementsPrepaidAccount`. That an invoice is credited once is not inductive:
  the credit of a status check rests on what it read before it slept, so the invariant
  carries that the snapshot is still the row (the lock) and that pending work belongs to
  rows it makes sense for (`PendingWork`), and from them that a credited row is approved
  and can be credited by nobody. The refinement and `ApprovedMeansCredited` assume that
  providers name amounts, and only of complete payments (`~MissingAmounts`,
  `~EarlyAmounts`); without it the code approves rows it does not credit (section 5).
  `topup_pair` runs under the same.
- `ChargingProofs`: `TypeCorrect`, `NobodyOwes`, `PaidFollowsStatus`, `SettledForGood`,
  `NoHiddenCharge`, `AloneNeverOvercharged`, `NobodyIsPaidToCharge`,
  `ChargingImplementsReservedFunds`. A lemma gives what a settlement does to one client
  and one session; another reduces every step to "quiet", "bills one session" or
  "corrects the figures of one that is billed". The invariant says which sessions may
  still be billed and what was paid for them. `NoHiddenCharge` says of any number of
  sessions that the step that settles one takes no more than the amount it writes. That
  the session has not paid more than its row shows ever after, `NeverOvercharged`, is
  less: the station's StopTransaction corrects the figures of a session its client has
  stopped. It is false of two sessions: a plug-in after its pending key has expired
  links a second transaction to a session, and the later StopTransaction lowers the
  amount below what was paid. It is also false when the price rises meanwhile.
  `AloneNeverOvercharged` is for one session and a price that has not risen; its
  invariant says that only the last transaction goes on, that all that is in memory is
  about it, and that no figure and no sample exceeds its meter. `NobodyIsPaidToCharge`
  and the refinement assume `MaxReboots = 0`: with a reboot the second refund described in
  section 5 refutes them.
- `BookingProofs`: `TypeCorrect`, `NoOrphanReservation`, `EndedForGood`,
  `UsedByItsOwner`. `use_booking` never compares clients; that a booking is used by its
  own client follows from the validator's question and from there being one active
  booking on a reserved connector, which is the invariant.
- `RegistryProofs`, of `Stations`: `TypeCorrect`, `SlotsAreCounted`, `AloneIsHeard`. The
  invariant adds that connections open together are marked, so that whoever touches
  another's registration disturbs it, and that a listener that is calling the station
  keeps its subscription. Of `Places`: `EvseIdsNeverClash`. A new number is one more than
  the greatest in its location; that there is a greatest needs a bound on the numbers,
  which the invariant carries as the number of stations and of changes made so far. The
  rest is that every id is made of the numbers of a location and of one station in it.
- `Transactions201Proofs`: `TypeCorrect`, `NeverDearer` (nobody pays for a settled
  session more than the amount its row shows), `SettledForGood`, `EndedIsSettled`,
  `NoIdleOccupied`. The invariant adds to the types that the station numbers its
  transactions without gaps, that a session's sums agree with its status (`Sums`), that
  a session some row names was started (`Begun`), and that a row closed by the running
  process has ended its session (`Closed`), which is what an Ended relies on when it
  comes again. For `NoIdleOccupied` it adds that every transaction of the station has a
  row (`Stored`) and that a session is where its connector is (`Placed`), and a lemma
  says that a cause that leaves a connector occupied for good (`Stranded`) lasts.
- `AccessProofs`: `GuessesBounded`, `RepeatsExplained`, `SomeoneStays`, `LogoutExplained`.
  Guesses that overlap read the same count before one of them writes it. The invariant
  counts them together: the attempts of a code and the guesses that were let in and not
  yet compared stay below `MaxAttempts + Cardinality(Requests)`, for each slot adds at
  most one. For `RepeatsExplained` each request in progress with a key goes on with a
  run of that key, its own, and the runs of a key that has no row either go on or have
  left no answer for a reason the property lists. `LogoutExplained` holds with
  COOKIE_DOMAIN and without it. Its invariant says of each refresh in progress where its
  cookie came from: it was sent before the last logout was answered, or there were cookies
  the logout does not reach.
- `NoticesProofs`: `OrderToldByTimestamps`, `ProgressSpaced`, `OneWarningADay`. The
  stamp is taken when the task of a delivery runs, not when the event happens, so the
  invariant is about the order of the queue: dispatches and deliveries wait in the order
  of what they are about (`Queued`), nothing that waits is a delivery that has started
  or comes before one, and so the stamps ascend (`Stamped`). Pruning drops entries older
  than the interval only, so that what the table no longer knows is old enough. The last
  use of the client's subscriptions is at least the last warning of each device that is
  still subscribed.
- `MoneyProofs`, of `Tariffs`: `ShownIsAlwaysCharged`, `ApartRulesNeverMeet`,
  `AdviceAlwaysInBand`, `SessionsKeepTheirRate`. The invariant (`TariffInv`) is the types
  of the tables, that a session that was not stopped has no one who stopped it and that
  one that was started is at a station that exists, and that the advice that was saved is
  in its band, which a step may only add to. That a new one is: the factors of demand and
  of revenue take three values each, and each of their nine products is bounded by itself;
  what competitors take on average is used only if it is positive, the default price if it
  is not; and the floor is put under the result last. Nothing is assumed of the sign of a
  price.
- `MoneyProofs`, of `Corporate`: `BooksAlwaysAgree`. The floors of `refund_unused`
  (`GREATEST(x - refund, 0)`) would make the counters say more than the ledger if one of
  them were ever met. The invariant's part `Covered` is why they are not: what the sessions
  in progress may still be given back is, for each company and for each employee, a sum
  that never exceeds the counter. A reservation adds the same to both sides, a refund takes
  the session out of the sum and less than that from the counter. Another part
  (`MadeFirst`) is that nothing is booked of a company or an employee before there is one.

Sums are recursive functions (`Sums`). What is proved of them for every length (that a sum
is an integer, that a row appended adds its own number, that one session less takes its
share) does not use the library's induction theorems, whose parameter is an operator: a
set that holds nought and the successors of its members holds every natural number, because
otherwise there is a least one it lacks (`AllNaturals`), and that such a function exists is
shown from its beginnings (`SumsExist`).

Where a module of proofs covers a second component, that one is an INSTANCE (`Map`,
`Books`), and the state its property is about is a module both extend (`Register`,
`CompanyBooks`). An assumption of an instantiated module is not an assumption of the module that
instantiates it, so the theorem names it as its hypothesis (`MapAssumption`,
`BooksAssumption`: the ASSUME of that module, which TLC evaluates in the component's run).

The constants' assumptions (`...Assumption` in each module) say that rows have owners
and amounts, prices of `Tariffs` excepted, are positive; TLC evaluates them in every run.

Every safety and action property of every run is stated by one of these theorems. Some
are proved under a condition, which the run of the property meets: `ApprovedMeansCredited`
and the refinement of `TopUp` without `MissingAmounts` and `EarlyAmounts`;
`NobodyIsPaidToCharge` and the refinement of `Charging` without reboots;
`AloneNeverOvercharged` for one session and no price rise.

**Only model-checked:** the liveness properties (`EveryInvoiceSettles`,
`EverySessionEnds`, `EveryBookingEnds`, `ClosedIsUnsubscribed`, `OfflineInTheEnd`,
`MapCatchesUp`), for the prover has no rules for fairness and ENABLED.

## 5. Not modelled, and seen on the way

Not modelled:

- **Guest charging.** No code moves a guest session from `pending` to paid, so
  none starts; its start, stop and cancelling job would be driven by a payment that
  the repository does not handle.
- **Partner revenue.** One UPDATE of a session's shares in the client's stop
  (`charging/service.py:238`), read by reports.
- **Live sockets, history, receipts, favourites, reports.** Reads, single rows or
  messages, with nothing kept between two of them but who listens.
- **Authentication beyond codes, cookies and accounts:** logins at the identity
  provider, the login for developers, rate limiters, signatures, tokens, HMAC.
- **OCPP messages that touch no session:** of 1.6 Authorize, DataTransfer,
  firmware, diagnostics, local lists; of 2.0.1 Heartbeat, NotifyEvent, NotifyReport,
  LogStatus, FirmwareStatus.
- **Simulator, stress test, health, logging, configuration.** Test equipment and
  observation; a shutdown's effect on connections and sessions is in Stations and
  Charging.
- The wording of messages, SQL beyond the rows and the order of statements, the
  history of prices, reports on prices.

Divergences met while modelling. The models do what the code does, and the
properties are stated so that they hold with it; none of these is refuted by a run
of its own.

**Top-ups.** The webhook is answered "received" before its task credits; the task
fails if the row is locked by a status check that awaits the provider
(`webhook.py:165` logs and drops it), the provider does not call again, and the
check credits only if it is told of the payment. A poll never asks about a
cancelled row (`ocpp_service.py:892`) although `:1035` provides for the answer. A
webhook without an amount adds a Decimal to a float and loses the credit
(`webhook.py:128`). An amount stored from an answer in progress makes the approving
answer look processed (`ocpp_service.py:1069`), which is why `ApprovedIsCredited` is
checked without early amounts. The endpoints of `payment/h2h.py`, `payment/token.py`
and `balance/payment.py` call the bank's service with other arguments than it takes:
they fail before they write a row.

**Charging.** BootNotification refunds a session that has no transaction but leaves
`payment_processed` unset and the pending key alive (`ws_handler.py:212-257`); if its
RemoteStart goes out afterwards, StartTransaction takes the refunded session up
(`:604-623`) and StopTransaction refunds the reservation again (`:937-949`). The command
handler prefers the last transaction of the whole station to the one the command names
(`:2040`). The stop request bills the price at the stop (`billing.py:184`), the station's
message the tariff of the start (`ws_handler.py:843`). StopTransaction changes the balance
without a row in `payment_transactions_odengi` (`:941`). A transaction is linked by the
pending key of its connector whatever its `id_tag` says (`:607`), so a late plug-in
charges in another's session, or adds a second transaction to one whose key has expired:
its StopTransaction then lowers the amount below what the session has paid, which
`NeverOvercharged` excludes and is why its run has one session. Sessions without limit
never stop by themselves (`:1194` selects a column that does not exist). Nothing sends a
lost command again. The revenue split is written by the client's stop only, so what a
station settles has no shares.

**Bookings.** A station's "Available" overwrites "reserved"
(`ws_handler.py:447-457`) and the start of a session looks at bookings only if the
connector is reserved (`validators.py:167`), so a booked connector is not kept. A
cancellation frees the connector whatever its status is (`booking_service.py:249`),
the job only if it is reserved (`:344`); a late StopTransaction frees a connector
reserved since (`ws_handler.py:988`).

**Connections.** `unregister_station` unsubscribes the pubsub of the station, not of
the connection that closes: after an overlap the connection that is left is online,
sends heartbeats and receives no command. A refused connection still runs `_cleanup`
by its station's id.

**OCPP 2.0.1.** The transaction number is Python's `hash()`, which differs from process to
process: after a restart an Ended finds neither entry nor row. A Started that is repeated
opens a second row. The additional charge of an Ended has no cap, and may take the balance
below zero (`ws_handler_v201.py:858`); a session is found by user and station, so a
Started on another EVSE takes it up, and its Ended leaves the session's own connector
occupied. An Ended without a reading may leave a negative energy. A RemoteStop after the
memory is lost names a transaction the station does not know.

**Pricing.** There is no column `tariff_per_kwh` (`sql/000_base_schema_local.sql:147`),
so every application of advice fails and changes nothing. Two spellings of a
competitor's kind overwrite each other. Uses of a promo code are checked but never
counted; `client_tariffs` is never written; `_calculate_next_rate_change` always
returns None. A weekend rule without days holds on every day (`sql/009_tariffs.sql`
says otherwise). Deactivated plans keep pricing. The price shown puts plan and
station's price in the other order than the price charged; the night of 23 to 6 is
UTC's in one computation and Bishkek's in another. The client's stop takes the rate of
the moment without night discount; the default rate is 12.0 in one handler and 13.5
elsewhere. `validate_tariff_rule` has no caller. A limit by amount is checked
against the base rate. Advice for the night may lie below the floor.

**Access.** A saved answer is sent as `response(send)`, which raises: a repeat has no
second effect, but gets a 500 instead of the answer (`idempotency_middleware.py:99-104`).
Keys are looked up before authentication (`main.py:745-746`), so refusals are saved too;
overlapping requests with one key both run (`:78`). Login derives its cookies' domain from
`COOKIE_DOMAIN` or, without it, `DOMAIN` (`auth/otp.py:124-134`); refresh and logout know
the first only. For pages at localhost, at an IP address or without TLS login and refresh
set cookies without a domain even with `COOKIE_DOMAIN` (`auth/session.py:84-98`,
`auth/otp.py:104-120`), which a logout, which always names it (`:495-507`), does not
reach: the browser stays logged in, although the endpoint says that it clears all cookies
and invalidates the session (`:489`). Nothing revokes a token, so a refresh on its way
when the browser logs out logs it in again. The SSO of staff without a client row fails.
`confirm_phone_change` does not ask again whether the number is free. Two first logins
that overlap create two clients. `update_user` says it is for superadmins and is open to
others. The cleanup of codes has no caller, and `users.phone`, `clients.email` and
`otp_codes` are created by no SQL of the repository.

**Places.** A save that names the location renumbers the station even if it is the same
(`admin/stations.py:399`). Whether the columns of the numbers exist is asked once per
process (`:19-35`), so a process older than the migration moves stations without numbering
them again; the model's processes are younger. The status broadcast live is not the one of
the map (`realtime_service.py:80-94`): a faulted station is "occupied" there and "offline"
here; `location_status_service.py:36` says "ВСЕ станции заняты", the code any; and
`locations.py:88-93` has a third meaning. Administrators' changes drop no cached answer,
and an answer computed before a drop may be stored after it. `update_station` may take a
station out of service with a session on it. The migration's `LPAD` cuts numbers of more
than three digits of a location, two of a station (`017_ocpi_evse_ids.sql:31-33`), and the
code's ids are ambiguous beyond 999: the pair of numbers of `EvseId` is the id below that.

**Notices.** A `requests` response to 404 or 410 is false in a condition, so dead
subscriptions are never removed. `update_heartbeat` sets `is_available` itself, so
"station.online" is told only of rows it did not touch. Progress is throttled per
station, so one connector silences another. Retries go on after a subscription is
deleted. A push just before suppresses the warning of a low balance. The event
"charging_low_balance" (`ws_handler.py:1237`) has no configuration. A restart loses
deliveries and retries.

**Corporate.** The month's counters are never reset, the day's only if there is a daily
limit. A refund goes by the group's way of billing at that time, and one of the next day
lowers that day's counter. The check that resets the day's counter
(`corporate_service.py:337-341`) leaves the commit to its caller: the reset may be lost.
An employee of two groups gets either row; a limit of 0 is none; nothing asks again
between authorisation and reservation. The administrator of one group can edit the
employees of another; an update drops None.

**Live sockets.** Commands to subscribe that come later never reach the
listener although `websocket.py:115-117` promises it; two sockets with one client id
unregister each other.

## 6. Plan

Done: `TopUp`, `Charging`, `Booking`, `Stations` with their abstract specifications
and proofs; `Transactions201`, `Places`, `Access`, `Notices`, `Tariffs`, `Corporate` with
proofs. Left:

1. `Accounts`: the writers of `clients.balance` in TopUp, Charging, Transactions201
   composed over one column, with READ COMMITTED interleaving.
2. What `Transactions201` promises about money. It is not `ReservedFunds`: a session its
   Ended settles may cost more than the client has, and the balance goes below zero; an
   abstract specification would allow the debt.
3. Proofs: the types of `Access`, `Places` and `Notices` as theorems of their own; what
   happens to several sessions of a station between which nothing is lost.
4. `Guest`, once a payment leads to it, and the revenue split, once every
   settlement writes it.
