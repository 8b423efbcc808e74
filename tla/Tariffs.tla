------------------------------ MODULE Tariffs ------------------------------
(***************************************************************************)
(* What a kWh costs: tariff plans and their rules, prices of stations,     *)
(* tariffs of clients, promo codes, the night discount, and the advice on  *)
(* prices.  A session takes its rate when it starts and is settled later,  *)
(* by its station, by its client, or by an OCPP 2.0.1 station, each by a   *)
(* computation of its own, while the administrators change the tariffs.    *)
(*                                                                         *)
(* Money is counted in hundredths of a som.  A point in time is a day of   *)
(* the week and a full hour in UTC.                                        *)
(***************************************************************************)
EXTENDS Integers, FiniteSets, Sequences, SequencesExt, Sums

CONSTANTS
  Plans, Stations, Sessions, None,
  Contents,      \* what an administrator may write into a rule
  Prices,        \* prices an administrator may give a station, None included
  Fee,           \* session_fee of the stations: nothing in the program writes it
  Connector,     \* type and power of the connector that is used
  ClientTariff,  \* client_tariffs: nothing in the program writes them
  Promo,         \* promo_codes, the same: a discount, or None
  Requests,      \* the kWh and the amount a client may ask for
  Balance,       \* the balance of the client who starts a session
  Times,         \* points in time
  Energies,      \* the kWh a session may take
  Edits,         \* the fields of a rule that are ever edited
  Rivals,        \* rows of competitor_prices
  Seed,          \* what the migration wrote into them
  Entries,       \* what an administrator may write into one
  Histories,     \* demand and revenue a station may have had
  Power,         \* power_capacity of the stations, or None
  Location,      \* where they are
  MaxRows        \* bound: rows written or changed

Hours == 0..23
Days == 1..7

Fields == {"type", "connector", "min", "max", "price", "from", "to", "weekend", "days",
           "priority"}

Prescriptions ==
  [type : STRING, connector : STRING, min : Nat \cup {None}, max : Nat \cup {None},
   from : Hours \cup {None}, to : Hours \cup {None}, days : SUBSET Days \cup {None},
   weekend : BOOLEAN \cup {None}, since : Days \cup {None}, till : Days \cup {None},
   price : Int, priority : Int]

CompetitorRows == [type : STRING, price : Int, currency : STRING]

ASSUME TariffAssumption ==
  /\ Times \subseteq [hour : Hours, day : Days]
  /\ Contents \subseteq Prescriptions /\ Edits \subseteq Fields
  /\ Prices \subseteq Int \cup {None} /\ Fee \in [Stations -> Int]
  /\ Energies \subseteq Nat \ {0}
  /\ Requests \subseteq [kwh : Nat, amount : Nat]
  /\ Entries \subseteq CompetitorRows /\ Seed \in [Rivals -> CompetitorRows \cup {None}]
  /\ Balance \in Int /\ MaxRows \in Nat
  /\ IsFiniteSet(Stations) /\ IsFiniteSet(Rivals)

(* What is not in the tables is no value of theirs. *)
ASSUME NullAssumption ==
  /\ None \notin Int \cup Stations \cup {"station", "client"}
  /\ ClientTariff # None =>
       ClientTariff \in [fixed : Int \cup {None}, plan : Plans \cup {None}, discount : Int]
  /\ Promo # None =>
       Promo \in [percent : Int \cup {None}, value : Int, most : Int, least : Int]

VARIABLES
  time,
  plan,     \* tariff_plans
  rules,    \* tariff_rules, in the order they were written
  station,  \* price_per_kwh and tariff_plan_id of the stations
  session,  \* charging_sessions
  rivals,   \* competitor_prices: the rows that are active, None the others
  advice    \* ai_pricing_recommendations

Competing == {v \in Rivals : rivals[v] # None}

Rows == Len(rules) + Len(advice) + Cardinality({v \in Rivals : rivals[v] # Seed[v]})

vars == <<time, plan, rules, station, session, rivals, advice>>

DefaultRate == 1350
DefaultRate201 == 1200

Init ==
  /\ time \in Times
  /\ plan = [p \in Plans |-> [made |-> FALSE, default |-> FALSE, active |-> TRUE]]
  /\ rules = << >>
  /\ station = [s \in Stations |-> [price |-> None, plan |-> None]]
  /\ session = [x \in Sessions |->
       [status |-> "none", station |-> None, rate |-> 0, reserved |-> 0,
        kwh |-> 0, cost |-> 0, by |-> None]]
  /\ rivals = Seed
  /\ advice = << >>

----------------------------------------------------------------------------
(* The night discount *)

(* 23:00 to 06:00 on the clock it is given. *)
IsNight(hour) == hour >= 23 \/ hour < 6

Bishkek(hour) == (hour + 6) % 24

Discounted(rate) == (rate * 8) \div 10

(* get_effective_rate: by default on the clock of Bishkek. *)
EffectiveRate(base, hour) == IF IsNight(hour) THEN Discounted(base) ELSE base

----------------------------------------------------------------------------
(* The rule that applies *)

(* One that begins late ends the next day.  For the rule that applies both *)
(* ends belong to a range, for the rate that is shown only the first.      *)
InHalfOpenRange(hour, from, to) ==
  \/ from = None \/ to = None
  \/ from < to /\ from <= hour /\ hour < to
  \/ from >= to /\ (hour >= from \/ hour < to)
InRange(hour, from, to) ==
  \/ from = None \/ to = None
  \/ from < to /\ from <= hour /\ hour <= to
  \/ from >= to /\ (hour >= from \/ hour <= to)

IsWeekend(day) == day >= 6

(* A power that is not given counts as zero. *)
AppliesTo(r, p, type, power, t) ==
  /\ r.plan = p /\ r.active
  /\ r.since = None \/ r.since <= t.day
  /\ r.till = None \/ r.till >= t.day
  /\ r.connector = "ALL" \/ type = None \/ r.connector = type
  /\ r.min = None \/ r.min <= power
  /\ r.max = None \/ r.max >= power
  /\ r.days = None \/ t.day \in r.days
       \/ (r.weekend # None /\ r.weekend = IsWeekend(t.day))

(* ORDER BY priority DESC, created_at DESC: rules of one request have one  *)
(* created_at and come in any order.                                       *)
Before(r, q) == r.priority > q.priority \/ (r.priority = q.priority /\ r.made > q.made)

(* _find_applicable_rule: the first of the rules that apply whose hours    *)
(* include the time.  The set has several members where the order leaves   *)
(* it open.                                                                *)
Applicable(p, type, power, t) ==
  LET A == {i \in DOMAIN rules : AppliesTo(rules[i], p, type, power, t)}
      C == {i \in A : InRange(t.hour, rules[i].from, rules[i].to)}
  IN {rules[i] : i \in {j \in C : \A k \in C : ~Before(rules[k], rules[j])}}

(* _build_pricing_from_rule: the price is of one kind, the discount goes   *)
(* by the clock of Bishkek.                                                *)
PricingFromRule(r, hour) ==
  LET price == IF IsNight(Bishkek(hour)) /\ r.price > 0
                  /\ r.type \in {"per_kwh", "per_minute"}
               THEN Discounted(r.price) ELSE r.price
  IN [rate   |-> IF r.type = "per_kwh" THEN price ELSE 0,
      minute |-> IF r.type = "per_minute" THEN price ELSE 0,
      fee    |-> IF r.type = "session_fee" THEN price ELSE 0]

DefaultPricing(hour) ==
  [rate |-> EffectiveRate(DefaultRate, Bishkek(hour)), minute |-> 0, fee |-> 0]

(* A price of a station's own is discounted on the clock of UTC. *)
StationPricing_Local(s, hour) ==
  [rate |-> EffectiveRate(station[s].price, Bishkek(hour)), minute |-> 0, fee |-> Fee[s]]
StationPricing(s, hour) ==
  [rate |-> EffectiveRate(station[s].price, hour), minute |-> 0, fee |-> Fee[s]]

Cut(pricing, percent) ==
  [pricing EXCEPT !.rate = (@ * (100 - percent)) \div 100,
                  !.minute = (@ * (100 - percent)) \div 100]

(* _get_client_pricing: a fixed rate, or a plan with a discount. *)
ClientPricings(t) ==
  IF ClientTariff = None THEN {}
  ELSE IF ClientTariff.fixed \notin {None, 0}
  THEN {[rate |-> ClientTariff.fixed, minute |-> 0, fee |-> 0]}
  ELSE IF ClientTariff.plan = None THEN {}
  ELSE {Cut(PricingFromRule(r, t.hour), ClientTariff.discount) :
          r \in Applicable(ClientTariff.plan, None, 0, t)}

(* A price of a station's own: for the pricing a positive one, for the     *)
(* other computations one that is given and not nought.                    *)
Priced(s) == station[s].price \notin {None, 0}
Own(s) == Priced(s) /\ station[s].price > 0

(* _calculate_pricing_internal: the tariff of the client, the price of the *)
(* station, the plan of the station, the default.  Whether a plan is       *)
(* active is not asked.                                                    *)
Pricings(s, t) ==
  LET R == IF station[s].plan = None THEN {}
           ELSE Applicable(station[s].plan, Connector.type, Connector.power, t)
  IN IF ClientPricings(t) # {} THEN ClientPricings(t)
     ELSE IF Own(s) THEN {StationPricing(s, t.hour)}
     ELSE IF R # {} THEN {PricingFromRule(r, t.hour) : r \in R}
     ELSE {DefaultPricing(t.hour)}

(* get_station_tariff: what a client is shown before.  A plan comes first, *)
(* ends of ranges do not belong to them, a rule without hours is not in    *)
(* force, and if none is the first of the plan is shown.                   *)
ShownRates(s, t) ==
  LET A == {i \in DOMAIN rules : rules[i].plan = station[s].plan /\ rules[i].active}
      C == {i \in A : rules[i].from # None /\ rules[i].to # None
                      /\ InHalfOpenRange(t.hour, rules[i].from, rules[i].to)}
      D == IF C # {} THEN C ELSE A
  IN IF station[s].plan # None /\ A # {}
     THEN {rules[i].price : i \in {j \in D :
             \A k \in D : rules[k].priority <= rules[j].priority}}
     ELSE {EffectiveRate(IF Priced(s) THEN station[s].price ELSE DefaultRate, t.hour)}

----------------------------------------------------------------------------
(* The reservation *)

Lesser(a, b) == IF a <= b THEN a ELSE b

(* _apply_promo_code: nothing counts how often a code was used. *)
PromoDiscount(amount) ==
  IF Promo = None \/ (Promo.least # 0 /\ amount < Promo.least) THEN 0
  ELSE IF Promo.percent # None
  THEN IF Promo.most = 0 THEN (amount * Promo.percent) \div 100
       ELSE Lesser((amount * Promo.percent) \div 100, Promo.most)
  ELSE Lesser(Promo.value, amount)

Positive(n) == IF n > 0 THEN n ELSE 0

(* calculate_session_cost, for an hour. *)
SessionCost(kwh, pricing) ==
  kwh * Positive(pricing.rate) + 60 * Positive(pricing.minute) + Positive(pricing.fee)

(* calculate_reservation; None where the start is refused.  Asked for kWh  *)
(* only, it takes the rate and the fee as they are and no promo code.      *)
Reservation(request, pricing) ==
  LET cost == SessionCost(request.kwh, pricing)
      full == request.kwh * pricing.rate + 60 * Positive(pricing.minute) + pricing.fee
      part(x) == (x * 95) \div 100
      wanted ==
        IF request.kwh > 0 /\ request.amount > 0
        THEN part(Lesser(cost - PromoDiscount(cost), request.amount))
        ELSE IF request.amount > 0
        THEN IF request.amount > Balance THEN None ELSE part(request.amount)
        ELSE IF request.kwh > 0 THEN part(full)
        ELSE IF Lesser(20000, Balance) < 1000 THEN None ELSE Lesser(20000, Balance)
  IN IF wanted = None \/ Balance < wanted THEN None ELSE wanted

----------------------------------------------------------------------------
(* A session *)

(* start_charging_session: the rate is fixed here. *)
StartSession(x, s) ==
  /\ session[x].status = "none"
  /\ \E request \in Requests, pricing \in Pricings(s, time) :
       /\ Reservation(request, pricing) # None
       /\ session' = [session EXCEPT
            ![x].status = "started", ![x].station = s, ![x].rate = pricing.rate,
            ![x].reserved = Reservation(request, pricing)]
  /\ UNCHANGED <<time, plan, rules, station, rivals, advice>>

Base(s, default) == IF Priced(s) THEN station[s].price ELSE default

(* StopTransaction: the rate of the session, if it has one. *)
RateAtStop_Current(x) == EffectiveRate(Base(session[x].station, DefaultRate), Bishkek(time.hour))
RateAtStop(x) ==
  IF session[x].rate # 0 THEN session[x].rate
  ELSE EffectiveRate(Base(session[x].station, DefaultRate), Bishkek(time.hour))

(* get_session_rate, when the client stops: prices as they are now, no     *)
(* night, and of a plan the first rule by kWh whatever its hours.          *)
RatesByClient(x) ==
  LET s == session[x].station
      K == {i \in DOMAIN rules : rules[i].plan = station[s].plan
                                 /\ rules[i].active /\ rules[i].type = "per_kwh"}
  IN IF Priced(s) THEN {station[s].price}
     ELSE IF station[s].plan = None \/ K = {} THEN {DefaultRate}
     ELSE {rules[i].price : i \in {j \in K :
             \A k \in K : rules[k].priority <= rules[j].priority}}

(* _finalize_charging_session of OCPP 2.0.1 *)
RateAtEnded(x) == EffectiveRate(Base(session[x].station, DefaultRate201), Bishkek(time.hour))

Settle(x, kwh, rate, by) ==
  /\ session' = [session EXCEPT
       ![x].status = "stopped", ![x].kwh = kwh, ![x].cost = kwh * rate, ![x].by = by]
  /\ UNCHANGED <<time, plan, rules, station, rivals, advice>>

Running(x) == session[x].status = "started"

(* The figures of a session its client has ended are corrected. *)
StopTransaction(x, kwh) ==
  /\ Running(x) \/ session[x].by = "client"
  /\ Settle(x, kwh, RateAtStop(x), "station")
StopByClient(x, kwh) ==
  Running(x) /\ \E rate \in RatesByClient(x) : Settle(x, kwh, rate, "client")
TransactionEnded(x, kwh) == Running(x) /\ Settle(x, kwh, RateAtEnded(x), "ocpp201")

(* build_status, what the client's page shows: the rate, and what it costs *)
(* or has cost so far.                                                     *)
StatusRate(x) ==
  IF session[x].rate # 0 THEN session[x].rate ELSE Base(session[x].station, DefaultRate)

StatusAmount(x) ==
  IF session[x].status = "stopped" /\ session[x].cost > 0 THEN session[x].cost
  ELSE session[x].kwh * StatusRate(x)

----------------------------------------------------------------------------
(* The administrators *)

Made == {p \in Plans : plan[p].made}

NoOther == [q \in Plans |-> [plan[q] EXCEPT !.default = FALSE]]

Rule(c, p, when) ==
  [plan |-> p, active |-> TRUE, made |-> when, type |-> c.type,
   connector |-> c.connector, min |-> c.min, max |-> c.max, from |-> c.from,
   to |-> c.to, days |-> c.days, weekend |-> c.weekend, since |-> c.since,
   till |-> c.till, price |-> c.price, priority |-> c.priority]

(* create_tariff_plan: a plan that is to be the default first takes that   *)
(* from the others.  No rule is validated against the others.              *)
CreatePlan(p, default, written) ==
  /\ ~plan[p].made
  /\ Rows + Len(written) <= MaxRows
  /\ plan' = [(IF default THEN NoOther ELSE plan) EXCEPT
                ![p] = [made |-> TRUE, default |-> default, active |-> TRUE]]
  /\ rules' = rules \o [i \in DOMAIN written |-> Rule(written[i], p, Len(rules))]
  /\ UNCHANGED <<time, station, session, rivals, advice>>

(* update_tariff_plan: what is not given (None) stays. *)
UpdatePlan(p, default, active) ==
  /\ p \in Made
  /\ plan' = [(IF default = TRUE THEN NoOther ELSE plan) EXCEPT
                ![p].default = IF default = None THEN @ ELSE default,
                ![p].active = IF active = None THEN @ ELSE active]
  /\ UNCHANGED <<time, rules, station, session, rivals, advice>>

(* delete_tariff_plan: its stations keep it. *)
DeletePlan(p) ==
  /\ p \in Made
  /\ plan' = [plan EXCEPT ![p].active = FALSE]
  /\ UNCHANGED <<time, rules, station, session, rivals, advice>>

AddRule(p, c) ==
  /\ p \in Made /\ Rows < MaxRows
  /\ rules' = Append(rules, Rule(c, p, Len(rules)))
  /\ UNCHANGED <<time, plan, station, session, rivals, advice>>

(* update_rule: a field that is given; of the hours an empty one is, too. *)
UpdateRule(i, f, c) ==
  /\ c[f] # None \/ f \in {"from", "to"}
  /\ rules' = [rules EXCEPT ![i][f] = c[f]]
  /\ UNCHANGED <<time, plan, station, session, rivals, advice>>

SwitchRule(i, active) ==
  /\ rules' = [rules EXCEPT ![i].active = active]
  /\ UNCHANGED <<time, plan, station, session, rivals, advice>>

DeleteRule(i) == SwitchRule(i, FALSE)

AssignPlan(p, S) ==
  /\ p \in Made /\ plan[p].active
  /\ station' = [s \in Stations |->
       IF s \in S THEN [station[s] EXCEPT !.plan = p] ELSE station[s]]
  /\ UNCHANGED <<time, plan, rules, session, rivals, advice>>

SetPrice(s, price) ==
  /\ station' = [station EXCEPT ![s].price = price]
  /\ UNCHANGED <<time, plan, rules, session, rivals, advice>>

(* _rules_overlap, which validate_tariff_rule refuses a rule by: two       *)
(* ranges of which one passes midnight are taken to overlap.               *)
RangesOverlap_ByDay(r, q) == ~(r.to <= q.from \/ q.to <= r.from)
RangesOverlap(r, q) ==
  r.from < r.to /\ q.from < q.to => ~(r.to <= q.from \/ q.to <= r.from)

RulesOverlap(r, q) ==
  /\ "ALL" \in {r.connector, q.connector} \/ r.connector = q.connector
  /\ None \notin {r.from, r.to, q.from, q.to} => RangesOverlap(r, q)
  /\ {r.days, q.days} \cap {None, {}} = {} => r.days \cap q.days # {}

----------------------------------------------------------------------------
(* What competitors take *)

Unpriced == <<time, plan, rules, station, session, advice>>

AddCompetitor(v, entry) ==
  /\ rivals[v] = None
  /\ rivals' = [rivals EXCEPT ![v] = entry]
  /\ UNCHANGED Unpriced /\ Rows' <= MaxRows

(* What is not given stays: a price, a kind, a currency or all of them. *)
UpdateCompetitor(v, fields, entry) ==
  /\ v \in Competing
  /\ rivals' = [rivals EXCEPT ![v] =
       [f \in DOMAIN @ |-> IF f \in fields THEN entry[f] ELSE @[f]]]
  /\ UNCHANGED Unpriced /\ Rows' <= MaxRows

DeleteCompetitor(v) ==
  /\ v \in Competing
  /\ rivals' = [rivals EXCEPT ![v] = None]
  /\ UNCHANGED Unpriced /\ Rows' <= MaxRows

(* Halves are rounded down. *)
Rounded(x, unit) == (x + (unit - 1) \div 2) \div unit

Mean(S) ==
  LET row == SetToSeq(S)
  IN Rounded(Total([i \in DOMAIN row |-> rivals[row[i]].price], Len(row)), Cardinality(S))

(* The kinds as they were typed, and as they are asked for. *)
Lower == [dc |-> "dc", DC |-> "dc", ac |-> "ac", other |-> "other"]

(* _analyze_competitors: a mean for each kind as it was typed and one of   *)
(* all.  Of two spellings of one kind the one the database returns last    *)
(* counts, so there may be several surveys.  0: there is no such row.      *)
Surveys ==
  LET L == {v \in Competing : rivals[v].currency = "KGS"}
      of(type) == {v \in L : rivals[v].type = type}
      means(kind) ==
        LET spelt == {t \in DOMAIN Lower : Lower[t] = kind /\ of(t) # {}}
        IN  IF spelt = {} THEN {0} ELSE {Mean(of(t)) : t \in spelt}
  IN [dc : means("dc"), ac : means("ac"), overall : {IF L = {} THEN 0 ELSE Mean(L)}]

----------------------------------------------------------------------------
(* The advice on prices, in tenths of a som *)

Floor == 45
Greater(a, b) == IF a >= b THEN a ELSE b

DemandFactor(sessionsPerDay) ==
  IF sessionsPerDay > 10 THEN 110 ELSE IF sessionsPerDay > 4 THEN 100 ELSE 92

(* _analyze_revenue: the second half of the period against the first. *)
TrendFactor(first, second) ==
  IF first = 0 THEN 100
  ELSE IF (second - first) * 100 > 15 * first THEN 103
  ELSE IF (second - first) * 100 < -15 * first THEN 95 ELSE 100

(* The competitors with stations of the same kind count, all of them if    *)
(* there are none.                                                         *)
Kind(s) == IF Power[s] # None /\ Power[s] > 22 THEN "dc" ELSE "ac"
Competitors(s, survey) ==
  IF survey[Kind(s)] > 0 THEN survey[Kind(s)] ELSE survey.overall

(* _calculate_optimal_price: 95 % of what competitors take, 13 som without *)
(* any, moved by demand and revenue, and never below three times the       *)
(* electricity.                                                            *)
OptimalPrice_NoFloor(taken, h) ==
  LET target == IF taken > 0 THEN taken * 95 ELSE 130000
  IN Rounded(target * DemandFactor(h.demand) * TrendFactor(h.first, h.second), 10000000)
OptimalPrice(taken, h) ==
  LET target == IF taken > 0 THEN taken * 95 ELSE 130000
  IN Greater(Floor, Rounded(target * DemandFactor(h.demand)
                            * TrendFactor(h.first, h.second), 10000000))

(* _analyze_single_station: the recommendation it saves. *)
Recommendation(s, survey, h) ==
  LET taken == Competitors(s, survey)
      price == OptimalPrice(taken, h)
  IN [station |-> s, price |-> price, night |-> Rounded(price * 8, 10),
      market |-> taken, status |-> "pending"]

(* _get_stations: those that are asked for, at the places that are asked   *)
(* for; nothing asked for is everything.                                   *)
Chosen(ids, places) ==
  {s \in Stations : (ids = {} \/ s \in ids) /\ (places = {} \/ Location[s] \in places)}

Advise(order, survey, histories) ==
  advice \o [i \in DOMAIN order |-> Recommendation(order[i], survey, histories[order[i]])]

(* analyze_batch saves a recommendation for each station. *)
AnalyzeBatch(order, histories) ==
  /\ Rows + Len(order) <= MaxRows
  /\ \E survey \in Surveys : advice' = Advise(order, survey, histories)
  /\ UNCHANGED <<time, plan, rules, station, session, rivals>>

(* auto_optimize, too.  For a station that is 5 % off it then writes a     *)
(* column stations do not have (tariff_per_kwh): the statement fails, the  *)
(* transaction is void, and the stations after it fail with it.            *)
FivePercentOff(s, price) ==
  LET now == station[s].price IN
  now = None \/ now <= 0
    \/ 20 * Greater(10 * price - now, now - 10 * price) >= now

AutoOptimize(order, histories) ==
  /\ Rows + Len(order) <= MaxRows
  /\ \E survey \in Surveys :
       LET price(i) == OptimalPrice(Competitors(order[i], survey), histories[order[i]])
           off == {i \in DOMAIN order : FivePercentOff(order[i], price(i))}
           reached == {i \in DOMAIN order : \A j \in off : i <= j}
       IN advice' = Advise(SubSeq(order, 1, Cardinality(reached)), survey, histories)
  /\ UNCHANGED <<time, plan, rules, station, session, rivals>>

----------------------------------------------------------------------------

TimePasses ==
  /\ time' \in Times \ {time}
  /\ UNCHANGED <<plan, rules, station, session, rivals, advice>>

Clients ==
  \E x \in Sessions :
    \/ \E s \in Stations : StartSession(x, s)
    \/ \E kwh \in Energies :
         StopTransaction(x, kwh) \/ StopByClient(x, kwh) \/ TransactionEnded(x, kwh)

PlanRequests ==
  \E p \in Plans :
    \/ \E d \in BOOLEAN, n \in 0..2 :
         \E written \in [1..n -> Contents] : CreatePlan(p, d, written)
    \/ \E d, a \in BOOLEAN \cup {None} : UpdatePlan(p, d, a)
    \/ DeletePlan(p)
    \/ \E S \in SUBSET Stations : AssignPlan(p, S)
    \/ \E c \in Contents : AddRule(p, c)

RuleRequests ==
  \E i \in DOMAIN rules :
    \/ \E f \in Edits, c \in Contents : UpdateRule(i, f, c)
    \/ \E b \in BOOLEAN : SwitchRule(i, b)
    \/ DeleteRule(i)

PriceRequests ==
  \/ \E s \in Stations, price \in Prices : SetPrice(s, price)
  \/ \E v \in Rivals :
       \/ \E entry \in Entries :
            \/ AddCompetitor(v, entry)
            \/ \E fields \in SUBSET DOMAIN entry : UpdateCompetitor(v, fields, entry)
       \/ DeleteCompetitor(v)
  \/ \E asked \in {Chosen(ids, places) : ids \in SUBSET Stations,
                                          places \in SUBSET Range(Location)} :
       \E order \in SetToSeqs(asked), histories \in [Stations -> Histories] :
         AnalyzeBatch(order, histories) \/ AutoOptimize(order, histories)

Next == TimePasses \/ Clients \/ PlanRequests \/ RuleRequests \/ PriceRequests

Spec == Init /\ [][Next]_vars

----------------------------------------------------------------------------
(* Properties *)

(* A session that its station ends, or corrects after its client has ended *)
(* it, is charged at the rate the client was shown from the start,         *)
(* whatever is done to plans, rules, prices and the clock in between; only *)
(* one that began without a rate by kWh is charged at what holds then.     *)
KeepsItsRate ==
  [][\A x \in Sessions :
       session'[x] # session[x] /\ session'[x].by = "station"
       => \/ session[x].rate = 0
          \/ /\ session'[x].cost = session'[x].kwh * StatusRate(x)
             /\ StatusAmount(x)' = session'[x].cost]_vars

(* At a station with a price of its own and no plan the rate shown to a    *)
(* client is the rate a session would start with, on any day, at any hour: *)
(* two places that each decide whether it is night.                        *)
ShownIsCharged ==
  \A s \in Stations :
    Own(s) /\ station[s].plan = None /\ ClientPricings(time) = {}
    => ShownRates(s, time) = {p.rate : p \in Pricings(s, time)}

(* Two rules of a plan that the overlap check takes to be apart never      *)
(* apply together, but at an hour in which one ends and the other begins,  *)
(* as long as the connector's kind is known and rules that are apart by    *)
(* their days alone are not meant for weekends or for working days.        *)
ApartByHours(r, q) ==
  None \notin {r.from, r.to, q.from, q.to} /\ ~RangesOverlap(r, q)

ApartNeverMeet ==
  Connector.type # None =>
  \A i, j \in DOMAIN rules :
    LET r == rules[i]
        q == rules[j]
        t == time IN
    /\ i # j /\ ~RulesOverlap(r, q) /\ r.plan = q.plan
    /\ (r.weekend = None /\ q.weekend = None) \/ ApartByHours(r, q)
    /\ AppliesTo(r, r.plan, Connector.type, Connector.power, t)
    /\ AppliesTo(q, r.plan, Connector.type, Connector.power, t)
    /\ InRange(t.hour, r.from, r.to) /\ InRange(t.hour, q.from, q.to)
    => t.hour \in {r.from, r.to} \cap {q.from, q.to}

(* No recommendation is below three times the electricity, or further than *)
(* a twelfth above what competitors take, unless that is below the floor.  *)
AdviceInBand ==
  \A i \in DOMAIN advice :
    /\ advice[i].price >= Floor
    /\ advice[i].market > 0 =>
         10 * advice[i].price <= Greater(10 * Floor, (13 * advice[i].market) \div 12 + 10)
=============================================================================
