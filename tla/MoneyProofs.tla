----------------------------- MODULE MoneyProofs -----------------------------
(***************************************************************************)
(* What charging costs and who pays for it, for all constants: the rates   *)
(* of sessions and the advice on prices (Tariffs), and the books of        *)
(* companies (Corporate, here Books).                                      *)
(*                                                                         *)
(* Rates: a session keeps its rate, rules taken to be apart never meet,    *)
(* the rate shown is the rate charged, and advice stays in its band.       *)
(*                                                                         *)
(* Books: the counters that limits are checked against are sums over the   *)
(* ledger.  A refund lowers them to no less than zero; that this floor is  *)
(* never met is what has to be shown, for otherwise a row would say more   *)
(* than the counters.                                                      *)
(*                                                                         *)
(* Both rest on facts about sums, each shown for all lengths from the      *)
(* least one for which it would fail.                                      *)
(***************************************************************************)
EXTENDS Tariffs, CompanyBooks, WellFoundedInduction, FiniteSetTheorems, SequenceTheorems, TLAPS

(* The requests: what Corporate declares besides, but for Sessions and None. *)
CONSTANTS Amounts, Costs, Limits, MaxTopups, MaxEdits, MaxDays
VARIABLES cleared, charging, today, topups, edits

Books == INSTANCE Corporate

(* What Corporate assumes of its constants. *)
BooksAssumption == Books!CorporateAssumption

----------------------------------------------------------------------------
(* Least and greatest *)

(* Of naturals up to n there is a greatest one: the furthest below n is    *)
(* the least of the distances.                                             *)
LEMMA GreatestExists ==
  ASSUME NEW n \in Nat, NEW T, T \subseteq 0..n, T # {}
  PROVE  \E x \in T : \A y \in T : y <= x
<1> DEFINE S == {n - t : t \in T}
<1>1. S \subseteq Nat /\ S # {}
  <2>1. \A t \in T : t \in Nat /\ t <= n /\ n - t \in Nat
    OBVIOUS
  <2>2. PICK t \in T : TRUE
    OBVIOUS
  <2> QED BY <2>1, <2>2
<1>2. PICK x \in S : \A y \in S : ~ (<<y, x>> \in OpToRel(<, Nat))
  BY <1>1, NatLessThanWellFounded, WFMin
<1>3. PICK m \in T : x = n - m
  BY <1>2
<1>4. \A u \in T : u <= m
  <2> TAKE u \in T
  <2>1. n - u \in S /\ n - u \in Nat /\ n - m \in Nat /\ m \in Nat /\ u \in Nat
    BY <1>1
  <2>2. ~ (n - u < n - m)
    BY <1>2, <1>3, <2>1 DEF OpToRel
  <2> QED BY <2>1, <2>2
<1> QED BY <1>4

(* Every natural number is in a set that has 0 and the successors of its   *)
(* members: otherwise there is a least one that is not.                    *)
LEMMA AllNaturals ==
  ASSUME NEW S, 0 \in S, \A n \in Nat : n \in S => n + 1 \in S
  PROVE  \A n \in Nat : n \in S
<1> DEFINE T == {n \in Nat : n \notin S}
<1> SUFFICES ASSUME T # {} PROVE FALSE
  OBVIOUS
<1>1. T \subseteq Nat
  OBVIOUS
<1>2. PICK x \in T : \A y \in T : ~ (<<y, x>> \in OpToRel(<, Nat))
  BY <1>1, NatLessThanWellFounded, WFMin
<1>3. x \in Nat /\ x # 0 /\ x \notin S
  OBVIOUS
<1>4. x - 1 \in Nat /\ x - 1 < x /\ (x - 1) + 1 = x
  BY <1>3
<1>5. x - 1 \in T
  BY <1>3, <1>4
<1> QED BY <1>2, <1>3, <1>4, <1>5 DEF OpToRel

----------------------------------------------------------------------------
(* Sums *)

(* h is the sums of f from nought to n numbers. *)
SumsUpTo(f, n, h) == h = [i \in 0..n |-> IF i = 0 THEN 0 ELSE h[i - 1] + f[i]]

LEMMA SumsExist ==
  ASSUME NEW f
  PROVE  \A n \in Nat : \E h : SumsUpTo(f, n, h)
<1> DEFINE S == {n \in Nat : \E h : SumsUpTo(f, n, h)}
<1>1. 0 \in S
  <2> DEFINE h == [i \in 0..0 |-> 0]
  <2>1. SumsUpTo(f, 0, h)
    BY DEF SumsUpTo
  <2> QED BY <2>1
<1>2. ASSUME NEW n \in Nat, n \in S PROVE n + 1 \in S
  <2>1. PICK h : SumsUpTo(f, n, h)
    BY <1>2
  <2> DEFINE k == [i \in 0..(n + 1) |-> IF i = n + 1 THEN h[n] + f[n + 1] ELSE h[i]]
  <2>2. \A i \in 0..(n + 1) : k[i] = IF i = 0 THEN 0 ELSE k[i - 1] + f[i]
    <3> TAKE i \in 0..(n + 1)
    <3>1. CASE i = 0
      BY <3>1, <2>1 DEF SumsUpTo
    <3>2. CASE i = n + 1
      BY <3>2
    <3>3. CASE i # 0 /\ i # n + 1
      <4>1. i \in 0..n /\ i - 1 \in 0..n /\ i - 1 # n + 1 /\ i - 1 \in 0..(n + 1)
        BY <3>3
      <4>2. h[i] = h[i - 1] + f[i]
        BY <3>3, <4>1, <2>1 DEF SumsUpTo
      <4> QED BY <3>3, <4>1, <4>2
    <3> QED BY <3>1, <3>2, <3>3
  <2> HIDE DEF k
  <2>3. k = [i \in 0..(n + 1) |-> k[i]]
    BY DEF k
  <2>4. SumsUpTo(f, n + 1, k)
    BY <2>2, <2>3, Zenon DEF SumsUpTo
  <2> QED BY <2>4
<1> HIDE DEF S
<1>3. \A n \in Nat : n \in S
  BY <1>1, <1>2, AllNaturals
<1> QED BY <1>3 DEF S

LEMMA SumsAgree ==
  ASSUME NEW f, NEW n \in Nat, NEW m \in Nat, NEW h, NEW k,
         SumsUpTo(f, n, h), SumsUpTo(f, m, k)
  PROVE  \A i \in Nat : i <= n /\ i <= m => h[i] = k[i]
<1> DEFINE S == {i \in Nat : i <= n /\ i <= m => h[i] = k[i]}
<1>1. 0 \in S
  BY DEF SumsUpTo
<1>2. ASSUME NEW i \in Nat, i \in S PROVE i + 1 \in S
  <2> SUFFICES ASSUME i + 1 <= n, i + 1 <= m PROVE h[i + 1] = k[i + 1]
    OBVIOUS
  <2>1. i + 1 \in 0..n /\ i + 1 \in 0..m /\ i + 1 # 0 /\ (i + 1) - 1 = i
    OBVIOUS
  <2>2. h[i + 1] = h[i] + f[i + 1] /\ k[i + 1] = k[i] + f[i + 1]
    BY <2>1 DEF SumsUpTo
  <2>3. h[i] = k[i]
    BY <1>2
  <2> QED BY <2>2, <2>3
<1> HIDE DEF S
<1>3. \A i \in Nat : i \in S
  BY <1>1, <1>2, AllNaturals
<1> QED BY <1>3 DEF S

(* The recursive definition has the value it says. *)
LEMMA TotalSteps ==
  ASSUME NEW f
  PROVE  /\ Total(f, 0) = 0
         /\ \A n \in Nat : Total(f, n + 1) = Total(f, n) + f[n + 1]
<1> DEFINE h(n) == CHOOSE h : SumsUpTo(f, n, h)
           g == [n \in Nat |-> h(n)[n]]
           Is(s) == s = [i \in Nat |-> IF i = 0 THEN 0 ELSE s[i - 1] + f[i]]
<1>1. \A n \in Nat : SumsUpTo(f, n, h(n))
  BY SumsExist
<1> HIDE DEF h
<1>2. \A i \in Nat : g[i] = IF i = 0 THEN 0 ELSE g[i - 1] + f[i]
  <2> TAKE i \in Nat
  <2>1. CASE i = 0
    BY <2>1, <1>1 DEF SumsUpTo
  <2>2. CASE i # 0
    <3>1. i - 1 \in Nat /\ i \in 0..i
      BY <2>2
    <3>2. h(i)[i] = h(i)[i - 1] + f[i]
      BY <1>1, <2>2, <3>1 DEF SumsUpTo
    <3>3. h(i)[i - 1] = h(i - 1)[i - 1]
      BY <1>1, <3>1, SumsAgree
    <3> QED BY <2>2, <3>1, <3>2, <3>3
  <2> QED BY <2>1, <2>2
<1> HIDE DEF g
<1>3. g = [i \in Nat |-> g[i]]
  BY DEF g
<1>4. Is(g)
  BY <1>2, <1>3, Zenon
<1> DEFINE s == CHOOSE s : Is(s)
<1>5. Is(s)
  BY <1>4
<1>6. \A n \in Nat : Total(f, n) = s[n]
  BY DEF Total
<1> HIDE DEF s
<1>7. s[0] = 0
  BY <1>5
<1>8. ASSUME NEW n \in Nat PROVE s[n + 1] = s[n] + f[n + 1]
  BY <1>5
<1> QED BY <1>6, <1>7, <1>8

(* Sums of equal numbers are equal. *)
LEMMA TotalSame ==
  ASSUME NEW f, NEW h, NEW n \in Nat, \A i \in 1..n : f[i] = h[i]
  PROVE  Total(f, n) = Total(h, n)
<1> DEFINE S == {m \in Nat : m <= n => Total(f, m) = Total(h, m)}
<1>1. 0 \in S
  BY TotalSteps
<1>2. ASSUME NEW m \in Nat, m \in S PROVE m + 1 \in S
  <2> SUFFICES ASSUME m + 1 <= n PROVE Total(f, m + 1) = Total(h, m + 1)
    OBVIOUS
  <2>1. m + 1 \in 1..n /\ Total(f, m) = Total(h, m)
    BY <1>2
  <2> QED BY <2>1, TotalSteps
<1> HIDE DEF S
<1>3. \A m \in Nat : m \in S
  BY <1>1, <1>2, AllNaturals
<1> QED BY <1>3 DEF S

(* Sums of integers are integers, and of naturals at least each of them. *)
LEMMA TotalType ==
  ASSUME NEW f, NEW n \in Nat, \A i \in 1..n : f[i] \in Int
  PROVE  Total(f, n) \in Int
<1> DEFINE S == {m \in Nat : m <= n => Total(f, m) \in Int}
<1>1. 0 \in S
  BY TotalSteps
<1>2. ASSUME NEW m \in Nat, m \in S PROVE m + 1 \in S
  <2> SUFFICES ASSUME m + 1 <= n PROVE Total(f, m + 1) \in Int
    OBVIOUS
  <2>1. f[m + 1] \in Int /\ Total(f, m) \in Int
    BY <1>2
  <2> QED BY <2>1, TotalSteps
<1> HIDE DEF S
<1>3. \A m \in Nat : m \in S
  BY <1>1, <1>2, AllNaturals
<1> QED BY <1>3 DEF S

LEMMA TotalBounds ==
  ASSUME NEW f, NEW n \in Nat, \A i \in 1..n : f[i] \in Nat
  PROVE  Total(f, n) \in Nat /\ \A k \in 1..n : f[k] <= Total(f, n)
<1> DEFINE S == {m \in Nat : m <= n => /\ Total(f, m) \in Nat
                                       /\ \A k \in 1..m : f[k] <= Total(f, m)}
<1>1. 0 \in S
  BY TotalSteps
<1>2. ASSUME NEW m \in Nat, m \in S PROVE m + 1 \in S
  <2> SUFFICES ASSUME m + 1 <= n
               PROVE  /\ Total(f, m + 1) \in Nat
                      /\ \A k \in 1..(m + 1) : f[k] <= Total(f, m + 1)
    OBVIOUS
  <2>1. /\ f[m + 1] \in Nat /\ Total(f, m) \in Nat
        /\ \A k \in 1..m : f[k] \in Nat /\ f[k] <= Total(f, m)
    BY <1>2
  <2>2. Total(f, m + 1) = Total(f, m) + f[m + 1]
    BY TotalSteps
  <2> QED BY <2>1, <2>2
<1> HIDE DEF S
<1>3. \A m \in Nat : m \in S
  BY <1>1, <1>2, AllNaturals
<1>4. n \in S
  BY <1>3
<1> QED BY <1>4 DEF S

(* One number of a sum changes. *)
LEMMA TotalShifts ==
  ASSUME NEW f, NEW h, NEW n \in Nat, NEW k \in 1..n,
         \A i \in 1..n : f[i] \in Int /\ h[i] \in Int,
         \A i \in 1..n : i # k => f[i] = h[i]
  PROVE  Total(h, n) = Total(f, n) + h[k] - f[k]
<1> DEFINE S == {m \in Nat : k <= m /\ m <= n => Total(h, m) = Total(f, m) + h[k] - f[k]}
<1>1. 0 \in S
  OBVIOUS
<1>2. ASSUME NEW m \in Nat, m \in S PROVE m + 1 \in S
  <2> SUFFICES ASSUME k <= m + 1, m + 1 <= n
               PROVE  Total(h, m + 1) = Total(f, m + 1) + h[k] - f[k]
    OBVIOUS
  <2>1. /\ Total(f, m + 1) = Total(f, m) + f[m + 1]
        /\ Total(h, m + 1) = Total(h, m) + h[m + 1]
    BY TotalSteps
  <2>2. Total(f, m) \in Int /\ Total(h, m) \in Int
    BY TotalType
  <2>3. f[m + 1] \in Int /\ h[m + 1] \in Int /\ f[k] \in Int /\ h[k] \in Int
    OBVIOUS
  <2>4. CASE k = m + 1
    <3>1. \A i \in 1..m : f[i] = h[i]
      BY <2>4
    <3>2. Total(f, m) = Total(h, m)
      BY <3>1, TotalSame
    <3> QED BY <2>1, <2>2, <2>3, <2>4, <3>2
  <2>5. CASE k # m + 1
    <3>1. Total(h, m) = Total(f, m) + h[k] - f[k] /\ f[m + 1] = h[m + 1]
      BY <1>2, <2>5
    <3> QED BY <2>1, <2>2, <2>3, <3>1
  <2> QED BY <2>4, <2>5
<1> HIDE DEF S
<1>3. \A m \in Nat : m \in S
  BY <1>1, <1>2, AllNaturals
<1> QED BY <1>3 DEF S
----------------------------------------------------------------------------
(* Tariffs: types *)

RuleRows ==
  [plan : Plans, active : BOOLEAN, made : Nat, type : STRING, connector : STRING,
   min : Nat \cup {None}, max : Nat \cup {None}, from : Hours \cup {None},
   to : Hours \cup {None}, days : SUBSET Days \cup {None},
   weekend : BOOLEAN \cup {None}, since : Days \cup {None}, till : Days \cup {None},
   price : Int, priority : Int]
StationRows == [price : Int \cup {None}, plan : Plans \cup {None}]
SessionRows ==
  [status : {"none", "started", "stopped"}, station : Stations \cup {None}, rate : Int,
   reserved : Int, kwh : Nat, cost : Int, by : {None, "station", "client", "ocpp201"}]
AdviceRows ==
  [station : Stations, price : Int, night : Int, market : Int, status : {"pending"}]

InBand(row) ==
  /\ row.price >= Floor
  /\ row.market > 0 =>
       10 * row.price <= Greater(10 * Floor, (13 * row.market) \div 12 + 10)

TariffTypes ==
  /\ time \in Times
  /\ rules \in Seq(RuleRows)
  /\ station \in [Stations -> StationRows]
  /\ session \in [Sessions -> SessionRows]
  /\ rivals \in [Rivals -> CompetitorRows \cup {None}]
  /\ advice \in Seq(AdviceRows)

(* A session that runs has a station and has not been settled; every       *)
(* recommendation is in its band.                                          *)
TariffInv ==
  /\ TariffTypes
  /\ \A x \in Sessions :
       /\ session[x].status # "stopped" => session[x].by = None
       /\ session[x].status # "none" => session[x].station \in Stations
  /\ AdviceInBand

LEMMA RowsOfContents ==
  ASSUME NEW c \in Contents, NEW p \in Plans, NEW n \in Nat
  PROVE  Rule(c, p, n) \in RuleRows
<1>1. c \in Prescriptions
  BY TariffAssumption
<1> QED BY <1>1 DEF Rule, RuleRows, Prescriptions

LEMMA TypesAtFirst == Init => TariffInv
<1> SUFFICES ASSUME Init PROVE TariffInv
  OBVIOUS
<1>1. time \in Times /\ station \in [Stations -> StationRows]
  BY DEF Init, StationRows
<1>2. session \in [Sessions -> SessionRows]
  BY DEF Init, SessionRows
<1>3. rules \in Seq(RuleRows) /\ advice \in Seq(AdviceRows) /\ DOMAIN advice = {}
  BY DEF Init
<1>4. rivals \in [Rivals -> CompetitorRows \cup {None}]
  BY TariffAssumption DEF Init
<1>5. \A x \in Sessions : session[x].status = "none" /\ session[x].by = None
  BY DEF Init
<1> QED BY <1>1, <1>2, <1>3, <1>4, <1>5 DEF TariffInv, TariffTypes, AdviceInBand

----------------------------------------------------------------------------
(* Rates are numbers *)

Pricing == [rate : Int, minute : Int, fee : Int]

LEMMA DiscountType ==
  ASSUME NEW rate \in Int, NEW hour
  PROVE  Discounted(rate) \in Int /\ EffectiveRate(rate, hour) \in Int
BY DEF Discounted, EffectiveRate

LEMMA RulePricingType ==
  ASSUME NEW r \in RuleRows, NEW hour
  PROVE  PricingFromRule(r, hour) \in Pricing
<1>1. r.price \in Int /\ Discounted(r.price) \in Int
  BY DiscountType DEF RuleRows
<1> QED BY <1>1 DEF PricingFromRule, Pricing

LEMMA CutType ==
  ASSUME NEW pricing \in Pricing, NEW percent \in Int
  PROVE  Cut(pricing, percent) \in Pricing
<1> DEFINE a == pricing.rate
           b == pricing.minute
<1>1. a \in Int /\ b \in Int /\ 100 - percent \in Int
  BY DEF Pricing
<1>2. a * (100 - percent) \in Int /\ b * (100 - percent) \in Int
  BY <1>1
<1>3. \A n \in Int : n \div 100 \in Int
  OBVIOUS
<1>4. (a * (100 - percent)) \div 100 \in Int /\ (b * (100 - percent)) \div 100 \in Int
  BY <1>2, <1>3
<1>5. Cut(pricing, percent) =
        [pricing EXCEPT !.rate = (a * (100 - percent)) \div 100,
                        !.minute = (b * (100 - percent)) \div 100]
  BY DEF Cut
<1> QED BY <1>4, <1>5 DEF Pricing

LEMMA ApplicableRows ==
  ASSUME TariffTypes, NEW p, NEW type, NEW power, NEW t,
         NEW r \in Applicable(p, type, power, t)
  PROVE  r \in RuleRows
BY DEF TariffTypes, Applicable

LEMMA PricingsType ==
  ASSUME TariffTypes, NEW s \in Stations, NEW t, NEW pricing \in Pricings(s, t)
  PROVE  pricing \in Pricing
<1> DEFINE R == IF station[s].plan = None THEN {}
                ELSE Applicable(station[s].plan, Connector.type, Connector.power, t)
<1>1. CASE pricing \in ClientPricings(t)
  <2>1. CASE ClientTariff.fixed \notin {None, 0} /\ ClientTariff # None
    <3>1. ClientTariff.fixed \in Int
      BY <2>1, NullAssumption
    <3> QED BY <1>1, <2>1, <3>1 DEF ClientPricings, Pricing
  <2>2. CASE ~(ClientTariff.fixed \notin {None, 0} /\ ClientTariff # None)
    <3>1. PICK r \in Applicable(ClientTariff.plan, None, 0, t) :
            /\ ClientTariff # None
            /\ pricing = Cut(PricingFromRule(r, t.hour), ClientTariff.discount)
      BY <1>1, <2>2 DEF ClientPricings
    <3>2. ClientTariff.discount \in Int
      BY <3>1, NullAssumption
    <3>3. PricingFromRule(r, t.hour) \in Pricing
      BY ApplicableRows, RulePricingType
    <3> QED BY <3>1, <3>2, <3>3, CutType
  <2> QED BY <2>1, <2>2
<1>2. CASE Own(s) /\ pricing = StationPricing(s, t.hour)
  <2>1. station[s].price \in Int
    BY <1>2 DEF TariffTypes, StationRows, Own, Priced
  <2>2. EffectiveRate(station[s].price, t.hour) \in Int
    BY <2>1, DiscountType
  <2>3. Fee[s] \in Int
    BY TariffAssumption
  <2> QED BY <1>2, <2>2, <2>3 DEF StationPricing, Pricing
<1>3. CASE \E r \in R : pricing = PricingFromRule(r, t.hour)
  <2>1. PICK r \in R : pricing = PricingFromRule(r, t.hour)
    BY <1>3
  <2>2. r \in Applicable(station[s].plan, Connector.type, Connector.power, t)
    BY <2>1
  <2>3. r \in RuleRows
    BY <2>2, ApplicableRows
  <2> QED BY <2>1, <2>3, RulePricingType
<1>4. CASE pricing = DefaultPricing(t.hour)
  <2>1. EffectiveRate(DefaultRate, Bishkek(t.hour)) \in Int
    BY DiscountType DEF DefaultRate
  <2> QED BY <1>4, <2>1 DEF DefaultPricing, Pricing
<1> QED BY <1>1, <1>2, <1>3, <1>4 DEF Pricings

LEMMA LesserType ==
  ASSUME NEW a \in Int, NEW b \in Int
  PROVE  Lesser(a, b) \in Int
BY DEF Lesser

LEMMA PromoType ==
  ASSUME NEW amount \in Int
  PROVE  PromoDiscount(amount) \in Int
<1>1. CASE Promo = None
  BY <1>1 DEF PromoDiscount
<1>2. CASE Promo # None
  <2>1. /\ Promo.percent \in Int \cup {None} /\ Promo.value \in Int
        /\ Promo.most \in Int /\ Promo.least \in Int
    BY <1>2, NullAssumption
  <2>2. Promo.percent # None => amount * Promo.percent \in Int
    BY <2>1
  <2>3. \A n \in Int : n \div 100 \in Int
    OBVIOUS
  <2>4. Promo.percent # None => (amount * Promo.percent) \div 100 \in Int
    BY <2>2, <2>3
  <2>5. Promo.percent # None => Lesser((amount * Promo.percent) \div 100, Promo.most) \in Int
    <3> SUFFICES ASSUME Promo.percent # None
                 PROVE  Lesser((amount * Promo.percent) \div 100, Promo.most) \in Int
      OBVIOUS
    <3> DEFINE part == (amount * Promo.percent) \div 100
    <3>1. part \in Int /\ Promo.most \in Int
      BY <2>1, <2>4
    <3> HIDE DEF part
    <3>2. Lesser(part, Promo.most) \in Int
      BY <3>1, LesserType
    <3> QED BY <3>2 DEF part
  <2>6. Lesser(Promo.value, amount) \in Int
    BY <2>1 DEF Lesser
  <2>7. CASE Promo.least # 0 /\ amount < Promo.least
    BY <2>7 DEF PromoDiscount
  <2>8. CASE ~(Promo.least # 0 /\ amount < Promo.least) /\ Promo.percent # None
    <3> DEFINE part == (amount * Promo.percent) \div 100
               capped == Lesser(part, Promo.most)
    <3>1. part \in Int /\ capped \in Int
      BY <2>4, <2>5, <2>8
    <3>2. PromoDiscount(amount) = IF Promo.most = 0 THEN part ELSE capped
      BY <1>2, <2>8 DEF PromoDiscount
    <3> HIDE DEF part, capped
    <3> QED BY <3>1, <3>2
  <2>9. CASE ~(Promo.least # 0 /\ amount < Promo.least) /\ Promo.percent = None
    BY <1>2, <2>6, <2>9 DEF PromoDiscount
  <2> QED BY <2>7, <2>8, <2>9
<1> QED BY <1>1, <1>2

LEMMA ReservationType ==
  ASSUME NEW request \in Requests, NEW pricing \in Pricing
  PROVE  Reservation(request, pricing) \in Int \cup {None}
<1> DEFINE cost == SessionCost(request.kwh, pricing)
           full == request.kwh * pricing.rate + 60 * Positive(pricing.minute) + pricing.fee
           part(x) == (x * 95) \div 100
<1>1. request.kwh \in Int /\ request.amount \in Int /\ Balance \in Int
  BY TariffAssumption
<1>2. cost \in Int /\ full \in Int
  <2>1. pricing.rate \in Int /\ pricing.minute \in Int /\ pricing.fee \in Int
    BY DEF Pricing
  <2>2. \A n \in Int : Positive(n) \in Int
    BY DEF Positive
  <2>3. /\ Positive(pricing.rate) \in Int /\ Positive(pricing.minute) \in Int
        /\ Positive(pricing.fee) \in Int
    BY <2>1, <2>2
  <2>4. request.kwh * Positive(pricing.rate) \in Int /\ request.kwh * pricing.rate \in Int
    BY <1>1, <2>1, <2>3
  <2> QED BY <1>1, <2>1, <2>3, <2>4 DEF SessionCost
<1>3. PromoDiscount(cost) \in Int
  BY <1>2, PromoType
<1> HIDE DEF cost, full
<1>4. \A n \in Int : part(n) \in Int
  OBVIOUS
<1>5. Lesser(cost - PromoDiscount(cost), request.amount) \in Int /\ Lesser(20000, Balance) \in Int
  BY <1>1, <1>2, <1>3 DEF Lesser
<1> DEFINE wanted ==
        IF request.kwh > 0 /\ request.amount > 0
        THEN part(Lesser(cost - PromoDiscount(cost), request.amount))
        ELSE IF request.amount > 0
        THEN IF request.amount > Balance THEN None ELSE part(request.amount)
        ELSE IF request.kwh > 0 THEN part(full)
        ELSE IF Lesser(20000, Balance) < 1000 THEN None ELSE Lesser(20000, Balance)
<1>6. wanted \in Int \cup {None}
  BY <1>1, <1>2, <1>4, <1>5
<1>7. Reservation(request, pricing) =
         IF wanted = None \/ Balance < wanted THEN None ELSE wanted
  BY DEF Reservation, cost, full
<1> HIDE DEF wanted
<1> QED BY <1>1, <1>6, <1>7

----------------------------------------------------------------------------
(* The advice stays in its band *)

LEMMA MeanType ==
  ASSUME TariffTypes, NEW S, S \subseteq Competing, S # {}
  PROVE  Mean(S) \in Int
<1> DEFINE row == SetToSeq(S)
           f == [i \in DOMAIN row |-> rivals[row[i]].price]
           n == Cardinality(S)
<1>1. IsFiniteSet(S)
  BY TariffAssumption, FS_Subset DEF Competing
<1>2. n \in Nat /\ n # 0 /\ ExistsBijection(1..n, S)
  BY <1>1, FS_CardinalityType, FS_EmptySet
<1>3. \E g \in [1..n -> S] : IsInjective(g)
  BY <1>2 DEF ExistsBijection, Bijection, Injection, IsInjective
<1>4. row \in [1..n -> S]
  BY <1>3 DEF SetToSeq
<1> HIDE DEF row, n
<1>5. Len(row) = n /\ DOMAIN row = 1..n
  BY <1>2, <1>4
<1>6. \A i \in 1..n : f[i] \in Int
  <2> TAKE i \in 1..n
  <2>1. row[i] \in Competing
    BY <1>4
  <2>2. rivals[row[i]] \in CompetitorRows
    BY <2>1 DEF TariffTypes, Competing
  <2> QED BY <1>5, <2>2 DEF CompetitorRows
<1> HIDE DEF f
<1>7. Total(f, n) \in Int
  BY <1>2, <1>6, TotalType
<1>8. Mean(S) = Rounded(Total(f, n), n)
  BY <1>5 DEF Mean, f, row, n
<1> DEFINE t == Total(f, n)
<1>9. t \in Int /\ (n - 1) \div 2 \in Int
  BY <1>2, <1>7
<1> HIDE DEF t
<1>10. (t + (n - 1) \div 2) \div n \in Int
  BY <1>2, <1>9
<1> QED BY <1>8, <1>10 DEF Rounded, t

LEMMA SurveysType ==
  ASSUME TariffTypes, NEW survey \in Surveys, NEW s
  PROVE  Competitors(s, survey) \in Int
<1> DEFINE L == {v \in Competing : rivals[v].currency = "KGS"}
           of(type) == {v \in L : rivals[v].type = type}
           means(kind) ==
             LET spelt == {t \in DOMAIN Lower : Lower[t] = kind /\ of(t) # {}}
             IN  IF spelt = {} THEN {0} ELSE {Mean(of(t)) : t \in spelt}
<1>1. \A t : of(t) \subseteq Competing /\ L \subseteq Competing
  OBVIOUS
<1>2. \A kind : \A m \in means(kind) : m \in Int
  BY <1>1, MeanType
<1>3. (IF L = {} THEN 0 ELSE Mean(L)) \in Int
  BY <1>1, MeanType
<1>4. survey \in [dc : means("dc"), ac : means("ac"), overall : {IF L = {} THEN 0 ELSE Mean(L)}]
  BY DEF Surveys
<1> HIDE DEF L, means
<1>5. survey.dc \in Int /\ survey.ac \in Int /\ survey.overall \in Int
  BY <1>2, <1>3, <1>4
<1>6. Kind(s) \in {"dc", "ac"}
  BY DEF Kind
<1> QED BY <1>5, <1>6 DEF Competitors

(* The nine products of a factor of demand and one of revenue. *)
LEMMA AdviceIsInBand ==
  ASSUME NEW taken \in Int, NEW h
  PROVE  /\ OptimalPrice(taken, h) \in Int
         /\ OptimalPrice(taken, h) >= Floor
         /\ taken > 0 =>
              10 * OptimalPrice(taken, h) <= Greater(10 * Floor, (13 * taken) \div 12 + 10)
<1> DEFINE d == DemandFactor(h.demand)
           r == TrendFactor(h.first, h.second)
           target == IF taken > 0 THEN taken * 95 ELSE 130000
           moved == Rounded(target * d * r, 10000000)
<1>1. d \in {92, 100, 110}
  BY DEF DemandFactor
<1>2. r \in {95, 100, 103}
  BY DEF TrendFactor
<1>3. OptimalPrice(taken, h) = Greater(Floor, moved)
  BY DEF OptimalPrice
<1> HIDE DEF d, r
<1>4. target \in Int
  OBVIOUS
<1>5. moved = (target * d * r + 4999999) \div 10000000
  BY <1>1, <1>2, <1>4 DEF Rounded
<1>6. moved \in Int
  <2>1. target * d * r \in Int
    BY <1>1, <1>2, <1>4
  <2> QED BY <1>5, <2>1
<1>7. taken > 0 => 10 * moved <= (13 * taken) \div 12 + 10
  <2> SUFFICES ASSUME taken > 0 PROVE 10 * moved <= (13 * taken) \div 12 + 10
    OBVIOUS
  <2>1. target = taken * 95
    OBVIOUS
  <2> HIDE DEF target, moved
  <2>2. target * d * r <= 1076350 * taken /\ target * d * r \in Int
    <3>1. CASE d = 92 /\ r = 95
      BY <2>1, <3>1
    <3>2. CASE d = 92 /\ r = 100
      BY <2>1, <3>2
    <3>3. CASE d = 92 /\ r = 103
      BY <2>1, <3>3
    <3>4. CASE d = 100 /\ r = 95
      BY <2>1, <3>4
    <3>5. CASE d = 100 /\ r = 100
      BY <2>1, <3>5
    <3>6. CASE d = 100 /\ r = 103
      BY <2>1, <3>6
    <3>7. CASE d = 110 /\ r = 95
      BY <2>1, <3>7
    <3>8. CASE d = 110 /\ r = 100
      BY <2>1, <3>8
    <3>9. CASE d = 110 /\ r = 103
      BY <2>1, <3>9
    <3> QED BY <1>1, <1>2, <3>1, <3>2, <3>3, <3>4, <3>5, <3>6, <3>7, <3>8, <3>9
  <2>3. ASSUME NEW x \in Int, x <= 1076350 * taken
        PROVE  10 * ((x + 4999999) \div 10000000) <= (13 * taken) \div 12 + 10
    BY <2>3
  <2> QED BY <1>5, <2>2, <2>3
<1> HIDE DEF moved
<1>8. (13 * taken) \div 12 \in Int
  OBVIOUS
<1> QED BY <1>3, <1>6, <1>7, <1>8 DEF Greater, Floor

LEMMA RecommendationInBand ==
  ASSUME TariffTypes, NEW s \in Stations, NEW survey \in Surveys, NEW h
  PROVE  Recommendation(s, survey, h) \in AdviceRows /\ InBand(Recommendation(s, survey, h))
<1> DEFINE taken == Competitors(s, survey)
           price == OptimalPrice(taken, h)
           night == Rounded(price * 8, 10)
<1>1. taken \in Int
  BY SurveysType
<1> HIDE DEF taken
<1>2. /\ price \in Int /\ price >= Floor
      /\ taken > 0 => 10 * price <= Greater(10 * Floor, (13 * taken) \div 12 + 10)
  BY <1>1, AdviceIsInBand
<1> HIDE DEF price
<1>3. night \in Int
  BY <1>2 DEF Rounded
<1> HIDE DEF night
<1>4. Recommendation(s, survey, h) =
        [station |-> s, price |-> price, night |-> night, market |-> taken,
         status |-> "pending"]
  BY DEF Recommendation, taken, price, night
<1> QED BY <1>1, <1>2, <1>3, <1>4 DEF AdviceRows, InBand

LEMMA AdviseKeeps ==
  ASSUME TariffInv, NEW order \in Seq(Stations), NEW survey \in Surveys, NEW histories,
         advice' = Advise(order, survey, histories)
  PROVE  advice' \in Seq(AdviceRows) /\ AdviceInBand'
<1> DEFINE new == [i \in DOMAIN order |->
                     Recommendation(order[i], survey, histories[order[i]])]
<1>1. \A i \in DOMAIN order : new[i] \in AdviceRows /\ InBand(new[i])
  <2> TAKE i \in DOMAIN order
  <2>1. order[i] \in Stations
    OBVIOUS
  <2> QED BY <2>1, RecommendationInBand DEF TariffInv
<1>2. DOMAIN order = 1..Len(order) /\ Len(order) \in Nat
  OBVIOUS
<1> HIDE DEF new
<1>3. new = [i \in 1..Len(order) |-> new[i]]
  BY <1>2 DEF new
<1>4. new \in Seq(AdviceRows) /\ DOMAIN new = 1..Len(order) /\ Len(new) = Len(order)
  BY <1>1, <1>2, <1>3
<1>5. advice' = advice \o new
  BY DEF Advise, new
<1>6. advice \in Seq(AdviceRows)
  BY DEF TariffInv, TariffTypes
<1>7. /\ advice' \in Seq(AdviceRows) /\ Len(advice') = Len(advice) + Len(new)
      /\ \A i \in 1..(Len(advice) + Len(new)) :
           advice'[i] = IF i <= Len(advice) THEN advice[i] ELSE new[i - Len(advice)]
  <2>1. /\ advice \o new \in Seq(AdviceRows)
        /\ Len(advice \o new) = Len(advice) + Len(new)
        /\ \A i \in 1..(Len(advice) + Len(new)) :
             (advice \o new)[i] = IF i <= Len(advice) THEN advice[i] ELSE new[i - Len(advice)]
    BY <1>4, <1>6, ConcatProperties, Zenon
  <2> QED BY <1>5, <2>1, Zenon
<1>8. ASSUME NEW i \in DOMAIN advice' PROVE InBand(advice'[i])
  <2>1. i \in 1..(Len(advice) + Len(new)) /\ Len(advice) \in Nat /\ Len(new) \in Nat
    BY <1>4, <1>6, <1>7
  <2>2. CASE i <= Len(advice)
    <3>1. i \in DOMAIN advice
      BY <1>6, <2>1, <2>2
    <3>2. InBand(advice[i])
      BY <3>1 DEF TariffInv, AdviceInBand, InBand
    <3> QED BY <1>7, <2>1, <2>2, <3>2
  <2>3. CASE ~(i <= Len(advice))
    <3>1. i - Len(advice) \in DOMAIN order
      BY <1>2, <1>4, <2>1, <2>3
    <3> QED BY <1>1, <1>7, <2>1, <2>3, <3>1
  <2> QED BY <2>2, <2>3
<1> QED BY <1>7, <1>8 DEF AdviceInBand, InBand

----------------------------------------------------------------------------
(* Tariffs: the steps *)

LEMMA TimeKeepsTariffs ==
  ASSUME TariffInv, TimePasses
  PROVE  TariffInv'
<1>1. time' \in Times /\ UNCHANGED <<rules, station, session, rivals, advice>>
  BY DEF TimePasses
<1> QED BY <1>1 DEF TariffInv, TariffTypes, AdviceInBand

(* What a step does to one session and to nothing else. *)
LEMMA OneSessionChanges ==
  ASSUME TariffInv, NEW x \in Sessions, NEW row \in SessionRows,
         session' = [session EXCEPT ![x] = row],
         row.status # "stopped" => row.by = None,
         row.status # "none" => row.station \in Stations,
         UNCHANGED <<time, plan, rules, station, rivals, advice>>
  PROVE  TariffInv'
<1>1. session' \in [Sessions -> SessionRows]
  BY DEF TariffInv, TariffTypes
<1>2. \A y \in Sessions :
        /\ session'[y].status # "stopped" => session'[y].by = None
        /\ session'[y].status # "none" => session'[y].station \in Stations
  BY DEF TariffInv, TariffTypes
<1> QED BY <1>1, <1>2 DEF TariffInv, TariffTypes, AdviceInBand

LEMMA StartKeepsTariffs ==
  ASSUME TariffInv, NEW x \in Sessions, NEW s \in Stations, StartSession(x, s)
  PROVE  TariffInv'
<1>1. PICK request \in Requests, pricing \in Pricings(s, time) :
        /\ Reservation(request, pricing) # None
        /\ session' = [session EXCEPT
            ![x].status = "started", ![x].station = s, ![x].rate = pricing.rate,
            ![x].reserved = Reservation(request, pricing)]
  BY DEF StartSession
<1>2. pricing \in Pricing
  BY PricingsType DEF TariffInv
<1>3. pricing.rate \in Int /\ Reservation(request, pricing) \in Int
  BY <1>1, <1>2, ReservationType DEF Pricing
<1>4. /\ session[x].status = "none"
      /\ UNCHANGED <<time, plan, rules, station, rivals, advice>>
  BY DEF StartSession
<1>5. /\ session \in [Sessions -> SessionRows] /\ session[x] \in SessionRows
      /\ session[x].by = None
  BY <1>4 DEF TariffInv, TariffTypes
<1> DEFINE row == [session[x] EXCEPT !.status = "started", !.station = s,
                     !.rate = pricing.rate, !.reserved = Reservation(request, pricing)]
<1>6. row \in SessionRows /\ row.by = None /\ row.station \in Stations
  BY <1>3, <1>5 DEF SessionRows
<1>7. session' = [session EXCEPT ![x] = row]
  BY <1>1, <1>5
<1> HIDE DEF row
<1> QED BY <1>4, <1>6, <1>7, OneSessionChanges

LEMMA SettleKeepsTariffs ==
  ASSUME TariffInv, NEW x \in Sessions, NEW kwh \in Energies, NEW rate \in Int,
         NEW by \in {"station", "client", "ocpp201"}, Settle(x, kwh, rate, by),
         session[x].station \in Stations
  PROVE  TariffInv'
<1>1. session \in [Sessions -> SessionRows] /\ session[x] \in SessionRows
  BY DEF TariffInv, TariffTypes
<1>2. kwh \in Nat /\ kwh * rate \in Int
  BY TariffAssumption
<1> DEFINE row == [session[x] EXCEPT !.status = "stopped", !.kwh = kwh,
                     !.cost = kwh * rate, !.by = by]
<1>3. row \in SessionRows /\ row.status = "stopped" /\ row.station \in Stations
  BY <1>1, <1>2 DEF SessionRows
<1>4. session' = [session EXCEPT ![x] = row]
  BY <1>1 DEF Settle
<1>5. UNCHANGED <<time, plan, rules, station, rivals, advice>>
  BY DEF Settle
<1> HIDE DEF row
<1> QED BY <1>3, <1>4, <1>5, OneSessionChanges

LEMMA BaseType ==
  ASSUME TariffTypes, NEW s \in Stations, NEW default \in Int
  PROVE  Base(s, default) \in Int
BY DEF TariffTypes, StationRows, Priced, Base

(* Whoever settles a session: its rate is a price of a station or of a     *)
(* rule, or a default.                                                     *)
LEMMA StopsKeepTariffs ==
  ASSUME TariffInv, NEW x \in Sessions, NEW kwh \in Energies,
         StopTransaction(x, kwh) \/ StopByClient(x, kwh) \/ TransactionEnded(x, kwh)
  PROVE  TariffInv'
<1>1. /\ session[x].station \in Stations
      /\ session[x].rate \in Int /\ TariffTypes
  <2>1. session[x].status # "none"
    BY NullAssumption
       DEF StopTransaction, StopByClient, TransactionEnded, Running, TariffInv
  <2> QED BY <2>1 DEF TariffInv, TariffTypes, SessionRows
<1>2. CASE StopTransaction(x, kwh)
  <2>1. Base(session[x].station, DefaultRate) \in Int
    BY <1>1, BaseType DEF DefaultRate
  <2>2. RateAtStop(x) \in Int
    BY <1>1, <2>1, DiscountType DEF RateAtStop
  <2> QED BY <1>1, <1>2, <2>2, SettleKeepsTariffs DEF StopTransaction
<1>3. CASE StopByClient(x, kwh)
  <2>1. PICK rate \in RatesByClient(x) : Settle(x, kwh, rate, "client")
    BY <1>3 DEF StopByClient
  <2> DEFINE s == session[x].station
             K == {i \in DOMAIN rules : rules[i].plan = station[s].plan
                                        /\ rules[i].active /\ rules[i].type = "per_kwh"}
  <2>2. rate \in Int
    <3>1. CASE Priced(s) /\ rate = station[s].price
      BY <1>1, <3>1 DEF Priced, TariffTypes, StationRows
    <3>2. CASE rate = DefaultRate
      BY <3>2 DEF DefaultRate
    <3>3. CASE \E i \in K : rate = rules[i].price
      <4>1. PICK i \in DOMAIN rules : rate = rules[i].price
        BY <3>3
      <4>2. rules[i] \in RuleRows
        BY <1>1 DEF TariffTypes
      <4> QED BY <4>1, <4>2 DEF RuleRows
    <3> QED BY <2>1, <3>1, <3>2, <3>3 DEF RatesByClient
  <2> QED BY <1>1, <2>1, <2>2, SettleKeepsTariffs
<1>4. CASE TransactionEnded(x, kwh)
  <2>1. Base(session[x].station, DefaultRate201) \in Int
    BY <1>1, BaseType DEF DefaultRate201
  <2>2. RateAtEnded(x) \in Int
    BY <2>1, DiscountType DEF RateAtEnded
  <2> QED BY <1>1, <1>4, <2>2, SettleKeepsTariffs DEF TransactionEnded
<1> QED BY <1>2, <1>3, <1>4

(* What a step does to the tables of the tariffs and to no session. *)
LEMMA TablesChange ==
  ASSUME TariffInv, UNCHANGED <<time, session, advice>>,
         rules' \in Seq(RuleRows), station' \in [Stations -> StationRows],
         rivals' \in [Rivals -> CompetitorRows \cup {None}]
  PROVE  TariffInv'
BY DEF TariffInv, TariffTypes, AdviceInBand

LEMMA PlansKeepTariffs ==
  ASSUME TariffInv, PlanRequests
  PROVE  TariffInv'
<1>1. /\ rules \in Seq(RuleRows) /\ station \in [Stations -> StationRows]
      /\ rivals \in [Rivals -> CompetitorRows \cup {None}] /\ Len(rules) \in Nat
  BY DEF TariffInv, TariffTypes
<1>2. ASSUME NEW p \in Plans, NEW d \in BOOLEAN, NEW n \in 0..2,
             NEW written \in [1..n -> Contents], CreatePlan(p, d, written)
      PROVE  TariffInv'
  <2> DEFINE new == [i \in DOMAIN written |-> Rule(written[i], p, Len(rules))]
  <2>1. \A i \in 1..n : new[i] \in RuleRows
    BY <1>1, RowsOfContents
  <2>2. new \in Seq(RuleRows)
    <3>1. new = [i \in 1..n |-> new[i]] /\ n \in Nat
      OBVIOUS
    <3> HIDE DEF new
    <3> QED BY <2>1, <3>1
  <2>3. rules' = rules \o new /\ UNCHANGED <<time, station, session, rivals, advice>>
    BY <1>2 DEF CreatePlan
  <2> HIDE DEF new
  <2>4. rules' \in Seq(RuleRows)
    BY <1>1, <2>2, <2>3
  <2> QED BY <1>1, <2>3, <2>4, TablesChange
<1>3. ASSUME NEW p \in Plans, NEW d \in BOOLEAN \cup {None}, NEW a \in BOOLEAN \cup {None},
             UpdatePlan(p, d, a) \/ DeletePlan(p)
      PROVE  TariffInv'
  <2>1. UNCHANGED <<time, rules, station, session, rivals, advice>>
    BY <1>3 DEF UpdatePlan, DeletePlan
  <2> QED BY <1>1, <2>1, TablesChange
<1>4. ASSUME NEW p \in Plans, NEW S \in SUBSET Stations, AssignPlan(p, S) PROVE TariffInv'
  <2>1. station' \in [Stations -> StationRows]
    BY <1>1, <1>4 DEF AssignPlan, StationRows
  <2>2. UNCHANGED <<time, plan, rules, session, rivals, advice>>
    BY <1>4 DEF AssignPlan
  <2> QED BY <1>1, <2>1, <2>2, TablesChange
<1>5. ASSUME NEW p \in Plans, NEW c \in Contents, AddRule(p, c) PROVE TariffInv'
  <2>1. Rule(c, p, Len(rules)) \in RuleRows
    BY <1>1, RowsOfContents
  <2>2. /\ rules' = Append(rules, Rule(c, p, Len(rules)))
        /\ UNCHANGED <<time, plan, station, session, rivals, advice>>
    BY <1>5 DEF AddRule
  <2>3. rules' \in Seq(RuleRows)
    BY <1>1, <2>1, <2>2
  <2> QED BY <1>1, <2>2, <2>3, TablesChange
<1>6. \A p \in Plans : DeletePlan(p) => TariffInv'
  BY <1>3
<1> QED BY <1>2, <1>3, <1>4, <1>5, <1>6 DEF PlanRequests

(* A field that is written over keeps its kind. *)
LEMMA FieldChanges ==
  ASSUME NEW r \in RuleRows, NEW c \in Prescriptions, NEW f \in Fields
  PROVE  [r EXCEPT ![f] = c[f]] \in RuleRows
<1>1. CASE f \in {"type", "connector"}
  BY <1>1 DEF RuleRows, Prescriptions
<1>2. CASE f \in {"min", "max"}
  BY <1>2 DEF RuleRows, Prescriptions
<1>3. CASE f \in {"from", "to"}
  BY <1>3 DEF RuleRows, Prescriptions
<1>4. CASE f \in {"weekend", "days"}
  BY <1>4 DEF RuleRows, Prescriptions
<1>5. CASE f \in {"price", "priority"}
  BY <1>5 DEF RuleRows, Prescriptions
<1> QED BY <1>1, <1>2, <1>3, <1>4, <1>5 DEF Fields

LEMMA RulesKeepTariffs ==
  ASSUME TariffInv, RuleRequests
  PROVE  TariffInv'
<1>1. /\ rules \in Seq(RuleRows) /\ station \in [Stations -> StationRows]
      /\ rivals \in [Rivals -> CompetitorRows \cup {None}]
  BY DEF TariffInv, TariffTypes
<1>2. ASSUME NEW i \in DOMAIN rules, NEW row \in RuleRows,
             rules' = [rules EXCEPT ![i] = row],
             UNCHANGED <<time, plan, station, session, rivals, advice>>
      PROVE  TariffInv'
  <2>1. rules' \in Seq(RuleRows)
    BY <1>1, <1>2
  <2> QED BY <1>1, <1>2, <2>1, TablesChange
<1>3. ASSUME NEW i \in DOMAIN rules, NEW f \in Edits, NEW c \in Contents, UpdateRule(i, f, c)
      PROVE  TariffInv'
  <2>1. f \in Fields /\ c \in Prescriptions
    BY TariffAssumption
  <2>2. rules[i] \in RuleRows
    BY <1>1
  <2>3. [rules[i] EXCEPT ![f] = c[f]] \in RuleRows
    BY <2>1, <2>2, FieldChanges
  <2>4. /\ rules' = [rules EXCEPT ![i] = [rules[i] EXCEPT ![f] = c[f]]]
        /\ UNCHANGED <<time, plan, station, session, rivals, advice>>
    BY <1>3 DEF UpdateRule
  <2> QED BY <1>2, <2>3, <2>4
<1>4. ASSUME NEW i \in DOMAIN rules, NEW b \in BOOLEAN, SwitchRule(i, b) PROVE TariffInv'
  <2>1. rules[i] \in RuleRows
    BY <1>1
  <2>2. [rules[i] EXCEPT !.active = b] \in RuleRows
    BY <2>1 DEF RuleRows
  <2>3. /\ rules' = [rules EXCEPT ![i] = [rules[i] EXCEPT !.active = b]]
        /\ UNCHANGED <<time, plan, station, session, rivals, advice>>
    BY <1>4 DEF SwitchRule
  <2> QED BY <1>2, <2>2, <2>3
<1> QED BY <1>3, <1>4 DEF RuleRequests, DeleteRule

LEMMA OrdersAreSequences ==
  ASSUME NEW asked, asked \subseteq Stations, NEW order \in SetToSeqs(asked)
  PROVE  order \in Seq(Stations)
<1>1. IsFiniteSet(asked)
  BY TariffAssumption, FS_Subset
<1>2. Cardinality(asked) \in Nat
  BY <1>1, FS_CardinalityType
<1>3. order \in [1..Cardinality(asked) -> asked]
  BY DEF SetToSeqs
<1> QED BY <1>2, <1>3

LEMMA AnalysisKeepsTariffs ==
  ASSUME TariffInv, NEW asked, asked \subseteq Stations, NEW order \in SetToSeqs(asked),
         NEW histories, AnalyzeBatch(order, histories) \/ AutoOptimize(order, histories)
  PROVE  TariffInv'
<1>1. order \in Seq(Stations)
  BY OrdersAreSequences
<1>2. UNCHANGED <<time, plan, rules, station, session, rivals>>
  BY DEF AnalyzeBatch, AutoOptimize
<1>3. \E part \in Seq(Stations), survey \in Surveys : advice' = Advise(part, survey, histories)
  <2>1. CASE AnalyzeBatch(order, histories)
    BY <1>1, <2>1 DEF AnalyzeBatch
  <2>2. CASE AutoOptimize(order, histories)
    <3>1. PICK survey \in Surveys, reached \in SUBSET DOMAIN order :
            advice' = Advise(SubSeq(order, 1, Cardinality(reached)), survey, histories)
      BY <2>2 DEF AutoOptimize
    <3>2. /\ DOMAIN order = 1..Len(order) /\ Len(order) \in Nat
          /\ IsFiniteSet(1..Len(order)) /\ Cardinality(1..Len(order)) = Len(order)
      <4>1. DOMAIN order = 1..Len(order) /\ Len(order) \in Nat
        BY <1>1
      <4> DEFINE n == Len(order)
      <4>2. n \in Nat /\ 1 \in Int /\ n \in Int
        BY <4>1
      <4> HIDE DEF n
      <4>3. IsFiniteSet(1..n) /\ Cardinality(1..n) = IF 1 > n THEN 0 ELSE n - 1 + 1
        BY <4>2, FS_Interval
      <4>4. IsFiniteSet(1..n) /\ Cardinality(1..n) = n
        BY <4>2, <4>3
      <4> QED BY <4>1, <4>4 DEF n
    <3>3. Cardinality(reached) \in Nat /\ Cardinality(reached) <= Len(order)
      BY <3>2, FS_Subset, FS_CardinalityType
    <3>4. SubSeq(order, 1, Cardinality(reached)) \in Seq(Stations)
      BY <1>1, <3>3
    <3> QED BY <3>1, <3>4
  <2> QED BY <2>1, <2>2
<1>4. advice' \in Seq(AdviceRows) /\ AdviceInBand'
  BY <1>3, AdviseKeeps
<1> QED BY <1>2, <1>4 DEF TariffInv, TariffTypes

LEMMA PricesKeepTariffs ==
  ASSUME TariffInv, PriceRequests
  PROVE  TariffInv'
<1>1. /\ rules \in Seq(RuleRows) /\ station \in [Stations -> StationRows]
      /\ rivals \in [Rivals -> CompetitorRows \cup {None}]
  BY DEF TariffInv, TariffTypes
<1>2. ASSUME NEW s \in Stations, NEW price \in Prices, SetPrice(s, price) PROVE TariffInv'
  <2>1. price \in Int \cup {None} /\ station[s] \in StationRows
    BY <1>1, TariffAssumption
  <2>2. [station[s] EXCEPT !.price = price] \in StationRows
    BY <2>1 DEF StationRows
  <2>3. /\ station' = [station EXCEPT ![s] = [station[s] EXCEPT !.price = price]]
        /\ UNCHANGED <<time, plan, rules, session, rivals, advice>>
    BY <1>2 DEF SetPrice
  <2>4. station' \in [Stations -> StationRows]
    BY <1>1, <2>2, <2>3
  <2> QED BY <1>1, <2>3, <2>4, TablesChange
<1>3. ASSUME NEW v \in Rivals, NEW row \in CompetitorRows \cup {None},
             rivals' = [rivals EXCEPT ![v] = row], UNCHANGED Unpriced
      PROVE  TariffInv'
  <2>1. rivals' \in [Rivals -> CompetitorRows \cup {None}]
    BY <1>1, <1>3
  <2> QED BY <1>1, <1>3, <2>1, TablesChange DEF Unpriced
<1>4. ASSUME NEW v \in Rivals, NEW entry \in Entries, AddCompetitor(v, entry) PROVE TariffInv'
  BY <1>3, <1>4, TariffAssumption DEF AddCompetitor
<1>5. ASSUME NEW v \in Rivals, NEW entry \in Entries, NEW fields,
             UpdateCompetitor(v, fields, entry)
      PROVE  TariffInv'
  <2>1. rivals[v] \in CompetitorRows /\ entry \in CompetitorRows
    BY <1>1, <1>5, TariffAssumption DEF UpdateCompetitor, Competing
  <2> DEFINE row == [f \in DOMAIN rivals[v] |-> IF f \in fields THEN entry[f] ELSE rivals[v][f]]
  <2>2. row \in CompetitorRows
    BY <2>1 DEF CompetitorRows
  <2>3. rivals' = [rivals EXCEPT ![v] = row] /\ UNCHANGED Unpriced
    BY <1>5 DEF UpdateCompetitor
  <2> HIDE DEF row
  <2> QED BY <1>3, <2>2, <2>3
<1>6. ASSUME NEW v \in Rivals, DeleteCompetitor(v) PROVE TariffInv'
  BY <1>3, <1>6 DEF DeleteCompetitor
<1>7. \A ids, places : Chosen(ids, places) \subseteq Stations
  BY DEF Chosen
<1>8. ASSUME NEW ids, NEW places, NEW order \in SetToSeqs(Chosen(ids, places)), NEW histories,
             AnalyzeBatch(order, histories) \/ AutoOptimize(order, histories)
      PROVE  TariffInv'
  BY <1>7, <1>8, AnalysisKeepsTariffs
<1> QED BY <1>2, <1>4, <1>5, <1>6, <1>8 DEF PriceRequests

LEMMA StepsKeepTariffs == TariffInv /\ [Next]_vars => TariffInv'
<1> SUFFICES ASSUME TariffInv, [Next]_vars PROVE TariffInv'
  OBVIOUS
<1>1. CASE UNCHANGED vars
  BY <1>1 DEF vars, TariffInv, TariffTypes, AdviceInBand
<1>2. CASE TimePasses
  BY <1>2, TimeKeepsTariffs
<1>3. CASE Clients
  BY <1>3, StartKeepsTariffs, StopsKeepTariffs DEF Clients
<1>4. CASE PlanRequests
  BY <1>4, PlansKeepTariffs
<1>5. CASE RuleRequests
  BY <1>5, RulesKeepTariffs
<1>6. CASE PriceRequests
  BY <1>6, PricesKeepTariffs
<1> QED BY <1>1, <1>2, <1>3, <1>4, <1>5, <1>6 DEF Next

(* The invariant holds of every reachable state. *)
LEMMA TariffsInvariant == Spec => []TariffInv
<1> QED BY TypesAtFirst, StepsKeepTariffs, PTL DEF Spec

----------------------------------------------------------------------------
(* Tariffs: what follows *)

(* At a station with a price of its own and no plan the rate that          *)
(* get_station_tariff shows is the rate a session starts with: both put    *)
(* the same price to the same clock.                                       *)
THEOREM ShownIsAlwaysCharged == Spec => []ShownIsCharged
<1>1. ShownIsCharged
  <2> SUFFICES ASSUME NEW s \in Stations,
                      Own(s), station[s].plan = None, ClientPricings(time) = {}
               PROVE  ShownRates(s, time) = {p.rate : p \in Pricings(s, time)}
    BY DEF ShownIsCharged
  <2>1. Pricings(s, time) = {StationPricing(s, time.hour)}
    BY DEF Pricings
  <2>2. StationPricing(s, time.hour).rate
          = EffectiveRate(station[s].price, time.hour)
    BY DEF StationPricing
  <2>3. ShownRates(s, time) = {EffectiveRate(station[s].price, time.hour)}
    BY DEF ShownRates, Own
  <2> QED BY <2>1, <2>2, <2>3
<1> QED BY <1>1, PTL

(* Rules that validate_tariff_rule takes to be apart never apply together, *)
(* except in an hour in which one ends and the other begins.               *)
THEOREM ApartRulesNeverMeet == Spec => []ApartNeverMeet
<1>1. TariffInv => ApartNeverMeet
  <2> SUFFICES ASSUME TariffInv, Connector.type # None,
                      NEW i \in DOMAIN rules, NEW j \in DOMAIN rules,
                      ~RulesOverlap(rules[i], rules[j]), rules[i].plan = rules[j].plan,
                      \/ rules[i].weekend = None /\ rules[j].weekend = None
                      \/ ApartByHours(rules[i], rules[j]),
                      AppliesTo(rules[i], rules[i].plan, Connector.type, Connector.power, time),
                      AppliesTo(rules[j], rules[i].plan, Connector.type, Connector.power, time),
                      InRange(time.hour, rules[i].from, rules[i].to),
                      InRange(time.hour, rules[j].from, rules[j].to)
               PROVE  time.hour \in {rules[i].from, rules[i].to}
                                      \cap {rules[j].from, rules[j].to}
    BY DEF ApartNeverMeet
  <2> DEFINE r == rules[i]
             q == rules[j]
  <2>1. /\ r.from \in Nat \cup {None} /\ r.to \in Nat \cup {None}
        /\ q.from \in Nat \cup {None} /\ q.to \in Nat \cup {None}
        /\ time.hour \in Nat
    <3>1. r \in RuleRows /\ q \in RuleRows /\ time \in [hour : Hours, day : Days]
      BY TariffAssumption DEF TariffInv, TariffTypes
    <3> HIDE DEF r, q
    <3> QED BY <3>1 DEF RuleRows, Hours
  <2>2. "ALL" \in {r.connector, q.connector} \/ r.connector = q.connector
    BY DEF AppliesTo
  <2>3. r.weekend = None /\ q.weekend = None =>
          ({r.days, q.days} \cap {None, {}} = {} => r.days \cap q.days # {})
    BY DEF AppliesTo
  <2>4. /\ None \notin {r.from, r.to, q.from, q.to} /\ ~RangesOverlap(r, q)
    BY <2>2, <2>3 DEF RulesOverlap, ApartByHours
  <2>5. /\ r.from < r.to /\ q.from < q.to
        /\ r.to <= q.from \/ q.to <= r.from
    BY <2>4 DEF RangesOverlap
  <2>6. /\ r.from <= time.hour /\ time.hour <= r.to
        /\ q.from <= time.hour /\ time.hour <= q.to
    BY <2>1, <2>4, <2>5 DEF InRange
  <2> HIDE DEF r, q
  <2>7. time.hour \in {r.from, r.to} \cap {q.from, q.to}
    <3>1. /\ r.from \in Nat /\ r.to \in Nat /\ q.from \in Nat /\ q.to \in Nat
          /\ time.hour \in Nat
      BY <2>1, <2>4
    <3>2. CASE r.to <= q.from
      <4>1. time.hour = r.to /\ time.hour = q.from
        BY <2>6, <3>1, <3>2
      <4> QED BY <4>1
    <3>3. CASE q.to <= r.from
      <4>1. time.hour = q.to /\ time.hour = r.from
        BY <2>6, <3>1, <3>3
      <4> QED BY <4>1
    <3> QED BY <2>5, <3>2, <3>3
  <2> QED BY <2>7 DEF r, q
<1> QED BY <1>1, TariffsInvariant, PTL

(* Whatever competitors take, demand is and revenue does, no               *)
(* recommendation leaves its band.                                         *)
THEOREM AdviceAlwaysInBand == Spec => []AdviceInBand
<1>1. TariffInv => AdviceInBand
  BY DEF TariffInv
<1> QED BY <1>1, TariffsInvariant, PTL

(* StopTransaction charges a session, running or ended by its client, the  *)
(* rate the client has seen since the start, whatever administrators did   *)
(* to the tariffs in between.                                              *)
THEOREM SessionsKeepTheirRate == Spec => KeepsItsRate
<1> DEFINE Keeps ==
      \A x \in Sessions :
        session'[x] # session[x] /\ session'[x].by = "station"
        => \/ session[x].rate = 0
           \/ /\ session'[x].cost = session'[x].kwh * StatusRate(x)
              /\ StatusAmount(x)' = session'[x].cost
<1>1. TariffInv /\ [Next]_vars => [Keeps]_vars
  <2> SUFFICES ASSUME TariffInv, Next, NEW x \in Sessions,
                      session'[x] # session[x], session'[x].by = "station",
                      session[x].rate # 0
               PROVE  /\ session'[x].cost = session'[x].kwh * StatusRate(x)
                      /\ StatusAmount(x)' = session'[x].cost
    OBVIOUS
  <2>1. /\ session \in [Sessions -> SessionRows]
        /\ session[x].status = "none" => session[x].by = None
        /\ session[x].rate \in Int /\ session[x].rate # 0
    BY DEF TariffInv, TariffTypes, SessionRows
  <2>2. Clients
    <3>1. session' # session
      OBVIOUS
    <3>2. ~TimePasses
      BY <3>1 DEF TimePasses
    <3>3. ~PlanRequests
      BY <3>1 DEF PlanRequests, CreatePlan, UpdatePlan, DeletePlan, AssignPlan, AddRule
    <3>4. ~RuleRequests
      BY <3>1 DEF RuleRequests, UpdateRule, SwitchRule, DeleteRule
    <3>5. ~PriceRequests
      <4>1. \A order, histories : ~AnalyzeBatch(order, histories) /\ ~AutoOptimize(order, histories)
        BY <3>1 DEF AnalyzeBatch, AutoOptimize
      <4>2. \A s, price : ~SetPrice(s, price)
        BY <3>1 DEF SetPrice
      <4>3. \A v, entry, fields :
              ~AddCompetitor(v, entry) /\ ~UpdateCompetitor(v, fields, entry)
              /\ ~DeleteCompetitor(v)
        BY <3>1 DEF AddCompetitor, UpdateCompetitor, DeleteCompetitor, Unpriced
      <4> QED BY <4>1, <4>2, <4>3 DEF PriceRequests
    <3> QED BY <3>2, <3>3, <3>4, <3>5 DEF Next
  <2>3. ASSUME NEW y \in Sessions, NEW s \in Stations, StartSession(y, s) PROVE FALSE
    <3>1. session[y].status = "none"
      BY <2>3 DEF StartSession
    <3>2. session'[x] = session[x] \/ (y = x /\ session'[x].by = session[x].by)
      BY <2>1, <2>3 DEF StartSession, SessionRows
    <3> QED BY <2>1, <3>1, <3>2, NullAssumption
  <2>4. ASSUME NEW y \in Sessions, NEW kwh, NEW rate, NEW by, by # "station",
               Settle(y, kwh, rate, by)
        PROVE  FALSE
    <3>1. CASE y = x
      BY <2>1, <2>4, <3>1 DEF Settle, SessionRows
    <3>2. CASE y # x
      BY <2>1, <2>4, <3>2 DEF Settle
    <3> QED BY <3>1, <3>2
  <2>5. PICK y \in Sessions, kwh \in Energies : StopTransaction(y, kwh)
    BY <2>2, <2>3, <2>4 DEF Clients, StopByClient, TransactionEnded
  <2>6. y = x
    BY <2>1, <2>5 DEF StopTransaction, Settle
  <2>7. RateAtStop(x) = session[x].rate /\ StatusRate(x) = session[x].rate
    BY <2>1 DEF RateAtStop, StatusRate
  <2>8. /\ session'[x].rate = session[x].rate /\ session'[x].kwh = kwh
        /\ session'[x].cost = kwh * session[x].rate
    BY <2>1, <2>5, <2>6, <2>7 DEF StopTransaction, Settle, SessionRows
  <2>9. StatusRate(x)' = session[x].rate
    BY <2>1, <2>8 DEF StatusRate
  <2> QED BY <2>7, <2>8, <2>9 DEF StatusAmount
<1> QED BY <1>1, TariffsInvariant, PTL DEF KeepsItsRate, Spec

----------------------------------------------------------------------------
(* Companies *)

(* The books of a company: the inductive invariant *)

GroupRows ==
  [made : BOOLEAN, balance : Int, billing : Books!Billing, credit : Nat, monthly : Nat,
   spent : Nat, active : BOOLEAN]
StaffRows ==
  [made : BOOLEAN, role : {"admin", "employee"}, monthly : Nat, daily : Nat,
   month : Nat, day : Nat, reset : Nat, active : BOOLEAN]
LedgerRows ==
  [group : Groups, type : {"topup", "charge", "refund"}, amount : Nat,
   before : Int, after : Int, by : (Groups \X Users) \cup {None}]
Clearances == [by : Groups \X Users, amount : Amounts]
Reservations == [by : Groups \X Users, reserved : Amounts, over : BOOLEAN]

BookTypes ==
  /\ groups \in [Groups -> GroupRows]
  /\ staff \in [Groups \X Users -> StaffRows]
  /\ ledger \in Seq(LedgerRows)
  /\ cleared \in [Users -> Clearances \cup {None}]
  /\ charging \in [Sessions -> Reservations \cup {None}]
  /\ today \in Nat

(* What is not made has spent nothing, and who charges is made. *)
MadeFirst ==
  /\ \A g \in Groups : ~groups[g].made => groups[g].spent = 0 /\ groups[g].balance = 0
  /\ \A e \in Groups \X Users :
       IF staff[e].made THEN groups[e[1]].made ELSE staff[e].month = 0
  /\ \A u \in Users : cleared[u] # None => staff[cleared[u].by].made
  /\ \A s \in Sessions : charging[s] # None => staff[charging[s].by].made

(* What may still be given back for a session. *)
Open(s) == IF charging[s].over THEN 0 ELSE charging[s].reserved

OpenFor(q, g) ==
  Total([i \in DOMAIN q |-> IF charging[q[i]].by[1] = g THEN Open(q[i]) ELSE 0], Len(q))
OpenOf(q, e) ==
  Total([i \in DOMAIN q |-> IF charging[q[i]].by = e THEN Open(q[i]) ELSE 0], Len(q))

(* q is the sessions in the order in which their funds were reserved. *)
Ordered(q) ==
  /\ q \in Seq(Sessions)
  /\ \A i \in DOMAIN q : charging[q[i]] # None
  /\ \A i, j \in DOMAIN q : q[i] = q[j] => i = j
  /\ \A s \in Sessions : charging[s] # None => \E i \in DOMAIN q : q[i] = s

(* A counter holds at least what may still be given back: a refund never   *)
(* meets the floor of zero.                                                *)
Covered ==
  \E q : /\ Ordered(q)
         /\ \A g \in Groups : OpenFor(q, g) <= groups[g].spent
         /\ \A e \in Groups \X Users : OpenOf(q, e) <= staff[e].month

BookInv == BookTypes /\ MadeFirst /\ BooksAgree /\ Covered

----------------------------------------------------------------------------
(* Companies: one row more *)

LEMMA GreatestIsMax ==
  ASSUME NEW n \in Nat, NEW T, T \subseteq 1..n, T # {}
  PROVE  Max(T) \in T /\ \A y \in T : y <= Max(T)
<1>1. PICK x \in T : \A y \in T : y <= x
  <2>1. T \subseteq 0..n
    OBVIOUS
  <2> QED BY <2>1, GreatestExists
<1>2. \A y \in T : x >= y
  BY <1>1
<1> QED BY <1>2 DEF Max

LEMMA OneRowMore ==
  ASSUME BookTypes, BooksAgree, NEW row \in LedgerRows,
         ledger' = Append(ledger, row),
         row.before = groups[row.group].balance,
         \A g \in Groups :
           /\ groups'[g].balance = IF row.group = g THEN row.after ELSE groups[g].balance
           /\ groups'[g].spent = groups[g].spent + IF row.group = g THEN Charged(row) ELSE 0,
         \A e \in Groups \X Users :
           staff'[e].month = staff[e].month + IF row.by = e THEN Charged(row) ELSE 0
  PROVE  BooksAgree'
<1> PICK n \in Nat : n = Len(ledger)
  BY DEF BookTypes
<1>1. /\ n \in Nat /\ Len(ledger') = n + 1 /\ ledger' \in Seq(LedgerRows)
      /\ DOMAIN ledger = 1..n /\ DOMAIN ledger' = 1..(n + 1) /\ ledger'[n + 1] = row
      /\ \A i \in 1..n : ledger'[i] = ledger[i] /\ ledger[i] \in LedgerRows
  BY DEF BookTypes
<1>2. ASSUME NEW g, NEW m \in 0..n PROVE Booked(ledger', g, m) = Booked(ledger, g, m)
  <2> DEFINE mine == {i \in 1..m : ledger[i].group = g}
             mine2 == {i \in 1..m : ledger'[i].group = g}
  <2>1. mine2 = mine /\ mine \subseteq 1..m /\ m \in Nat
    BY <1>1
  <2>2. mine # {} => Max(mine) \in mine
    BY <2>1, GreatestIsMax
  <2>3. mine # {} => ledger'[Max(mine)] = ledger[Max(mine)]
    BY <1>1, <2>1, <2>2
  <2>4. Booked(ledger, g, m) = IF mine = {} THEN 0 ELSE ledger[Max(mine)].after
    BY DEF Booked
  <2>5. Booked(ledger', g, m) = IF mine2 = {} THEN 0 ELSE ledger'[Max(mine2)].after
    BY DEF Booked
  <2> QED BY <2>1, <2>3, <2>4, <2>5
<1>3. ASSUME NEW g \in Groups
      PROVE  Booked(ledger', g, n + 1) =
               IF row.group = g THEN row.after ELSE Booked(ledger, g, n)
  <2> DEFINE mine == {i \in 1..n : ledger'[i].group = g}
             mine2 == {i \in 1..(n + 1) : ledger'[i].group = g}
  <2>1. Booked(ledger', g, n + 1) = IF mine2 = {} THEN 0 ELSE ledger'[Max(mine2)].after
    BY DEF Booked
  <2>2. CASE row.group = g
    <3>1. n + 1 \in mine2 /\ mine2 \subseteq 1..(n + 1) /\ n + 1 \in Nat
      BY <1>1, <2>2
    <3>2. Max(mine2) \in mine2 /\ n + 1 <= Max(mine2)
      BY <3>1, GreatestIsMax
    <3>3. Max(mine2) \in 1..(n + 1)
      BY <3>1, <3>2
    <3>4. \A m \in 1..(n + 1) : n + 1 <= m => m = n + 1
      OBVIOUS
    <3>5. Max(mine2) = n + 1
      BY <3>2, <3>3, <3>4
    <3> QED BY <1>1, <2>1, <2>2, <3>1, <3>5
  <2>3. CASE row.group # g
    <3>1. mine2 = mine
      BY <1>1, <2>3
    <3>2. Booked(ledger', g, n) = IF mine = {} THEN 0 ELSE ledger'[Max(mine)].after
      BY DEF Booked
    <3>3. Booked(ledger', g, n) = Booked(ledger, g, n)
      BY <1>1, <1>2
    <3> QED BY <2>1, <2>3, <3>1, <3>2, <3>3
  <2> QED BY <2>2, <2>3
<1>4. \A i \in 1..n : ledger[i] \in LedgerRows /\ Charged(ledger[i]) \in Int
  BY <1>1 DEF LedgerRows, Charged
<1>5. Charged(row) \in Int
  BY DEF LedgerRows, Charged
<1>6. ASSUME NEW g \in Groups PROVE groups'[g].spent = ChargedTo(g)'
  <2> DEFINE f == [i \in DOMAIN ledger |->
                    IF ledger[i].group = g THEN Charged(ledger[i]) ELSE 0]
             h == [i \in DOMAIN ledger' |->
                    IF ledger'[i].group = g THEN Charged(ledger'[i]) ELSE 0]
  <2>1. ChargedTo(g) = Total(f, n) /\ ChargedTo(g)' = Total(h, n + 1)
    BY <1>1 DEF ChargedTo, Charged
  <2>2. \A i \in 1..n : f[i] = h[i]
    BY <1>1
  <2>3. h[n + 1] = IF row.group = g THEN Charged(row) ELSE 0
    BY <1>1
  <2> HIDE DEF f, h
  <2>4. Total(f, n) = Total(h, n)
    BY <2>2, TotalSame
  <2>5. Total(h, n + 1) = Total(h, n) + h[n + 1]
    BY TotalSteps
  <2>6. groups[g].spent = Total(f, n)
    BY <2>1 DEF BooksAgree
  <2> QED BY <2>1, <2>3, <2>4, <2>5, <2>6
<1>7. ASSUME NEW e \in Groups \X Users PROVE staff'[e].month = ChargedBy(e)'
  <2> DEFINE f == [i \in DOMAIN ledger |->
                    IF ledger[i].by = e THEN Charged(ledger[i]) ELSE 0]
             h == [i \in DOMAIN ledger' |->
                    IF ledger'[i].by = e THEN Charged(ledger'[i]) ELSE 0]
  <2>1. ChargedBy(e) = Total(f, n) /\ ChargedBy(e)' = Total(h, n + 1)
    BY <1>1 DEF ChargedBy, Charged
  <2>2. \A i \in 1..n : f[i] = h[i]
    BY <1>1
  <2>3. h[n + 1] = IF row.by = e THEN Charged(row) ELSE 0
    BY <1>1
  <2> HIDE DEF f, h
  <2>4. Total(f, n) = Total(h, n)
    BY <2>2, TotalSame
  <2>5. Total(h, n + 1) = Total(h, n) + h[n + 1]
    BY TotalSteps
  <2>6. staff[e].month = Total(f, n)
    BY <2>1 DEF BooksAgree
  <2> QED BY <2>1, <2>3, <2>4, <2>5, <2>6
<1>8. ASSUME NEW i \in DOMAIN ledger'
      PROVE  ledger'[i].before = Booked(ledger', ledger'[i].group, i - 1)
  <2>1. i \in 1..(n + 1) /\ i - 1 \in 0..n
    BY <1>1
  <2>2. CASE i = n + 1
    <3>1. row.group \in Groups
      BY DEF LedgerRows
    <3>2. row.before = Booked(ledger, row.group, n)
      BY <3>1 DEF BooksAgree
    <3> QED BY <1>1, <1>2, <2>1, <2>2, <3>2
  <2>3. CASE i \in 1..n
    <3>1. ledger[i].before = Booked(ledger, ledger[i].group, i - 1)
      BY <1>1, <2>3 DEF BooksAgree
    <3> QED BY <1>1, <1>2, <2>1, <2>3, <3>1
  <2> QED BY <1>1, <2>1, <2>2, <2>3
<1>9. ASSUME NEW g \in Groups PROVE groups'[g].balance = Booked(ledger', g, Len(ledger'))
  <2>1. groups[g].balance = Booked(ledger, g, n)
    BY DEF BooksAgree
  <2>2. Booked(ledger', g, Len(ledger')) = Booked(ledger', g, n + 1)
    BY <1>1 DEF Booked
  <2> QED BY <1>3, <2>1, <2>2
<1> QED BY <1>6, <1>7, <1>8, <1>9 DEF BooksAgree

----------------------------------------------------------------------------
(* Companies: what may still be given back *)

LEMMA OpenFacts ==
  ASSUME BooksAssumption,
         BookTypes, NEW q, Ordered(q)
  PROVE  /\ Len(q) \in Nat /\ DOMAIN q = 1..Len(q)
         /\ \A i \in 1..Len(q) :
              /\ q[i] \in Sessions /\ charging[q[i]] \in Reservations
              /\ Open(q[i]) \in Nat
<1>1. Len(q) \in Nat /\ DOMAIN q = 1..Len(q)
      /\ \A i \in 1..Len(q) : q[i] \in Sessions /\ charging[q[i]] # None
  BY DEF Ordered
<1>2. \A i \in 1..Len(q) : charging[q[i]] \in Reservations
  BY <1>1 DEF BookTypes
<1>3. \A i \in 1..Len(q) : Open(q[i]) \in Nat
  BY <1>2 DEF BooksAssumption, Open, Reservations
<1> QED BY <1>1, <1>2, <1>3

(* Funds of one session more are reserved. *)
LEMMA OneSessionMore ==
  ASSUME BooksAssumption,
         BookTypes, Covered, NEW s \in Sessions, NEW c \in Reservations,
         charging[s] = None, charging' = [charging EXCEPT ![s] = c], ~c.over,
         \A g \in Groups :
           /\ groups[g].spent \in Int
           /\ groups'[g].spent = groups[g].spent + IF c.by[1] = g THEN c.reserved ELSE 0,
         \A e \in Groups \X Users :
           /\ staff[e].month \in Int
           /\ staff'[e].month = staff[e].month + IF c.by = e THEN c.reserved ELSE 0
  PROVE  Covered'
<1>1. PICK q : /\ Ordered(q)
               /\ \A g \in Groups : OpenFor(q, g) <= groups[g].spent
               /\ \A e \in Groups \X Users : OpenOf(q, e) <= staff[e].month
  BY DEF Covered
<1> PICK n \in Nat : n = Len(q)
  BY <1>1, OpenFacts
<1> DEFINE p == Append(q, s)
<1>2. /\ q \in Seq(Sessions) /\ DOMAIN q = 1..n
      /\ \A i \in 1..n : q[i] \in Sessions /\ q[i] # s /\ Open(q[i]) \in Nat
  <2>1. \A i \in 1..n : charging[q[i]] # None
    BY <1>1, OpenFacts DEF Ordered
  <2> QED BY <1>1, <2>1, OpenFacts DEF Ordered
<1>3. /\ p \in Seq(Sessions) /\ Len(p) = n + 1 /\ DOMAIN p = 1..(n + 1) /\ p[n + 1] = s
      /\ \A i \in 1..n : p[i] = q[i]
  BY <1>2
<1> HIDE DEF p
<1>4. charging'[s] = c /\ \A x \in Sessions : x # s => charging'[x] = charging[x]
  BY DEF BookTypes
<1>5. c # None /\ c.reserved \in Nat
  BY DEF BooksAssumption, Reservations
<1>6. /\ \A i \in 1..n : charging'[p[i]] = charging[q[i]]
      /\ charging'[p[n + 1]] = c
  BY <1>2, <1>3, <1>4
<1>7. Ordered(p)'
  <2>1. \A i \in DOMAIN p : charging'[p[i]] # None
    BY <1>1, <1>2, <1>3, <1>5, <1>6 DEF Ordered
  <2>2. \A i, j \in DOMAIN p : p[i] = p[j] => i = j
    BY <1>1, <1>2, <1>3 DEF Ordered
  <2>3. ASSUME NEW x \in Sessions, charging'[x] # None PROVE \E i \in DOMAIN p : p[i] = x
    <3>1. CASE x = s
      <4>1. n + 1 \in DOMAIN p
        BY <1>3
      <4> QED BY <1>3, <3>1, <4>1
    <3>2. CASE x # s
      <4>1. PICK i \in DOMAIN q : q[i] = x
        BY <1>1, <1>4, <2>3, <3>2 DEF Ordered
      <4>2. i \in DOMAIN p /\ p[i] = x
        BY <1>2, <1>3, <4>1
      <4> QED BY <4>2
    <3> QED BY <3>1, <3>2
  <2> QED BY <1>3, <2>1, <2>2, <2>3 DEF Ordered
<1>8. ASSUME NEW g \in Groups PROVE OpenFor(p, g)' <= groups'[g].spent
  <2> DEFINE f == [i \in DOMAIN q |-> IF charging[q[i]].by[1] = g THEN Open(q[i]) ELSE 0]
             h == [i \in DOMAIN p |-> IF charging'[p[i]].by[1] = g
                     THEN IF charging'[p[i]].over THEN 0 ELSE charging'[p[i]].reserved ELSE 0]
  <2>1. OpenFor(q, g) = Total(f, n) /\ OpenFor(p, g)' = Total(h, n + 1)
    BY <1>3 DEF OpenFor, Open
  <2>2. \A i \in 1..n : f[i] = h[i] /\ f[i] \in Nat
    BY <1>2, <1>3, <1>6 DEF Open
  <2>3. h[n + 1] = IF c.by[1] = g THEN c.reserved ELSE 0
    BY <1>3, <1>6
  <2> HIDE DEF f, h
  <2>4. Total(f, n) = Total(h, n) /\ Total(f, n) \in Nat
    BY <2>2, TotalSame, TotalBounds
  <2>5. Total(h, n + 1) = Total(h, n) + h[n + 1]
    BY TotalSteps
  <2>6. Total(f, n) <= groups[g].spent
    BY <1>1, <2>1
  <2> QED BY <1>5, <2>1, <2>3, <2>4, <2>5, <2>6
<1>9. ASSUME NEW e \in Groups \X Users PROVE OpenOf(p, e)' <= staff'[e].month
  <2> DEFINE f == [i \in DOMAIN q |-> IF charging[q[i]].by = e THEN Open(q[i]) ELSE 0]
             h == [i \in DOMAIN p |-> IF charging'[p[i]].by = e
                     THEN IF charging'[p[i]].over THEN 0 ELSE charging'[p[i]].reserved ELSE 0]
  <2>1. OpenOf(q, e) = Total(f, n) /\ OpenOf(p, e)' = Total(h, n + 1)
    BY <1>3 DEF OpenOf, Open
  <2>2. \A i \in 1..n : f[i] = h[i] /\ f[i] \in Nat
    BY <1>2, <1>3, <1>6 DEF Open
  <2>3. h[n + 1] = IF c.by = e THEN c.reserved ELSE 0
    BY <1>3, <1>6
  <2> HIDE DEF f, h
  <2>4. Total(f, n) = Total(h, n) /\ Total(f, n) \in Nat
    BY <2>2, TotalSame, TotalBounds
  <2>5. Total(h, n + 1) = Total(h, n) + h[n + 1]
    BY TotalSteps
  <2>6. Total(f, n) <= staff[e].month
    BY <1>1, <2>1
  <2> QED BY <1>5, <2>1, <2>3, <2>4, <2>5, <2>6
<1> QED BY <1>7, <1>8, <1>9 DEF Covered

(* What may still be given back for a session is in both counters. *)
LEMMA CoveredFacts ==
  ASSUME BooksAssumption,
         BookTypes, Covered, NEW s \in Sessions, charging[s] # None, ~charging[s].over
  PROVE  LET e == charging[s].by IN
         /\ e \in Groups \X Users /\ e[1] \in Groups
         /\ charging[s].reserved \in Nat
         /\ charging[s].reserved <= groups[e[1]].spent
         /\ charging[s].reserved <= staff[e].month
<1> DEFINE e == charging[s].by
<1>1. PICK q : /\ Ordered(q)
               /\ \A g \in Groups : OpenFor(q, g) <= groups[g].spent
               /\ \A x \in Groups \X Users : OpenOf(q, x) <= staff[x].month
  BY DEF Covered
<1>2. PICK k \in DOMAIN q : q[k] = s
  BY <1>1 DEF Ordered
<1>3. PICK n \in Nat : n = Len(q) /\ k \in 1..n /\ DOMAIN q = 1..n
  BY <1>1, OpenFacts
<1>4. \A i \in 1..n : Open(q[i]) \in Nat
  BY <1>1, <1>3, OpenFacts
<1>5. /\ e \in Groups \X Users /\ e[1] \in Groups
      /\ charging[s].reserved \in Nat /\ Open(s) = charging[s].reserved
  BY DEF BooksAssumption, BookTypes, Reservations, Open
<1>6. groups[e[1]].spent \in Nat /\ staff[e].month \in Nat
  BY <1>5 DEF BookTypes, GroupRows, StaffRows
<1>7. charging[s].reserved <= groups[e[1]].spent
  <2> DEFINE f == [i \in DOMAIN q |-> IF charging[q[i]].by[1] = e[1] THEN Open(q[i]) ELSE 0]
  <2>1. OpenFor(q, e[1]) = Total(f, n)
    BY <1>3 DEF OpenFor
  <2>2. \A i \in 1..n : f[i] \in Nat
    BY <1>3, <1>4
  <2>3. f[k] = charging[s].reserved
    BY <1>2, <1>5
  <2> HIDE DEF f
  <2>4. Total(f, n) \in Nat /\ f[k] <= Total(f, n)
    BY <1>3, <2>2, TotalBounds
  <2>5. Total(f, n) <= groups[e[1]].spent
    BY <1>1, <1>5, <2>1
  <2> QED BY <1>5, <1>6, <2>3, <2>4, <2>5
<1>8. charging[s].reserved <= staff[e].month
  <2> DEFINE f == [i \in DOMAIN q |-> IF charging[q[i]].by = e THEN Open(q[i]) ELSE 0]
  <2>1. OpenOf(q, e) = Total(f, n)
    BY <1>3 DEF OpenOf
  <2>2. \A i \in 1..n : f[i] \in Nat
    BY <1>3, <1>4
  <2>3. f[k] = charging[s].reserved
    BY <1>2, <1>5
  <2> HIDE DEF f
  <2>4. Total(f, n) \in Nat /\ f[k] <= Total(f, n)
    BY <1>3, <2>2, TotalBounds
  <2>5. Total(f, n) <= staff[e].month
    BY <1>1, <1>5, <2>1
  <2> QED BY <1>5, <1>6, <2>3, <2>4, <2>5
<1> QED BY <1>5, <1>7, <1>8

(* A session ends, and no more than was reserved is given back. *)
LEMMA OneSessionLess ==
  ASSUME BooksAssumption,
         BookTypes, Covered, NEW s \in Sessions, charging[s] # None, ~charging[s].over,
         charging' = [charging EXCEPT ![s].over = TRUE],
         NEW r \in Nat, r <= charging[s].reserved,
         \A g \in Groups :
           groups'[g].spent = groups[g].spent - IF charging[s].by[1] = g THEN r ELSE 0,
         \A e \in Groups \X Users :
           staff'[e].month = staff[e].month - IF charging[s].by = e THEN r ELSE 0
  PROVE  Covered'
<1> DEFINE c == charging[s]
<1>1. PICK q : /\ Ordered(q)
               /\ \A g \in Groups : OpenFor(q, g) <= groups[g].spent
               /\ \A e \in Groups \X Users : OpenOf(q, e) <= staff[e].month
  BY DEF Covered
<1>2. PICK k \in DOMAIN q : q[k] = s
  BY <1>1 DEF Ordered
<1>3. PICK n \in Nat : n = Len(q) /\ k \in 1..n /\ DOMAIN q = 1..n
  BY <1>1, OpenFacts
<1>4. \A i \in 1..n : q[i] \in Sessions /\ Open(q[i]) \in Nat /\ (i # k => q[i] # s)
  BY <1>1, <1>2, <1>3, OpenFacts DEF Ordered
<1>5. c \in Reservations /\ c.reserved \in Nat /\ Open(s) = c.reserved
  BY DEF BooksAssumption, BookTypes, Reservations, Open
<1>6. /\ charging'[s] = [c EXCEPT !.over = TRUE]
      /\ \A x \in Sessions : x # s => charging'[x] = charging[x]
  BY DEF BookTypes
<1> HIDE DEF c
<1>7. charging'[s] \in Reservations /\ charging'[s].over /\ charging'[s].by = c.by
  <2>1. ASSUME NEW x \in Reservations
        PROVE  LET y == [x EXCEPT !.over = TRUE]
               IN  y \in Reservations /\ y.over /\ y.by = x.by
    BY DEF Reservations
  <2> QED BY <1>5, <1>6, <2>1
<1>8. Ordered(q)'
  <2>1. \A x \in Sessions : charging'[x] # None <=> charging[x] # None
    BY <1>6, <1>7 DEF BooksAssumption, Reservations
  <2>2. \A i \in DOMAIN q : q[i] \in Sessions
    BY <1>3, <1>4
  <2> QED BY <1>1, <2>1, <2>2 DEF Ordered
<1>9. ASSUME NEW g \in Groups PROVE OpenFor(q, g)' <= groups'[g].spent
  <2> DEFINE f == [i \in DOMAIN q |-> IF charging[q[i]].by[1] = g THEN Open(q[i]) ELSE 0]
             h == [i \in DOMAIN q |-> IF charging'[q[i]].by[1] = g
                     THEN IF charging'[q[i]].over THEN 0 ELSE charging'[q[i]].reserved ELSE 0]
  <2>1. OpenFor(q, g) = Total(f, n) /\ OpenFor(q, g)' = Total(h, n)
    BY <1>3 DEF OpenFor, Open
  <2>2. \A i \in 1..n : i # k => f[i] = h[i]
    BY <1>3, <1>4, <1>6 DEF Open
  <2>3. f[k] = (IF c.by[1] = g THEN c.reserved ELSE 0) /\ h[k] = 0
    BY <1>2, <1>3, <1>5, <1>7 DEF c
  <2>4. \A i \in 1..n : f[i] \in Nat
    BY <1>3, <1>4
  <2> HIDE DEF f, h
  <2>5. \A i \in 1..n : f[i] \in Int /\ h[i] \in Int
    BY <2>2, <2>3, <2>4
  <2>6. Total(h, n) = Total(f, n) + h[k] - f[k]
    BY <1>3, <2>2, <2>5, TotalShifts
  <2>7. Total(f, n) \in Nat /\ Total(f, n) <= groups[g].spent /\ groups[g].spent \in Nat
    BY <1>1, <2>1, <2>4, TotalBounds DEF BookTypes, GroupRows
  <2>8. groups'[g].spent = groups[g].spent - IF c.by[1] = g THEN r ELSE 0
    BY DEF c
  <2> QED BY <1>5, <2>1, <2>3, <2>6, <2>7, <2>8 DEF c
<1>10. ASSUME NEW e \in Groups \X Users PROVE OpenOf(q, e)' <= staff'[e].month
  <2> DEFINE f == [i \in DOMAIN q |-> IF charging[q[i]].by = e THEN Open(q[i]) ELSE 0]
             h == [i \in DOMAIN q |-> IF charging'[q[i]].by = e
                     THEN IF charging'[q[i]].over THEN 0 ELSE charging'[q[i]].reserved ELSE 0]
  <2>1. OpenOf(q, e) = Total(f, n) /\ OpenOf(q, e)' = Total(h, n)
    BY <1>3 DEF OpenOf, Open
  <2>2. \A i \in 1..n : i # k => f[i] = h[i]
    BY <1>3, <1>4, <1>6 DEF Open
  <2>3. f[k] = (IF c.by = e THEN c.reserved ELSE 0) /\ h[k] = 0
    BY <1>2, <1>3, <1>5, <1>7 DEF c
  <2>4. \A i \in 1..n : f[i] \in Nat
    BY <1>3, <1>4
  <2> HIDE DEF f, h
  <2>5. \A i \in 1..n : f[i] \in Int /\ h[i] \in Int
    BY <2>2, <2>3, <2>4
  <2>6. Total(h, n) = Total(f, n) + h[k] - f[k]
    BY <1>3, <2>2, <2>5, TotalShifts
  <2>7. Total(f, n) \in Nat /\ Total(f, n) <= staff[e].month /\ staff[e].month \in Nat
    BY <1>1, <2>1, <2>4, TotalBounds DEF BookTypes, StaffRows
  <2>8. staff'[e].month = staff[e].month - IF c.by = e THEN r ELSE 0
    BY DEF c
  <2> QED BY <1>5, <2>1, <2>3, <2>6, <2>7, <2>8 DEF c
<1> QED BY <1>8, <1>9, <1>10 DEF Covered

----------------------------------------------------------------------------
(* Companies: the steps *)

(* Nothing is charged or given back. *)
LEMMA NothingBooked ==
  ASSUME BookTypes, BooksAgree, Covered, ledger' = ledger, charging' = charging,
         \A g \in Groups :
           groups'[g].balance = groups[g].balance /\ groups'[g].spent = groups[g].spent,
         \A e \in Groups \X Users : staff'[e].month = staff[e].month
  PROVE  BooksAgree' /\ Covered'
<1>1. BooksAgree'
  BY DEF BooksAgree, ChargedTo, ChargedBy, Charged
<1>2. Covered'
  <2>1. PICK q : /\ Ordered(q)
                 /\ \A g \in Groups : OpenFor(q, g) <= groups[g].spent
                 /\ \A e \in Groups \X Users : OpenOf(q, e) <= staff[e].month
    BY DEF Covered
  <2>2. Ordered(q)'
    BY <2>1 DEF Ordered
  <2>3. ASSUME NEW g \in Groups PROVE OpenFor(q, g)' <= groups'[g].spent
    <3>1. OpenFor(q, g)' = OpenFor(q, g)
      BY DEF OpenFor, Open
    <3> QED BY <2>1, <3>1
  <2>4. ASSUME NEW e \in Groups \X Users PROVE OpenOf(q, e)' <= staff'[e].month
    <3>1. OpenOf(q, e)' = OpenOf(q, e)
      BY DEF OpenOf, Open
    <3> QED BY <2>1, <3>1
  <2> QED BY <2>2, <2>3, <2>4 DEF Covered
<1> QED BY <1>1, <1>2

LEMMA BooksAtFirst == Books!Init => BookInv
<1> SUFFICES ASSUME Books!Init PROVE BookInv
  OBVIOUS
<1>1. BookTypes
  <2>1. Books!NoGroup \in GroupRows /\ Books!NoStaff \in StaffRows
    BY DEF Books!NoGroup, Books!NoStaff, GroupRows, StaffRows, Books!Billing
  <2> QED BY <2>1 DEF Books!Init, BookTypes
<1>2. MadeFirst
  BY DEF Books!Init, MadeFirst, Books!NoGroup, Books!NoStaff
<1>3. BooksAgree
  <2>1. ledger = << >> /\ Len(ledger) = 0 /\ DOMAIN ledger = {}
    BY DEF Books!Init
  <2>2. \A g : Booked(ledger, g, 0) = 0
    BY DEF Booked
  <2>3. \A g : ChargedTo(g) = 0 /\ ChargedBy(g) = 0
    BY <2>1, TotalSteps DEF ChargedTo, ChargedBy
  <2>4. /\ \A g \in Groups : groups[g].spent = 0 /\ groups[g].balance = 0
        /\ \A e \in Groups \X Users : staff[e].month = 0
    BY DEF Books!Init, Books!NoGroup, Books!NoStaff
  <2> QED BY <2>1, <2>2, <2>3, <2>4 DEF BooksAgree
<1>4. Covered
  <2> DEFINE q == << >>
  <2>1. Ordered(q)
    BY DEF Ordered, Books!Init
  <2>2. \A g : OpenFor(q, g) = 0 /\ OpenOf(q, g) = 0
    BY TotalSteps DEF OpenFor, OpenOf
  <2>3. /\ \A g \in Groups : groups[g].spent = 0
        /\ \A e \in Groups \X Users : staff[e].month = 0
    BY DEF Books!Init, Books!NoGroup, Books!NoStaff
  <2> HIDE DEF q
  <2> QED BY <2>1, <2>2, <2>3 DEF Covered
<1> QED BY <1>1, <1>2, <1>3, <1>4 DEF BookInv

(* What administrators write. *)
GroupEdit(g) ==
  \/ \E billing \in Books!Billing, monthly, credit \in Limits :
       \/ Books!CreateGroup(g, billing, monthly, credit)
       \/ Books!UpdateGroup(g, billing, monthly, credit)
  \/ Books!BlockGroup(g) \/ Books!UnblockGroup(g)

StaffEdit(e) ==
  \/ \E role \in {"admin", "employee"}, monthly, daily \in Limits :
       \/ Books!AddEmployee(e, role, monthly, daily)
       \/ \E active \in BOOLEAN : Books!UpdateEmployee(e, role, monthly, daily, active)
  \/ Books!RemoveEmployee(e)

LEMMA EditsKeepBooks ==
  ASSUME BooksAssumption,
         BookInv,
         (\E g \in Groups : GroupEdit(g)) \/ (\E e \in Groups \X Users : StaffEdit(e))
  PROVE  BookInv'
<1>1. UNCHANGED <<ledger, cleared, charging, today>>
  <2>1. ASSUME NEW g \in Groups, GroupEdit(g)
        PROVE  UNCHANGED <<ledger, cleared, charging, today>>
    BY <2>1 DEF GroupEdit, Books!CreateGroup, Books!UpdateGroup, Books!BlockGroup,
                Books!UnblockGroup, Books!caller
  <2>2. ASSUME NEW e \in Groups \X Users, StaffEdit(e)
        PROVE  UNCHANGED <<ledger, cleared, charging, today>>
    BY <2>2 DEF StaffEdit, Books!AddEmployee, Books!UpdateEmployee, Books!RemoveEmployee,
                Books!caller
  <2> QED BY <2>1, <2>2
<1>2. Limits \subseteq Nat
  BY DEF BooksAssumption
<1>3. BookTypes /\ MadeFirst
  BY DEF BookInv
<1> DEFINE GroupsKept ==
             /\ groups' \in [Groups -> GroupRows]
             /\ \A x \in Groups : /\ groups'[x].balance = groups[x].balance
                                  /\ groups'[x].spent = groups[x].spent
                                  /\ groups[x].made => groups'[x].made
           StaffKept ==
             /\ staff' \in [Groups \X Users -> StaffRows]
             /\ \A x \in Groups \X Users :
                  /\ staff'[x].month = staff[x].month
                  /\ staff[x].made => staff'[x].made
                  /\ staff'[x].made => staff[x].made \/ groups[x[1]].made
<1>4. GroupsKept
  <2>1. ASSUME NEW g \in Groups, NEW billing \in Books!Billing, NEW monthly \in Limits,
               NEW daily \in Limits, Books!CreateGroup(g, billing, monthly, daily)
        PROVE  GroupsKept
    <3> DEFINE new == [Books!NoGroup EXCEPT !.made = TRUE, !.billing = billing,
                                      !.monthly = monthly, !.credit = daily]
    <3>0. ASSUME NEW x \in GroupRows
          PROVE  LET y == [x EXCEPT !.made = TRUE, !.billing = billing,
                                    !.monthly = monthly, !.credit = daily]
                 IN  y \in GroupRows /\ y.balance = x.balance /\ y.spent = x.spent /\ y.made
      BY <1>2 DEF GroupRows
    <3>1. new \in GroupRows /\ new.balance = 0 /\ new.spent = 0 /\ new.made
      <4>1. Books!NoGroup \in GroupRows /\ Books!NoGroup.balance = 0 /\ Books!NoGroup.spent = 0
        BY DEF Books!NoGroup, GroupRows, Books!Billing
      <4> QED BY <3>0, <4>1
    <3>2. groups' = [groups EXCEPT ![g] = new] /\ ~groups[g].made
      BY <2>1 DEF Books!CreateGroup
    <3> HIDE DEF new
    <3> QED BY <1>3, <3>1, <3>2 DEF BookTypes, MadeFirst
  <2>2. ASSUME NEW g \in Groups, NEW billing \in Books!Billing, NEW monthly \in Limits,
               NEW daily \in Limits, Books!UpdateGroup(g, billing, monthly, daily)
        PROVE  GroupsKept
    <3> DEFINE first == [groups EXCEPT ![g].billing = billing]
               second == [first EXCEPT ![g].monthly = monthly]
    <3>1. /\ first \in [Groups -> GroupRows]
          /\ \A x \in Groups : /\ first[x].balance = groups[x].balance
                               /\ first[x].spent = groups[x].spent
                               /\ first[x].made = groups[x].made
      BY <1>3 DEF BookTypes, GroupRows
    <3> HIDE DEF first
    <3>2. /\ second \in [Groups -> GroupRows]
          /\ \A x \in Groups : /\ second[x].balance = groups[x].balance
                               /\ second[x].spent = groups[x].spent
                               /\ second[x].made = groups[x].made
      BY <1>2, <3>1 DEF GroupRows
    <3>3. groups' = [second EXCEPT ![g].credit = daily]
      BY <2>2 DEF Books!UpdateGroup, first
    <3> HIDE DEF second
    <3> QED BY <1>2, <3>2, <3>3 DEF GroupRows
  <2>3. ASSUME NEW g \in Groups, Books!BlockGroup(g) \/ Books!UnblockGroup(g)
        PROVE  GroupsKept
    <3>1. CASE Books!BlockGroup(g)
      BY <1>3, <3>1 DEF Books!BlockGroup, BookTypes, GroupRows
    <3>2. CASE Books!UnblockGroup(g)
      BY <1>3, <3>2 DEF Books!UnblockGroup,
                       BookTypes, GroupRows
    <3> QED BY <2>3, <3>1, <3>2
  <2>4. ASSUME NEW e \in Groups \X Users, StaffEdit(e) PROVE GroupsKept
    BY <1>3, <2>4 DEF StaffEdit, Books!AddEmployee, Books!UpdateEmployee, Books!RemoveEmployee,
                       BookTypes
  <2> HIDE DEF GroupsKept
  <2> QED BY <2>1, <2>2, <2>3, <2>4 DEF GroupEdit
<1>5. StaffKept
  <2>1. ASSUME NEW e \in Groups \X Users, NEW role \in {"admin", "employee"},
               NEW monthly \in Limits, NEW daily \in Limits,
               Books!AddEmployee(e, role, monthly, daily)
        PROVE  StaffKept
    <3> DEFINE new == [Books!NoStaff EXCEPT !.made = TRUE, !.role = role, !.monthly = monthly,
                                      !.daily = daily, !.reset = today]
    <3>1. new \in StaffRows /\ new.month = 0 /\ new.made
      BY <1>2, <1>3 DEF Books!NoStaff, StaffRows, BookTypes
    <3>2. staff' = [staff EXCEPT ![e] = new] /\ ~staff[e].made /\ groups[e[1]].made
      BY <2>1 DEF Books!AddEmployee
    <3> HIDE DEF new
    <3> QED BY <1>3, <3>1, <3>2 DEF BookTypes, MadeFirst
  <2>2. ASSUME NEW e \in Groups \X Users, NEW role \in {"admin", "employee"},
               NEW monthly \in Limits, NEW daily \in Limits, NEW active \in BOOLEAN,
               Books!UpdateEmployee(e, role, monthly, daily, active)
        PROVE  StaffKept
    <3> DEFINE first == [staff EXCEPT ![e].role = role]
               second == [first EXCEPT ![e].monthly = monthly]
               third == [second EXCEPT ![e].daily = daily]
    <3>1. /\ first \in [Groups \X Users -> StaffRows]
          /\ \A x \in Groups \X Users :
               first[x].month = staff[x].month /\ first[x].made = staff[x].made
      BY <1>3 DEF BookTypes, StaffRows
    <3> HIDE DEF first
    <3>2. /\ second \in [Groups \X Users -> StaffRows]
          /\ \A x \in Groups \X Users :
               second[x].month = staff[x].month /\ second[x].made = staff[x].made
      BY <1>2, <3>1 DEF StaffRows
    <3> HIDE DEF second
    <3>3. /\ third \in [Groups \X Users -> StaffRows]
          /\ \A x \in Groups \X Users :
               third[x].month = staff[x].month /\ third[x].made = staff[x].made
      BY <1>2, <3>2 DEF StaffRows
    <3>4. staff' = [third EXCEPT ![e].active = active]
      BY <2>2 DEF Books!UpdateEmployee, first, second
    <3> HIDE DEF third
    <3> QED BY <3>3, <3>4 DEF StaffRows
  <2>3. ASSUME NEW e \in Groups \X Users, Books!RemoveEmployee(e) PROVE StaffKept
    BY <1>3, <2>3 DEF Books!RemoveEmployee,
                       BookTypes, StaffRows
  <2>4. ASSUME NEW g \in Groups, GroupEdit(g) PROVE StaffKept
    BY <1>3, <2>4 DEF GroupEdit, Books!CreateGroup, Books!UpdateGroup, Books!BlockGroup,
                       Books!UnblockGroup, BookTypes
  <2> HIDE DEF StaffKept
  <2> QED BY <2>1, <2>2, <2>3, <2>4 DEF StaffEdit
<1>6. BookTypes'
  BY <1>1, <1>3, <1>4, <1>5 DEF BookTypes
<1>7. MadeFirst'
  <2>1. \A x \in Groups \X Users : x[1] \in Groups
    OBVIOUS
  <2>2. ASSUME NEW x \in Groups
        PROVE  (~groups[x].made => groups[x].spent = 0 /\ groups[x].balance = 0)'
    BY <1>3, <1>4 DEF MadeFirst
  <2>3. ASSUME NEW x \in Groups \X Users
        PROVE  (IF staff[x].made THEN groups[x[1]].made ELSE staff[x].month = 0)'
    BY <1>3, <1>4, <1>5, <2>1 DEF MadeFirst
  <2>4. ASSUME NEW u \in Users, cleared'[u] # None PROVE staff'[cleared'[u].by].made
    <3>1. cleared[u] \in Clearances /\ staff[cleared[u].by].made
      BY <1>1, <1>3, <2>4 DEF MadeFirst, BookTypes
    <3> QED BY <1>1, <1>5, <3>1 DEF Clearances
  <2>5. ASSUME NEW s \in Sessions, charging'[s] # None PROVE staff'[charging'[s].by].made
    <3>1. charging[s] \in Reservations /\ staff[charging[s].by].made
      BY <1>1, <1>3, <2>5 DEF MadeFirst, BookTypes
    <3> QED BY <1>1, <1>5, <3>1 DEF Reservations
  <2> QED BY <2>2, <2>3, <2>4, <2>5 DEF MadeFirst
<1>8. BooksAgree' /\ Covered'
  BY <1>1, <1>4, <1>5, NothingBooked DEF BookInv
<1> QED BY <1>6, <1>7, <1>8 DEF BookInv

LEMMA TopupKeepsBooks ==
  ASSUME BooksAssumption,
         BookInv, NEW g \in Groups, NEW amount \in Amounts, Books!TopupBalance(g, amount)
  PROVE  BookInv'
<1> DEFINE row == Books!Row(g, "topup", amount, groups[g].balance + amount, None)
<1>1. BookTypes /\ MadeFirst /\ BooksAgree /\ Covered /\ amount \in Nat
  BY DEF BooksAssumption, BookInv
<1>2. /\ groups[g].made /\ groups' = [groups EXCEPT ![g].balance = @ + amount]
      /\ ledger' = Append(ledger, row)
      /\ UNCHANGED <<staff, cleared, charging, today>>
  BY DEF Books!TopupBalance, Books!caller
<1>3. /\ groups' \in [Groups -> GroupRows]
      /\ groups'[g].balance = groups[g].balance + amount
      /\ \A x \in Groups : /\ x # g => groups'[x].balance = groups[x].balance
                           /\ groups'[x].spent = groups[x].spent
                           /\ groups'[x].made = groups[x].made
                           /\ groups[x].spent \in Int /\ groups[x].balance \in Int
  <2>1. \A x \in Groups : groups[x].spent \in Nat /\ groups[x].balance \in Int
    BY <1>1 DEF BookTypes, GroupRows
  <2>2. PICK v \in Int : v = groups[g].balance + amount
    BY <1>1, <2>1
  <2>3. groups' = [groups EXCEPT ![g].balance = v]
    BY <1>2, <2>2
  <2>4. /\ groups' \in [Groups -> GroupRows] /\ groups'[g].balance = v
        /\ \A x \in Groups : /\ x # g => groups'[x].balance = groups[x].balance
                             /\ groups'[x].spent = groups[x].spent
                             /\ groups'[x].made = groups[x].made
    BY <1>1, <2>3 DEF BookTypes, GroupRows
  <2> QED BY <2>1, <2>2, <2>4
<1>4. /\ row \in LedgerRows /\ row.group = g /\ Charged(row) = 0
      /\ row.before = groups[g].balance /\ row.after = groups[g].balance + amount
  BY <1>1, <1>3 DEF Books!Row, LedgerRows, Charged
<1> HIDE DEF row
<1>5. BookTypes'
  <2>1. ledger' \in Seq(LedgerRows)
    BY <1>1, <1>2, <1>4 DEF BookTypes
  <2> QED BY <1>1, <1>2, <1>3, <2>1 DEF BookTypes
<1>6. MadeFirst'
  BY <1>1, <1>2, <1>3 DEF MadeFirst
<1>7. BooksAgree'
  <2>1. \A e \in Groups \X Users : staff[e].month \in Int
    BY <1>1 DEF BookTypes, StaffRows
  <2>2. \A e \in Groups \X Users :
          staff'[e].month = staff[e].month + IF row.by = e THEN Charged(row) ELSE 0
    BY <1>2, <1>4, <2>1
  <2>3. \A x \in Groups :
          /\ groups'[x].balance = IF row.group = x THEN row.after ELSE groups[x].balance
          /\ groups'[x].spent = groups[x].spent + IF row.group = x THEN Charged(row) ELSE 0
    BY <1>3, <1>4
  <2> QED BY <1>1, <1>2, <1>4, <2>2, <2>3, OneRowMore
<1>8. Covered'
  <2>1. PICK q : /\ Ordered(q)
                 /\ \A x \in Groups : OpenFor(q, x) <= groups[x].spent
                 /\ \A e \in Groups \X Users : OpenOf(q, e) <= staff[e].month
    BY <1>1 DEF Covered
  <2>2. Ordered(q)'
    BY <1>2, <2>1 DEF Ordered
  <2>3. \A x : OpenFor(q, x)' = OpenFor(q, x) /\ OpenOf(q, x)' = OpenOf(q, x)
    BY <1>2 DEF OpenFor, OpenOf, Open
  <2> QED BY <1>2, <1>3, <2>1, <2>2, <2>3 DEF Covered
<1> QED BY <1>5, <1>6, <1>7, <1>8 DEF BookInv

LEMMA CheckKeepsBooks ==
  ASSUME BookInv, NEW g \in Groups, NEW u \in Users, NEW amount \in Amounts,
         Books!CanEmployeeCharge(g, u, amount)
  PROVE  BookInv'
<1> DEFINE e == <<g, u>>
<1>1. BookTypes /\ MadeFirst /\ BooksAgree /\ Covered /\ e \in Groups \X Users
  BY DEF BookInv
<1>2. UNCHANGED <<groups, ledger, charging, today>> /\ staff[e].made
  BY DEF Books!CanEmployeeCharge
<1>3. /\ staff' \in [Groups \X Users -> StaffRows]
      /\ \A x \in Groups \X Users :
           staff'[x].month = staff[x].month /\ staff'[x].made = staff[x].made
  <2>1. CASE UNCHANGED staff
    BY <1>1, <2>1 DEF BookTypes
  <2>2. CASE staff' = [staff EXCEPT ![e].day = Books!Spent(e), ![e].reset = today]
    <3>1. Books!Spent(e) \in Nat /\ today \in Nat
      BY <1>1 DEF Books!Spent, BookTypes, StaffRows
    <3> DEFINE first == [staff EXCEPT ![e].day = Books!Spent(e)]
    <3>2. /\ first \in [Groups \X Users -> StaffRows]
          /\ \A x \in Groups \X Users :
               first[x].month = staff[x].month /\ first[x].made = staff[x].made
      BY <1>1, <3>1 DEF BookTypes, StaffRows
    <3>3. staff' = [first EXCEPT ![e].reset = today]
      BY <2>2
    <3> HIDE DEF first
    <3> QED BY <1>1, <3>1, <3>2, <3>3 DEF StaffRows
  <2> QED BY <2>1, <2>2 DEF Books!CanEmployeeCharge
<1>4. \/ cleared' = cleared
      \/ cleared' = [cleared EXCEPT ![u] = [by |-> e, amount |-> amount]]
  BY <1>1 DEF Books!CanEmployeeCharge, BookTypes
<1>5. BookTypes'
  <2>1. [by |-> e, amount |-> amount] \in Clearances
    BY DEF Clearances
  <2>2. cleared' \in [Users -> Clearances \cup {None}]
    BY <1>1, <1>4, <2>1 DEF BookTypes
  <2> QED BY <1>1, <1>2, <1>3, <2>2 DEF BookTypes
<1>6. MadeFirst'
  <2>1. ASSUME NEW x \in Users, cleared'[x] # None PROVE staff'[cleared'[x].by].made
    <3>1. CASE cleared'[x] = cleared[x]
      <4>1. cleared[x] \in Clearances /\ staff[cleared[x].by].made
        BY <1>1, <2>1, <3>1 DEF MadeFirst, BookTypes
      <4> QED BY <1>3, <3>1, <4>1 DEF Clearances
    <3>2. CASE cleared'[x] = [by |-> e, amount |-> amount]
      BY <1>1, <1>2, <1>3, <3>2
    <3> QED BY <1>1, <1>4, <3>1, <3>2 DEF BookTypes
  <2>2. ASSUME NEW s \in Sessions, charging'[s] # None PROVE staff'[charging'[s].by].made
    <3>1. charging[s] \in Reservations /\ staff[charging[s].by].made
      BY <1>1, <1>2, <2>2 DEF MadeFirst, BookTypes
    <3> QED BY <1>2, <1>3, <3>1 DEF Reservations
  <2> QED BY <1>1, <1>2, <1>3, <2>1, <2>2 DEF MadeFirst
<1>7. BooksAgree' /\ Covered'
  BY <1>1, <1>2, <1>3, NothingBooked
<1> QED BY <1>5, <1>6, <1>7 DEF BookInv

LEMMA DaysKeepBooks ==
  ASSUME BookInv, Books!NewDay
  PROVE  BookInv'
<1>1. UNCHANGED <<groups, staff, ledger, cleared, charging>> /\ today' = today + 1
  BY DEF Books!NewDay, Books!accounts, Books!caller
<1>2. BookTypes'
  BY <1>1 DEF BookInv, BookTypes
<1>3. MadeFirst'
  BY <1>1 DEF BookInv, MadeFirst
<1>4. BooksAgree' /\ Covered'
  BY <1>1, NothingBooked DEF BookInv
<1> QED BY <1>2, <1>3, <1>4 DEF BookInv

LEMMA ReservingKeepsBooks ==
  ASSUME BooksAssumption,
         BookInv, NEW u \in Users, NEW s \in Sessions, Books!ReserveFunds(u, s)
  PROVE  BookInv'
<1>1. BookTypes /\ MadeFirst /\ BooksAgree /\ Covered
  BY DEF BookInv
<1>2. PICK e \in Groups \X Users, amount \in Amounts :
        cleared[u].by = e /\ cleared[u].amount = amount
  BY <1>1 DEF Books!ReserveFunds, BookTypes, Clearances
<1>3. PICK g \in Groups : g = e[1]
  OBVIOUS
<1> DEFINE row == Books!Row(g, "charge", amount, Books!After(g, -amount), e)
           c == [by |-> e, reserved |-> amount, over |-> FALSE]
           moved == Books!Moves(g, -amount)
<1>4. /\ charging[s] = None /\ staff[e].made /\ cleared' = [cleared EXCEPT ![u] = None]
      /\ groups' = [groups EXCEPT ![g].balance = @ + moved, ![g].spent = @ + amount]
      /\ staff' = [staff EXCEPT ![e].month = @ + amount, ![e].day = @ + amount]
      /\ ledger' = Append(ledger, row) /\ charging' = [charging EXCEPT ![s] = c]
      /\ today' = today
  BY <1>1, <1>2, <1>3 DEF Books!ReserveFunds, MadeFirst
<1>5. amount \in Nat /\ moved \in Int /\ groups[g].balance \in Int
      /\ Books!After(g, -amount) = groups[g].balance + moved
  BY <1>1 DEF BooksAssumption, Books!Moves, Books!After, BookTypes, GroupRows
<1>6. /\ row \in LedgerRows /\ row.group = g /\ row.by = e /\ Charged(row) = amount
      /\ row.before = groups[g].balance /\ row.after = groups[g].balance + moved
  BY <1>5 DEF Books!Row, LedgerRows, Charged
<1>7. c \in Reservations /\ c.by = e /\ c.reserved = amount /\ ~c.over
  BY DEF Reservations
<1> HIDE DEF row, c, moved
<1>8. /\ groups' \in [Groups -> GroupRows]
      /\ \A x \in Groups :
           /\ groups'[x].made = groups[x].made
           /\ groups[x].spent \in Int /\ groups[x].balance \in Int
           /\ groups'[x].balance = groups[x].balance + IF x = g THEN moved ELSE 0
           /\ groups'[x].spent = groups[x].spent + IF x = g THEN amount ELSE 0
  <2>1. \A x \in Groups : groups[x].spent \in Nat /\ groups[x].balance \in Int
    BY <1>1 DEF BookTypes, GroupRows
  <2>2. PICK v \in Int, w \in Nat : v = groups[g].balance + moved /\ w = groups[g].spent + amount
    BY <1>5, <2>1
  <2> DEFINE first == [groups EXCEPT ![g].balance = v]
  <2>3. /\ first \in [Groups -> GroupRows]
        /\ \A x \in Groups :
             /\ first[x].made = groups[x].made /\ first[x].spent = groups[x].spent
             /\ first[x].balance = IF x = g THEN v ELSE groups[x].balance
    BY <1>1 DEF BookTypes, GroupRows
  <2>4. groups' = [first EXCEPT ![g].spent = w]
    BY <1>4, <2>2, <2>3
  <2> HIDE DEF first
  <2>5. /\ groups' \in [Groups -> GroupRows]
        /\ \A x \in Groups :
             /\ groups'[x].made = first[x].made /\ groups'[x].balance = first[x].balance
             /\ groups'[x].spent = IF x = g THEN w ELSE first[x].spent
    BY <2>3, <2>4 DEF GroupRows
  <2> QED BY <2>1, <2>2, <2>3, <2>5
<1>9. /\ staff' \in [Groups \X Users -> StaffRows]
      /\ \A x \in Groups \X Users :
           /\ staff'[x].made = staff[x].made /\ staff[x].month \in Int
           /\ staff'[x].month = staff[x].month + IF x = e THEN amount ELSE 0
  <2>1. \A x \in Groups \X Users : staff[x].month \in Nat /\ staff[x].day \in Nat
    BY <1>1 DEF BookTypes, StaffRows
  <2>2. PICK v \in Nat, w \in Nat : v = staff[e].month + amount /\ w = staff[e].day + amount
    <3>1. staff[e].month + amount \in Nat /\ staff[e].day + amount \in Nat
      BY <1>5, <2>1
    <3> QED BY <3>1
  <2> DEFINE first == [staff EXCEPT ![e].month = v]
  <2>3. /\ first \in [Groups \X Users -> StaffRows]
        /\ \A x \in Groups \X Users :
             /\ first[x].made = staff[x].made /\ first[x].day = staff[x].day
             /\ first[x].month = IF x = e THEN v ELSE staff[x].month
    BY <1>1 DEF BookTypes, StaffRows
  <2>4. staff' = [first EXCEPT ![e].day = w]
    BY <1>4, <2>2, <2>3
  <2> HIDE DEF first
  <2>5. /\ staff' \in [Groups \X Users -> StaffRows]
        /\ \A x \in Groups \X Users :
             staff'[x].made = first[x].made /\ staff'[x].month = first[x].month
    BY <2>3, <2>4 DEF StaffRows
  <2> QED BY <2>1, <2>2, <2>3, <2>5
<1>10. BookTypes'
  <2>1. ledger' \in Seq(LedgerRows)
    BY <1>1, <1>4, <1>6 DEF BookTypes
  <2>2. cleared' \in [Users -> Clearances \cup {None}]
    BY <1>1, <1>4 DEF BookTypes
  <2>3. charging' \in [Sessions -> Reservations \cup {None}] /\ today' \in Nat
    BY <1>1, <1>4, <1>7 DEF BookTypes
  <2> QED BY <1>8, <1>9, <2>1, <2>2, <2>3 DEF BookTypes
<1>11. MadeFirst'
  <2>1. ASSUME NEW x \in Groups, ~groups'[x].made
        PROVE  groups'[x].spent = 0 /\ groups'[x].balance = 0
    <3>1. groups[g].made
      BY <1>1, <1>3, <1>4 DEF MadeFirst
    <3> QED BY <1>1, <1>8, <2>1, <3>1 DEF MadeFirst
  <2>2. ASSUME NEW x \in Groups \X Users
        PROVE  IF staff'[x].made THEN groups'[x[1]].made ELSE staff'[x].month = 0
    <3>1. x[1] \in Groups
      OBVIOUS
    <3> QED BY <1>1, <1>4, <1>8, <1>9, <3>1 DEF MadeFirst
  <2>3. ASSUME NEW x \in Users, cleared'[x] # None PROVE staff'[cleared'[x].by].made
    <3>1. cleared'[x] = cleared[x] /\ cleared[x] \in Clearances /\ staff[cleared[x].by].made
      BY <1>1, <1>4, <2>3 DEF MadeFirst, BookTypes
    <3> QED BY <1>9, <3>1 DEF Clearances
  <2>4. ASSUME NEW x \in Sessions, charging'[x] # None PROVE staff'[charging'[x].by].made
    <3>1. CASE x = s
      BY <1>1, <1>4, <1>7, <1>9, <3>1 DEF BookTypes
    <3>2. CASE x # s
      <4>1. charging'[x] = charging[x] /\ charging[x] \in Reservations
            /\ staff[charging[x].by].made
        BY <1>1, <1>4, <2>4, <3>2 DEF MadeFirst, BookTypes
      <4> QED BY <1>9, <4>1 DEF Reservations
    <3> QED BY <3>1, <3>2
  <2> QED BY <2>1, <2>2, <2>3, <2>4 DEF MadeFirst
<1>12. BooksAgree'
  <2>1. \A x \in Groups :
          /\ groups'[x].balance = IF row.group = x THEN row.after ELSE groups[x].balance
          /\ groups'[x].spent = groups[x].spent + IF row.group = x THEN Charged(row) ELSE 0
    BY <1>6, <1>8
  <2>2. \A x \in Groups \X Users :
          staff'[x].month = staff[x].month + IF row.by = x THEN Charged(row) ELSE 0
    BY <1>6, <1>9
  <2> QED BY <1>1, <1>4, <1>6, <2>1, <2>2, OneRowMore
<1>13. Covered'
  <2>1. \A x \in Groups :
          /\ groups[x].spent \in Int
          /\ groups'[x].spent = groups[x].spent + IF c.by[1] = x THEN c.reserved ELSE 0
    BY <1>3, <1>7, <1>8
  <2>2. \A x \in Groups \X Users :
          /\ staff[x].month \in Int
          /\ staff'[x].month = staff[x].month + IF c.by = x THEN c.reserved ELSE 0
    BY <1>7, <1>9
  <2> QED BY <1>1, <1>4, <1>7, <2>1, <2>2, OneSessionMore
<1> QED BY <1>10, <1>11, <1>12, <1>13 DEF BookInv

LEMMA RefundKeepsBooks ==
  ASSUME BooksAssumption,
         BookInv, NEW s \in Sessions, NEW actual \in Costs, Books!RefundUnused(s, actual)
  PROVE  BookInv'
<1>1. BookTypes /\ MadeFirst /\ BooksAgree /\ Covered
  BY DEF BookInv
<1>2. /\ charging[s] # None /\ ~charging[s].over /\ charging[s] \in Reservations
      /\ charging' = [charging EXCEPT ![s].over = TRUE]
      /\ UNCHANGED <<cleared, today>>
  BY <1>1 DEF Books!RefundUnused, BookTypes
<1>3. PICK e \in Groups \X Users : e = charging[s].by
  BY <1>2 DEF Reservations
<1>4. PICK g \in Groups : g = e[1]
  OBVIOUS
<1>5. PICK reserved \in Nat : reserved = charging[s].reserved
  BY <1>2 DEF BooksAssumption, Reservations
<1>6. reserved <= groups[g].spent /\ reserved <= staff[e].month /\ staff[e].made
  BY <1>1, <1>2, <1>3, <1>4, <1>5, CoveredFacts DEF MadeFirst
<1>7. actual \in Nat
  BY DEF BooksAssumption
<1>8. /\ charging' \in [Sessions -> Reservations \cup {None}]
      /\ \A x \in Sessions : charging'[x] # None =>
           charging[x] # None /\ charging'[x].by = charging[x].by /\ charging[x] \in Reservations
  <2>1. /\ [charging[s] EXCEPT !.over = TRUE] \in Reservations
        /\ [charging[s] EXCEPT !.over = TRUE].by = charging[s].by
    BY <1>2 DEF Reservations
  <2>2. charging'[s] = [charging[s] EXCEPT !.over = TRUE]
        /\ \A x \in Sessions : x # s => charging'[x] = charging[x]
    BY <1>1, <1>2 DEF BookTypes
  <2>3. charging' \in [Sessions -> Reservations \cup {None}]
    BY <1>1, <1>2, <2>1 DEF BookTypes
  <2> QED BY <1>1, <1>2, <2>1, <2>2, <2>3 DEF BookTypes
<1>9. CASE reserved - actual <= 0
  <2>1. UNCHANGED <<groups, staff, ledger>>
    BY <1>5, <1>9 DEF Books!RefundUnused, Books!accounts
  <2>2. BookTypes'
    BY <1>1, <1>2, <1>8, <2>1 DEF BookTypes
  <2>3. MadeFirst'
    BY <1>1, <1>2, <1>8, <2>1 DEF MadeFirst
  <2>4. BooksAgree'
    BY <1>1, <2>1 DEF BooksAgree, ChargedTo, ChargedBy, Charged
  <2>5. Covered'
    <3>1. /\ \A x \in Groups : groups'[x].spent
                = groups[x].spent - IF charging[s].by[1] = x THEN 0 ELSE 0
          /\ \A x \in Groups \X Users : staff'[x].month
                = staff[x].month - IF charging[s].by = x THEN 0 ELSE 0
      <4>1. /\ \A x \in Groups : groups[x].spent \in Int
            /\ \A x \in Groups \X Users : staff[x].month \in Int
        BY <1>1 DEF BookTypes, GroupRows, StaffRows
      <4> QED BY <2>1, <4>1
    <3>2. 0 \in Nat /\ 0 <= charging[s].reserved
      BY <1>5
    <3> QED BY <1>1, <1>2, <3>1, <3>2, OneSessionLess
  <2> QED BY <2>2, <2>3, <2>4, <2>5 DEF BookInv
<1>10. CASE ~ (reserved - actual <= 0)
  <2>1. PICK refund \in Nat : refund = reserved - actual /\ refund <= reserved /\ refund > 0
    BY <1>7, <1>10
  <2> DEFINE row == Books!Row(g, "refund", refund, Books!After(g, refund), e)
             moved == Books!Moves(g, refund)
  <2>2. /\ groups' = [groups EXCEPT ![g].balance = @ + moved,
                                   ![g].spent = Books!AtLeast0(@ - refund)]
        /\ staff' = [staff EXCEPT ![e].month = Books!AtLeast0(@ - refund),
                                  ![e].day = Books!AtLeast0(@ - refund)]
        /\ ledger' = Append(ledger, row)
    BY <1>3, <1>4, <1>5, <1>10, <2>1 DEF Books!RefundUnused
  <2>3. moved \in Int /\ groups[g].balance \in Int
        /\ Books!After(g, refund) = groups[g].balance + moved
    BY <1>1 DEF Books!Moves, Books!After, BookTypes, GroupRows
  <2>4. /\ row \in LedgerRows /\ row.group = g /\ row.by = e /\ Charged(row) = -refund
        /\ row.before = groups[g].balance /\ row.after = groups[g].balance + moved
    BY <2>3 DEF Books!Row, LedgerRows, Charged
  <2> HIDE DEF row, moved
  <2>5. /\ groups' \in [Groups -> GroupRows]
        /\ \A x \in Groups :
             /\ groups'[x].made = groups[x].made
             /\ groups[x].spent \in Int /\ groups[x].balance \in Int
             /\ groups'[x].balance = groups[x].balance + IF x = g THEN moved ELSE 0
             /\ groups'[x].spent = groups[x].spent - IF x = g THEN refund ELSE 0
    <3>1. \A x \in Groups : groups[x].spent \in Nat /\ groups[x].balance \in Int
      BY <1>1 DEF BookTypes, GroupRows
    <3>2. PICK v \in Int, w \in Nat :
            v = groups[g].balance + moved /\ w = groups[g].spent - refund
      BY <1>6, <2>1, <2>3, <3>1
    <3>3. Books!AtLeast0(groups[g].spent - refund) = w
      BY <3>2 DEF Books!AtLeast0
    <3> DEFINE first == [groups EXCEPT ![g].balance = v]
    <3>4. /\ first \in [Groups -> GroupRows]
          /\ \A x \in Groups :
               /\ first[x].made = groups[x].made /\ first[x].spent = groups[x].spent
               /\ first[x].balance = IF x = g THEN v ELSE groups[x].balance
      BY <1>1 DEF BookTypes, GroupRows
    <3>5. groups' = [first EXCEPT ![g].spent = w]
      BY <2>2, <3>2, <3>3, <3>4
    <3> HIDE DEF first
    <3>6. /\ groups' \in [Groups -> GroupRows]
          /\ \A x \in Groups :
               /\ groups'[x].made = first[x].made /\ groups'[x].balance = first[x].balance
               /\ groups'[x].spent = IF x = g THEN w ELSE first[x].spent
      BY <3>4, <3>5 DEF GroupRows
    <3> QED BY <2>1, <3>1, <3>2, <3>4, <3>6
  <2>6. /\ staff' \in [Groups \X Users -> StaffRows]
        /\ \A x \in Groups \X Users :
             /\ staff'[x].made = staff[x].made /\ staff[x].month \in Int
             /\ staff'[x].month = staff[x].month - IF x = e THEN refund ELSE 0
    <3>1. \A x \in Groups \X Users : staff[x].month \in Nat /\ staff[x].day \in Nat
      BY <1>1 DEF BookTypes, StaffRows
    <3>2. PICK v \in Nat, w \in Nat :
            v = staff[e].month - refund /\ w = Books!AtLeast0(staff[e].day - refund)
      BY <1>6, <2>1, <3>1 DEF Books!AtLeast0
    <3>3. Books!AtLeast0(staff[e].month - refund) = v
      BY <3>2 DEF Books!AtLeast0
    <3> DEFINE first == [staff EXCEPT ![e].month = v]
    <3>4. /\ first \in [Groups \X Users -> StaffRows]
          /\ \A x \in Groups \X Users :
               /\ first[x].made = staff[x].made /\ first[x].day = staff[x].day
               /\ first[x].month = IF x = e THEN v ELSE staff[x].month
      BY <1>1 DEF BookTypes, StaffRows
    <3>5. staff' = [first EXCEPT ![e].day = w]
      BY <2>2, <3>2, <3>3, <3>4
    <3> HIDE DEF first
    <3>6. /\ staff' \in [Groups \X Users -> StaffRows]
          /\ \A x \in Groups \X Users :
               staff'[x].made = first[x].made /\ staff'[x].month = first[x].month
      BY <3>4, <3>5 DEF StaffRows
    <3> QED BY <2>1, <3>1, <3>2, <3>4, <3>6
  <2>7. BookTypes'
    <3>1. ledger' \in Seq(LedgerRows)
      BY <1>1, <2>2, <2>4 DEF BookTypes
    <3> QED BY <1>1, <1>2, <1>8, <2>5, <2>6, <3>1 DEF BookTypes
  <2>8. MadeFirst'
    <3>1. groups[g].made
      BY <1>1, <1>4, <1>6 DEF MadeFirst
    <3>2. ASSUME NEW x \in Groups, ~groups'[x].made
          PROVE  groups'[x].spent = 0 /\ groups'[x].balance = 0
      BY <1>1, <2>5, <3>1, <3>2 DEF MadeFirst
    <3>3. ASSUME NEW x \in Groups \X Users
          PROVE  IF staff'[x].made THEN groups'[x[1]].made ELSE staff'[x].month = 0
      <4>1. x[1] \in Groups
        OBVIOUS
      <4> QED BY <1>1, <1>6, <2>5, <2>6, <4>1 DEF MadeFirst
    <3>4. ASSUME NEW x \in Users, cleared'[x] # None PROVE staff'[cleared'[x].by].made
      <4>1. cleared[x] \in Clearances /\ staff[cleared[x].by].made
        BY <1>1, <1>2, <3>4 DEF MadeFirst, BookTypes
      <4> QED BY <1>2, <2>6, <4>1 DEF Clearances
    <3>5. ASSUME NEW x \in Sessions, charging'[x] # None PROVE staff'[charging'[x].by].made
      <4>1. charging[x] \in Reservations /\ staff[charging[x].by].made
            /\ charging'[x].by = charging[x].by
        BY <1>1, <1>8, <3>5 DEF MadeFirst
      <4> QED BY <2>6, <4>1 DEF Reservations
    <3> QED BY <3>2, <3>3, <3>4, <3>5 DEF MadeFirst
  <2>9. BooksAgree'
    <3>1. \A x \in Groups :
            /\ groups'[x].balance = IF row.group = x THEN row.after ELSE groups[x].balance
            /\ groups'[x].spent = groups[x].spent + IF row.group = x THEN Charged(row) ELSE 0
      BY <2>4, <2>5
    <3>2. \A x \in Groups \X Users :
            staff'[x].month = staff[x].month + IF row.by = x THEN Charged(row) ELSE 0
      BY <2>4, <2>6
    <3> QED BY <1>1, <2>2, <2>4, <3>1, <3>2, OneRowMore
  <2>10. Covered'
    <3>1. \A x \in Groups :
            groups'[x].spent = groups[x].spent - IF charging[s].by[1] = x THEN refund ELSE 0
      BY <1>3, <1>4, <2>5
    <3>2. \A x \in Groups \X Users :
            staff'[x].month = staff[x].month - IF charging[s].by = x THEN refund ELSE 0
      BY <1>3, <2>6
    <3>3. refund <= charging[s].reserved
      BY <1>5, <2>1
    <3> QED BY <1>1, <1>2, <3>1, <3>2, <3>3, OneSessionLess
  <2> QED BY <2>7, <2>8, <2>9, <2>10 DEF BookInv
<1> QED BY <1>9, <1>10

(* The counters that limits are checked against are what the ledger says   *)
(* was charged and not given back, and its balances lead to the current    *)
(* one, whatever the administrators switch meanwhile                       *)
(* (corporate_service: topup_balance, reserve_funds, refund_unused).       *)
THEOREM BooksAlwaysAgree ==
  ASSUME BooksAssumption
  PROVE  Books!Spec => []BooksAgree
<1>1. Books!Init => BookInv
  BY BooksAtFirst
<1>2. BookInv /\ [Books!Next]_Books!vars => BookInv'
  <2> SUFFICES ASSUME BookInv, [Books!Next]_Books!vars PROVE BookInv'
    OBVIOUS
  <2>1. CASE \E g \in Groups : GroupEdit(g)
    BY <2>1, EditsKeepBooks
  <2>2. CASE \E e \in Groups \X Users : StaffEdit(e)
    BY <2>2, EditsKeepBooks
  <2>3. CASE \E g \in Groups, u, user \in Users, monthly, daily \in Limits :
               Books!CompanyAdds(u, g, user, monthly, daily)
    <3>1. \E e \in Groups \X Users : StaffEdit(e)
      BY <2>3 DEF Books!CompanyAdds, StaffEdit
    <3> QED BY <3>1, EditsKeepBooks
  <2>4. CASE \E g \in Groups, u \in Users, e \in Groups \X Users, monthly, daily \in Limits,
                active \in BOOLEAN : Books!CompanyUpdates(u, g, e, monthly, daily, active)
    <3>1. \A e \in Groups \X Users : staff[e].role \in {"admin", "employee"}
      BY DEF BookInv, BookTypes, StaffRows
    <3>2. \E e \in Groups \X Users : StaffEdit(e)
      BY <2>4, <3>1 DEF Books!CompanyUpdates, StaffEdit
    <3> QED BY <3>2, EditsKeepBooks
  <2>5. CASE \E g \in Groups, u \in Users, e \in Groups \X Users : Books!CompanyRemoves(u, g, e)
    <3>1. \E e \in Groups \X Users : StaffEdit(e)
      BY <2>5 DEF Books!CompanyRemoves, StaffEdit
    <3> QED BY <3>1, EditsKeepBooks
  <2>6. CASE \E g \in Groups, amount \in Amounts : Books!TopupBalance(g, amount)
    BY <2>6, TopupKeepsBooks
  <2>7. CASE \E g \in Groups, u \in Users, amount \in Amounts :
               Books!CanEmployeeCharge(g, u, amount)
    BY <2>7, CheckKeepsBooks
  <2>8. CASE \E s \in Sessions, u \in Users : Books!ReserveFunds(u, s)
    BY <2>8, ReservingKeepsBooks
  <2>9. CASE \E s \in Sessions, actual \in Costs : Books!RefundUnused(s, actual)
    BY <2>9, RefundKeepsBooks
  <2>10. CASE Books!NewDay
    BY <2>10, DaysKeepBooks
  <2>11. CASE UNCHANGED Books!vars
    <3>1. UNCHANGED <<groups, staff, ledger, cleared, charging, today>>
      BY <2>11 DEF Books!vars, Books!accounts, Books!caller
    <3>2. BookTypes' /\ MadeFirst'
      BY <3>1 DEF BookInv, BookTypes, MadeFirst
    <3> QED BY <3>1, <3>2, NothingBooked DEF BookInv
  <2> QED BY <2>1, <2>2, <2>3, <2>4, <2>5, <2>6, <2>7, <2>8, <2>9, <2>10, <2>11
          DEF Books!Next, GroupEdit, StaffEdit
<1>3. BookInv => BooksAgree
  BY DEF BookInv
<1> QED BY <1>1, <1>2, <1>3, PTL DEF Books!Spec
=============================================================================
