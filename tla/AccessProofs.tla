----------------------------- MODULE AccessProofs -----------------------------
(***************************************************************************)
(* For every set of requests, devices, phones, keys and staff, and every   *)
(* bound: attempts at a code are all counted, a request runs again for a   *)
(* reason only, the cookies of a browser that was logged out have one of   *)
(* two causes, and somebody of the staff stays active.                     *)
(***************************************************************************)
EXTENDS Access, WellFoundedInduction, FiniteSetTheorems, TLAPS

----------------------------------------------------------------------------
(* The inductive invariant *)

UserRows ==
  [made: BOOLEAN, role: Roles, active: BOOLEAN, phone: Phones \cup {None},
   admin: Staff \cup {None}]

CodeRows ==
  [phone: Phones, purpose: {"auth", "phone_change"}, attempts: Nat, tried: Nat,
   verified: BOOLEAN, age: {"fresh", "live", "expired", "old"}]

Pair == [access: Accounts \cup {None}, refresh: Accounts \cup {None},
         origin: Origins \cup {None}]

(* What a request in progress keeps, while there are n codes. *)
WorkOK(w, n) ==
  /\ w.kind \in {"verify", "find", "match", "change", "create", "answer"} =>
       w.device \in Devices /\ w.who \in Accounts \cup {None}
  /\ w.kind \in {"send", "verify", "find", "match", "change", "create"} =>
       w.phone \in Phones
  /\ w.kind = "send" => w.purpose \in {"auth", "phone_change"}
  /\ w.kind = "verify" => w.code \in 1..n
  /\ w.kind = "invite" => w.role \in Roles

Tables ==
  /\ users \in [Staff -> UserRows]
  /\ codes \in Seq(CodeRows)
  /\ jar \in [Devices -> [wide: Pair, host: Pair]]

InProgress ==
  /\ req = [r \in Requests |-> req[r]]
  /\ \A r \in Requests : ~Idle(r) => WorkOK(req[r], Len(codes))

(* The requests that were let in and have not compared their guess yet. *)
Guessing(i) == {r \in Requests : Is(r, "verify") /\ req[r].code = i}

AllCounted ==
  \A i \in DOMAIN codes :
    /\ codes[i].tried = codes[i].attempts
    /\ codes[i].attempts + Cardinality(Guessing(i)) < MaxAttempts + Cardinality(Requests)

Inv == Tables /\ InProgress /\ AllCounted /\ SomeoneIsActive

LEMMA Constants ==
  /\ IsFiniteSet(Requests) /\ Cardinality(Requests) \in Nat
  /\ None \notin Accounts /\ None \notin Phones /\ Staff \subseteq Accounts
  /\ CookieDomain \in BOOLEAN /\ MaxAttempts \in Nat /\ MaxAttempts > 0
  /\ Newcomers \subseteq Accounts /\ Origins \subseteq {"secure", "insecure"}
BY AccessAssumption, FS_CardinalityType DEF Accounts

----------------------------------------------------------------------------
(* What the helpers return *)

LEMMA CodeFacts ==
  ASSUME Tables
  PROVE  /\ Len(codes) \in Nat /\ DOMAIN codes = 1..Len(codes)
         /\ \A i \in DOMAIN codes :
              /\ codes[i] \in CodeRows
              /\ codes[i].attempts \in Nat /\ codes[i].tried \in Nat
<1>1. codes \in Seq(CodeRows)
  BY DEF Tables
<1>2. Len(codes) \in Nat /\ DOMAIN codes = 1..Len(codes)
      /\ \A i \in DOMAIN codes : codes[i] \in CodeRows
  BY <1>1
<1> QED BY <1>2 DEF CodeRows

LEMMA CodeChange ==
  ASSUME Tables, NEW i \in DOMAIN codes, NEW x \in CodeRows,
         codes' = [codes EXCEPT ![i] = x]
  PROVE  /\ codes' \in Seq(CodeRows) /\ Len(codes') = Len(codes)
         /\ DOMAIN codes' = DOMAIN codes
         /\ \A j \in DOMAIN codes : codes'[j] = IF j = i THEN x ELSE codes[j]
<1>1. codes \in Seq(CodeRows)
  BY DEF Tables
<1> QED BY <1>1

LEMMA GuessingFacts ==
  ASSUME NEW i
  PROVE  /\ IsFiniteSet(Guessing(i)) /\ Cardinality(Guessing(i)) \in Nat
         /\ Cardinality(Guessing(i)) <= Cardinality(Requests)
<1>1. Guessing(i) \in SUBSET Requests
  BY DEF Guessing
<1>2. IsFiniteSet(Guessing(i)) /\ Cardinality(Guessing(i)) <= Cardinality(Requests)
  BY <1>1, Constants, FS_Subset
<1> QED BY <1>2, FS_CardinalityType

(* Of naturals up to n there is a greatest one: the furthest below n is    *)
(* the least of the distances.                                             *)
LEMMA GreatestExists ==
  ASSUME NEW n \in Nat, NEW T, T \subseteq 0..n, T # {}
  PROVE  \E x \in T : \A y \in T : y <= x
<1> DEFINE S == {n - t : t \in T}
<1>1. S \subseteq Nat /\ S # {}
  <2>1. \A t \in T : t \in Nat /\ t <= n /\ n - t \in Nat
    OBVIOUS
  <2>2. PICK t \in T : TRUE
    OBVIOUS
  <2> QED BY <2>1, <2>2
<1>2. PICK x \in S : \A y \in S : ~ (<<y, x>> \in OpToRel(<, Nat))
  BY <1>1, NatLessThanWellFounded, WFMin
<1>3. PICK m \in T : x = n - m
  BY <1>2
<1>4. \A u \in T : u <= m
  <2> TAKE u \in T
  <2>1. n - u \in S /\ n - u \in Nat /\ n - m \in Nat /\ m \in Nat /\ u \in Nat
    BY <1>1
  <2>2. ~ (n - u < n - m)
    BY <1>2, <1>3, <2>1 DEF OpToRel
  <2> QED BY <2>1, <2>2
<1> QED BY <1>4

LEMMA NewestFacts ==
  ASSUME Tables, NEW p \in Phones, NEW purpose, Valid(p, purpose) # {}
  PROVE  Newest(p, purpose) \in DOMAIN codes
<1>1. Valid(p, purpose) \subseteq 1..Len(codes)
  BY CodeFacts DEF Valid, SentTo
<1>2. Newest(p, purpose) \in Valid(p, purpose)
  BY <1>1, CodeFacts, GreatestExists DEF Newest
<1> QED BY <1>1, <1>2, CodeFacts

LEMMA CookieFacts ==
  ASSUME Tables, NEW d \in Devices
  PROVE  Access(d) \subseteq Accounts /\ Refreshes(d) \subseteq Accounts
<1>1. jar[d] \in [wide: Pair, host: Pair]
  BY DEF Tables
<1>2. jar[d].wide \in Pair /\ jar[d].host \in Pair
  BY <1>1
<1>3. \A s \in {"wide", "host"} : /\ jar[d][s].access \in Accounts \cup {None}
                                 /\ jar[d][s].refresh \in Accounts \cup {None}
  BY <1>2 DEF Pair
<1> QED BY <1>3 DEF Access, Refreshes

----------------------------------------------------------------------------
(* A request goes from one await to the next *)

(* Whatever a request does next that is not a guess, no code has more      *)
(* guesses ahead of it.                                                    *)
LEMMA WorkStep ==
  ASSUME Inv, NEW r \in Requests, NEW w, req' = [req EXCEPT ![r] = w],
         Len(codes') \in Nat, Len(codes') >= Len(codes),
         w # None => WorkOK(w, Len(codes')) /\ w.kind # "verify"
  PROVE  /\ InProgress'
         /\ \A i : Guessing(i)' \subseteq Guessing(i)
         /\ \A i : r \notin Guessing(i)'
<1>1. /\ req = [q \in Requests |-> req[q]]
      /\ \A q \in Requests : req[q] # None => WorkOK(req[q], Len(codes))
      /\ Len(codes) \in Nat
  BY CodeFacts DEF Inv, InProgress, Idle
<1>2. /\ req' = [q \in Requests |-> req'[q]] /\ req'[r] = w
      /\ \A q \in Requests \ {r} : req'[q] = req[q]
  BY <1>1
<1>3. \A q \in Requests : req'[q] # None => WorkOK(req'[q], Len(codes'))
  <2> SUFFICES ASSUME NEW q \in Requests, req'[q] # None
               PROVE  WorkOK(req'[q], Len(codes'))
    OBVIOUS
  <2>1. CASE q = r
    BY <1>2, <2>1
  <2>2. CASE q # r
    <3>1. WorkOK(req[q], Len(codes)) /\ req'[q] = req[q]
      BY <1>1, <1>2, <2>2
    <3>2. \A i \in 1..Len(codes) : i \in 1..Len(codes')
      BY <1>1
    <3> QED BY <3>1, <3>2 DEF WorkOK
  <2> QED BY <2>1, <2>2
<1>4. InProgress'
  BY <1>2, <1>3 DEF InProgress, Idle
<1>5. \A i : r \notin Guessing(i)'
  BY <1>2 DEF Guessing, Is, Idle
<1>6. \A i : Guessing(i)' \subseteq Guessing(i)
  BY <1>2, <1>5 DEF Guessing, Is, Idle
<1> QED BY <1>4, <1>5, <1>6

LEMMA FewerGuessing ==
  ASSUME Inv, UNCHANGED codes, \A i : Guessing(i)' \subseteq Guessing(i)
  PROVE  AllCounted'
<1> SUFFICES ASSUME NEW i \in DOMAIN codes
             PROVE  /\ codes[i].tried = codes[i].attempts
                    /\ codes[i].attempts + Cardinality(Guessing(i)')
                         < MaxAttempts + Cardinality(Requests)
  BY DEF AllCounted
<1>1. /\ codes[i].tried = codes[i].attempts /\ codes[i].attempts \in Nat
      /\ codes[i].attempts + Cardinality(Guessing(i)) < MaxAttempts + Cardinality(Requests)
  BY CodeFacts DEF Inv, AllCounted
<1>2. Guessing(i)' \in SUBSET Guessing(i)
  OBVIOUS
<1>3. /\ IsFiniteSet(Guessing(i)') /\ Cardinality(Guessing(i)') <= Cardinality(Guessing(i))
  BY <1>2, GuessingFacts, FS_Subset
<1>4. Cardinality(Guessing(i)') \in Nat /\ Cardinality(Guessing(i)) \in Nat
  BY <1>3, GuessingFacts, FS_CardinalityType
<1> QED BY <1>1, <1>3, <1>4, Constants

(* A step of one request that leaves codes, cookies and staff alone. *)
LEMMA OnlyWork ==
  ASSUME Inv, NEW r \in Requests, NEW w, req' = [req EXCEPT ![r] = w],
         UNCHANGED <<users, codes, jar>>,
         w # None => WorkOK(w, Len(codes)) /\ w.kind # "verify"
  PROVE  Inv'
<1>1. Tables' /\ SomeoneIsActive'
  BY DEF Inv, Tables, SomeoneIsActive, Active
<1>2. Len(codes') \in Nat /\ Len(codes') >= Len(codes)
  BY CodeFacts DEF Inv
<1>3. InProgress' /\ AllCounted'
  BY <1>2, WorkStep, FewerGuessing
<1> QED BY <1>1, <1>3 DEF Inv

(* A step that leaves requests, codes and cookies alone. *)
LEMMA OnlyUsers ==
  ASSUME Inv, UNCHANGED <<req, codes, jar>>,
         users' \in [Staff -> UserRows], SomeoneIsActive'
  PROVE  Inv'
<1>1. Tables' /\ InProgress'
  BY DEF Inv, Tables, InProgress, Idle
<1>2. AllCounted'
  BY DEF Inv, AllCounted, Guessing, Is, Idle
<1> QED BY <1>1, <1>2 DEF Inv
----------------------------------------------------------------------------
(* Initially *)

LEMMA InitInv == Init => Inv
<1> SUFFICES ASSUME Init PROVE Inv
  OBVIOUS
<1>1. /\ Initially \in [Staff -> [made: BOOLEAN, role: Roles, active: BOOLEAN,
                                  phone: Phones \cup {None}, client: BOOLEAN]]
      /\ \E o \in Staff : Initially[o].made /\ Initially[o].active
  BY AccessAssumption
<1>2. users \in [Staff -> UserRows]
  BY <1>1 DEF Init, UserRows
<1>3. codes \in Seq(CodeRows) /\ DOMAIN codes = {}
  BY DEF Init
<1>4. jar \in [Devices -> [wide: Pair, host: Pair]]
  BY DEF Init, Pair, Nobody
<1>5. req = [r \in Requests |-> req[r]] /\ \A r \in Requests : Idle(r)
  BY DEF Init, Idle
<1>6. SomeoneIsActive
  BY <1>1 DEF Init, SomeoneIsActive, Active
<1> QED BY <1>2, <1>3, <1>4, <1>5, <1>6 DEF Inv, Tables, InProgress, AllCounted

----------------------------------------------------------------------------
(* Requests that leave codes, cookies and staff alone *)

LEMMA Beginnings ==
  ASSUME Inv, NEW r \in Requests
  PROVE  /\ \A p \in Phones : SendCode(r, p) => Inv'
         /\ \A d \in Devices, p \in Phones : RequestPhoneChange(r, d, p) => Inv'
         /\ \A d \in Devices : SessionSteps(r, d) => Inv'
<1>1. ASSUME NEW p \in Phones, NEW purpose \in {"auth", "phone_change"},
             Begins(r, [kind |-> "send", phone |-> p, purpose |-> purpose]),
             UNCHANGED <<users, codes, jar>>
      PROVE  Inv'
  <2> DEFINE w == [kind |-> "send", phone |-> p, purpose |-> purpose]
  <2>1. WorkOK(w, Len(codes)) /\ w.kind # "verify"
    BY DEF WorkOK
  <2>2. req' = [req EXCEPT ![r] = w]
    BY <1>1 DEF Begins
  <2> HIDE DEF w
  <2> QED BY <1>1, <2>1, <2>2, OnlyWork
<1>2. ASSUME NEW d \in Devices, NEW by, NEW a \in Accounts \cup {None},
             Begins(r, Answering(d, by, a)), UNCHANGED <<users, codes, jar>>
      PROVE  Inv'
  <2> DEFINE w == Answering(d, by, a)
  <2>1. WorkOK(w, Len(codes)) /\ w.kind # "verify"
    BY <1>2 DEF WorkOK, Answering
  <2>2. req' = [req EXCEPT ![r] = w]
    BY <1>2 DEF Begins
  <2> HIDE DEF w
  <2> QED BY <1>2, <2>1, <2>2, OnlyWork
<1>3. \A p \in Phones : SendCode(r, p) => Inv'
  BY <1>1 DEF SendCode
<1>4. \A d \in Devices, p \in Phones : RequestPhoneChange(r, d, p) => Inv'
  BY <1>1 DEF RequestPhoneChange
<1>5. ASSUME NEW d \in Devices, SessionSteps(r, d) PROVE Inv'
  <2>1. \A o \in Staff : SSOExchange(r, d, o) => Inv'
    BY <1>2, Constants DEF SSOExchange
  <2>2. Refreshes(d) \subseteq Accounts
    BY CookieFacts DEF Inv
  <2>3. Refresh(r, d) => Inv'
    BY <1>2, <2>2 DEF Refresh
  <2>4. Logout(r, d) => Inv'
    BY <1>2 DEF Logout
  <2>5. ASSUME NEW role \in Roles, CreateUser(r, d, role) PROVE Inv'
    <3> DEFINE w == [kind |-> "invite", role |-> role]
    <3>1. WorkOK(w, Len(codes)) /\ w.kind # "verify"
      BY DEF WorkOK
    <3>2. req' = [req EXCEPT ![r] = w] /\ UNCHANGED <<users, codes, jar>>
      BY <2>5 DEF CreateUser, Begins
    <3> HIDE DEF w
    <3> QED BY <3>1, <3>2, OnlyWork
  <2> QED BY <1>5, <2>1, <2>3, <2>4, <2>5 DEF SessionSteps
<1> QED BY <1>3, <1>4, <1>5

LEMMA OthersEnd ==
  ASSUME Inv, NEW r \in Requests
  PROVE  Lost(r) \/ SaveAnswer(r) \/ Raises(r) \/ (\E k \in Keys : Post(r, k)) => Inv'
<1>1. ASSUME Ends(r), UNCHANGED <<users, codes, jar>>
      PROVE  Inv'
  <2>1. req' = [req EXCEPT ![r] = None]
    BY <1>1 DEF Ends, Continues
  <2> QED BY <1>1, <2>1, OnlyWork
<1>2. ASSUME NEW k \in Keys, Post(r, k)
      PROVE  Inv'
  <2> DEFINE w == [kind |-> "post", key |-> k, run |-> Len(runs) + 1]
  <2>1. WorkOK(w, Len(codes)) /\ w.kind # "verify"
    BY DEF WorkOK
  <2>2. req' = [req EXCEPT ![r] = w] /\ UNCHANGED <<users, codes, jar>>
    BY <1>2 DEF Post, Begins
  <2> HIDE DEF w
  <2> QED BY <2>1, <2>2, OnlyWork
<1> QED BY <1>1, <1>2 DEF Lost, SaveAnswer, Raises

LEMMA LoginInv ==
  ASSUME Inv, NEW r \in Requests
  PROVE  FindAccount(r) \/ FindClient(r) \/ CreateClient(r) => Inv'
<1>1. Is(r, "find") \/ Is(r, "match") \/ Is(r, "create") =>
        /\ req[r].device \in Devices /\ req[r].phone \in Phones
        /\ req[r].who \in Accounts \cup {None}
  BY DEF Inv, InProgress, Is, WorkOK
<1>2. ASSUME NEW w, Continues(r, w), UNCHANGED <<users, codes, jar>>,
             w # None => WorkOK(w, Len(codes)) /\ w.kind # "verify"
      PROVE  Inv'
  BY <1>2, OnlyWork DEF Continues
<1>3. ASSUME NEW a \in Accounts, Is(r, "match") \/ Is(r, "create"),
             Continues(r, Answering(req[r].device, "login", a)),
             UNCHANGED <<users, codes, jar>>
      PROVE  Inv'
  <2> DEFINE w == Answering(req[r].device, "login", a)
  <2>1. WorkOK(w, Len(codes)) /\ w.kind # "verify"
    BY <1>1, <1>3 DEF WorkOK, Answering
  <2> HIDE DEF w
  <2> QED BY <1>2, <1>3, <2>1 DEF w
<1>4. ASSUME NEW a \in Accounts \cup {None}, NEW kind \in {"match", "create"},
             Is(r, "find") \/ Is(r, "match"),
             Continues(r, [kind |-> kind, device |-> req[r].device,
                           phone |-> req[r].phone, who |-> a]),
             UNCHANGED <<users, codes, jar>>
      PROVE  Inv'
  <2> DEFINE w == [kind |-> kind, device |-> req[r].device,
                   phone |-> req[r].phone, who |-> a]
  <2>1. WorkOK(w, Len(codes)) /\ w.kind # "verify"
    BY <1>1, <1>4 DEF WorkOK
  <2> HIDE DEF w
  <2> QED BY <1>2, <1>4, <2>1 DEF w
<1>5. UsersWith(req[r].phone) \subseteq Accounts /\ ClientsWith(req[r].phone) \subseteq Accounts
  BY Constants DEF UsersWith, ClientsWith
<1>6. FindAccount(r) => Inv'
  BY <1>4, <1>5 DEF FindAccount
<1>7. FindClient(r) => Inv'
  BY <1>1, <1>3, <1>4, <1>5 DEF FindClient
<1>8. ASSUME CreateClient(r) PROVE Inv'
  <2>1. PICK a \in IF req[r].who # None THEN {req[r].who}
                   ELSE {n \in Unused : \A m \in Unused : n <= m} :
             Ends(r) \/ Continues(r, Answering(req[r].device, "login", a))
    BY <1>8 DEF CreateClient
  <2>2. a \in Accounts
    BY <1>1, <1>8, <2>1, Constants DEF CreateClient, Unused
  <2>3. UNCHANGED <<users, codes, jar>> /\ Is(r, "create")
    BY <1>8 DEF CreateClient
  <2>4. Ends(r) => Inv'
    BY <1>2, <2>3 DEF Ends
  <2> QED BY <1>3, <2>1, <2>2, <2>3, <2>4
<1> QED BY <1>6, <1>7, <1>8
----------------------------------------------------------------------------
(* Codes *)

LEMMA SaveCodeInv ==
  ASSUME Inv, NEW r \in Requests, SaveCode(r)
  PROVE  Inv'
<1> DEFINE new == [phone |-> req[r].phone, purpose |-> req[r].purpose, attempts |-> 0,
                   tried |-> 0, verified |-> FALSE, age |-> "fresh"]
<1>1. req[r].phone \in Phones /\ req[r].purpose \in {"auth", "phone_change"}
  BY DEF Inv, InProgress, SaveCode, Is, WorkOK
<1>2. new \in CodeRows /\ new.attempts = 0 /\ new.tried = 0
  BY <1>1 DEF CodeRows
<1>3. codes' = Append(codes, new) /\ UNCHANGED <<users, jar>>
      /\ req' = [req EXCEPT ![r] = None]
  BY DEF SaveCode, Ends, Continues
<1> HIDE DEF new
<1>4. codes \in Seq(CodeRows) /\ Len(codes) \in Nat /\ DOMAIN codes = 1..Len(codes)
  BY CodeFacts DEF Inv, Tables
<1>5. /\ codes' \in Seq(CodeRows) /\ Len(codes') = Len(codes) + 1
      /\ DOMAIN codes' = 1..(Len(codes) + 1)
      /\ \A i \in 1..Len(codes) : codes'[i] = codes[i]
      /\ codes'[Len(codes) + 1] = new
  BY <1>2, <1>3, <1>4
<1>6. Tables' /\ SomeoneIsActive'
  BY <1>3, <1>5 DEF Inv, Tables, SomeoneIsActive, Active
<1>7. InProgress' /\ \A i : Guessing(i)' \subseteq Guessing(i)
  <2>1. Len(codes') \in Nat /\ Len(codes') >= Len(codes)
    BY <1>4, <1>5
  <2> QED BY <1>3, <2>1, WorkStep
<1>8. AllCounted'
  <2> SUFFICES ASSUME NEW i \in DOMAIN codes'
               PROVE  /\ codes'[i].tried = codes'[i].attempts
                      /\ codes'[i].attempts + Cardinality(Guessing(i)')
                           < MaxAttempts + Cardinality(Requests)
    BY DEF AllCounted
  <2>1. /\ IsFiniteSet(Guessing(i)') /\ Cardinality(Guessing(i)') \in Nat
        /\ Cardinality(Guessing(i)') <= Cardinality(Guessing(i))
    BY <1>7, GuessingFacts, FS_Subset, FS_CardinalityType
  <2>2. Cardinality(Guessing(i)) \in Nat /\ Cardinality(Guessing(i)) <= Cardinality(Requests)
    BY GuessingFacts
  <2>3. CASE i \in 1..Len(codes)
    <3>1. /\ codes[i].tried = codes[i].attempts /\ codes[i].attempts \in Nat
          /\ codes[i].attempts + Cardinality(Guessing(i)) < MaxAttempts + Cardinality(Requests)
          /\ codes'[i] = codes[i]
      BY <1>4, <1>5, <2>3, CodeFacts DEF Inv, AllCounted
    <3> QED BY <2>1, <2>2, <3>1, Constants
  <2>4. CASE i = Len(codes) + 1
    <3>1. codes'[i].tried = 0 /\ codes'[i].attempts = 0
      BY <1>2, <1>5, <2>4
    <3> QED BY <2>1, <2>2, <3>1, Constants
  <2> QED BY <1>4, <1>5, <2>3, <2>4
<1> QED BY <1>6, <1>7, <1>8 DEF Inv

LEMMA AgesInv ==
  ASSUME Inv, NEW i \in DOMAIN codes, Ages(i)
  PROVE  Inv'
<1> DEFINE new == [codes[i] EXCEPT !.age = Older[codes[i].age]]
<1>1. codes[i] \in CodeRows
  BY CodeFacts DEF Inv
<1>2. /\ codes[i].age \in {"fresh", "live", "expired", "old"}
      /\ codes[i].age # "old"
  BY <1>1 DEF CodeRows, Ages
<1>3. Older[codes[i].age] \in {"fresh", "live", "expired", "old"}
  BY <1>2 DEF Older
<1>4. new \in CodeRows /\ new.attempts = codes[i].attempts /\ new.tried = codes[i].tried
  BY <1>1, <1>3 DEF CodeRows
<1>5. codes' = [codes EXCEPT ![i] = new] /\ UNCHANGED <<users, jar, req>>
  BY DEF Ages
<1> HIDE DEF new
<1>6. /\ codes' \in Seq(CodeRows) /\ Len(codes') = Len(codes)
      /\ DOMAIN codes' = DOMAIN codes
      /\ \A j \in DOMAIN codes : codes'[j] = IF j = i THEN new ELSE codes[j]
  BY <1>4, <1>5, CodeChange DEF Inv
<1>7. Tables' /\ SomeoneIsActive'
  BY <1>5, <1>6 DEF Inv, Tables, SomeoneIsActive, Active
<1>8. InProgress'
  BY <1>5, <1>6 DEF Inv, InProgress, Idle
<1>9. \A j : Guessing(j)' = Guessing(j)
  BY <1>5 DEF Guessing, Is, Idle
<1>10. AllCounted'
  <2> SUFFICES ASSUME NEW j \in DOMAIN codes
               PROVE  /\ codes'[j].tried = codes'[j].attempts
                      /\ codes'[j].attempts + Cardinality(Guessing(j)')
                           < MaxAttempts + Cardinality(Requests)
    BY <1>6 DEF AllCounted
  <2>1. codes'[j].tried = codes[j].tried /\ codes'[j].attempts = codes[j].attempts
    BY <1>4, <1>6
  <2>2. Guessing(j)' = Guessing(j)
    BY <1>9
  <2> QED BY <2>1, <2>2 DEF Inv, AllCounted
<1> QED BY <1>7, <1>8, <1>10 DEF Inv

LEMMA VerifyInv ==
  ASSUME Inv, NEW r \in Requests, NEW d \in Devices, NEW p \in Phones,
         NEW right, NEW purpose, NEW who \in Accounts \cup {None},
         Verify(r, d, p, right, purpose, who)
  PROVE  Inv'
<1> DEFINE i == Newest(p, purpose)
           w == [kind |-> "verify", device |-> d, phone |-> p, who |-> who,
                 right |-> right, code |-> i, seen |-> codes[i].attempts]
<1>1. i \in DOMAIN codes
  BY NewestFacts DEF Inv, Verify
<1>2. codes[i].attempts < MaxAttempts /\ req[r] = None
      /\ req' = [req EXCEPT ![r] = w] /\ UNCHANGED <<users, codes, jar>>
  BY DEF Verify, Begins, Idle
<1>3. WorkOK(w, Len(codes)) /\ w.kind = "verify" /\ w.code = i
  BY <1>1, CodeFacts DEF Inv, WorkOK
<1> HIDE DEF w, i
<1>4. Tables' /\ SomeoneIsActive'
  BY <1>2 DEF Inv, Tables, SomeoneIsActive, Active
<1>5. /\ req' = [q \in Requests |-> req'[q]] /\ req'[r] = w
      /\ \A q \in Requests \ {r} : req'[q] = req[q]
  BY <1>2 DEF Inv, InProgress
<1>6. InProgress'
  BY <1>2, <1>3, <1>5 DEF Inv, InProgress, Idle
<1>7. \A j : j # i => Guessing(j)' \subseteq Guessing(j)
  BY <1>3, <1>5 DEF Guessing, Is, Idle
<1>8. AllCounted'
  <2> SUFFICES ASSUME NEW j \in DOMAIN codes
               PROVE  /\ codes[j].tried = codes[j].attempts
                      /\ codes[j].attempts + Cardinality(Guessing(j)')
                           < MaxAttempts + Cardinality(Requests)
    BY <1>2 DEF AllCounted
  <2>1. /\ codes[j].tried = codes[j].attempts /\ codes[j].attempts \in Nat
        /\ codes[j].attempts + Cardinality(Guessing(j)) < MaxAttempts + Cardinality(Requests)
    BY CodeFacts DEF Inv, AllCounted
  <2>2. Guessing(j)' \in SUBSET Requests
    BY DEF Guessing
  <2>3. /\ Cardinality(Guessing(j)') \in Nat
        /\ Cardinality(Guessing(j)') <= Cardinality(Requests)
    BY <2>2, Constants, FS_Subset, FS_CardinalityType
  <2>4. CASE j = i
    <3>1. codes[j].attempts < MaxAttempts
      BY <1>2, <2>4
    <3> QED BY <2>1, <2>3, <3>1, Constants
  <2>5. CASE j # i
    <3>1. Guessing(j)' \in SUBSET Guessing(j)
      BY <1>7, <2>5
    <3>2. Cardinality(Guessing(j)') <= Cardinality(Guessing(j)) /\ Cardinality(Guessing(j)) \in Nat
      BY <3>1, GuessingFacts, FS_Subset
    <3> QED BY <2>1, <2>3, <3>2, Constants
  <2> QED BY <2>4, <2>5
<1> QED BY <1>4, <1>6, <1>8 DEF Inv
(* The UPDATE moves one guess from ahead of the code to its count. *)
LEMMA DecideInv ==
  ASSUME Inv, NEW r \in Requests, Decide(r)
  PROVE  Inv'
<1> DEFINE i == req[r].code
           right == req[r].right
           w == [kind |-> IF req[r].who = None THEN "find" ELSE "change",
                 device |-> req[r].device, phone |-> req[r].phone, who |-> req[r].who]
           new == [codes[i] EXCEPT !.attempts = codes[i].attempts + 1,
                                   !.tried = codes[i].tried + 1,
                                   !.verified = codes[i].verified \/ right]
<1>1. /\ Is(r, "verify") /\ i \in DOMAIN codes /\ req[r].phone \in Phones
      /\ req[r].device \in Devices /\ req[r].who \in Accounts \cup {None}
  BY CodeFacts DEF Inv, InProgress, Decide, Is, WorkOK
<1>2. /\ codes[i] \in CodeRows /\ codes[i].attempts \in Nat /\ codes[i].tried \in Nat
  BY <1>1, CodeFacts DEF Inv
<1>3. /\ new \in CodeRows /\ new.attempts = codes[i].attempts + 1
      /\ new.tried = codes[i].tried + 1
  <2>1. codes[i].attempts + 1 \in Nat /\ codes[i].tried + 1 \in Nat
    BY <1>2
  <2>2. (codes[i].verified \/ right) \in BOOLEAN
    OBVIOUS
  <2> QED BY <1>2, <2>1, <2>2 DEF CodeRows
<1>4. /\ codes' = [codes EXCEPT ![i] = new] /\ UNCHANGED <<users, jar>>
      /\ \/ req' = [req EXCEPT ![r] = None]
         \/ req' = [req EXCEPT ![r] = w]
  BY <1>1, Zenon DEF Decide, Counted, Ends, Continues
<1>5. WorkOK(w, Len(codes)) /\ w.kind # "verify"
  BY <1>1 DEF WorkOK
<1> HIDE DEF new, w
<1>6. /\ codes' \in Seq(CodeRows) /\ Len(codes') = Len(codes)
      /\ DOMAIN codes' = DOMAIN codes
      /\ \A j \in DOMAIN codes : codes'[j] = IF j = i THEN new ELSE codes[j]
  BY <1>1, <1>3, <1>4, CodeChange DEF Inv
<1>7. Tables' /\ SomeoneIsActive'
  BY <1>4, <1>6 DEF Inv, Tables, SomeoneIsActive, Active
<1>8. /\ InProgress' /\ \A j : Guessing(j)' \subseteq Guessing(j)
      /\ \A j : r \notin Guessing(j)'
  <2>1. Len(codes') \in Nat /\ Len(codes') >= Len(codes)
    BY <1>6, CodeFacts DEF Inv
  <2> QED BY <1>4, <1>5, <1>6, <2>1, WorkStep
<1>9. AllCounted'
  <2> SUFFICES ASSUME NEW j \in DOMAIN codes
               PROVE  /\ codes'[j].tried = codes'[j].attempts
                      /\ codes'[j].attempts + Cardinality(Guessing(j)')
                           < MaxAttempts + Cardinality(Requests)
    BY <1>6 DEF AllCounted
  <2>1. /\ codes[j].tried = codes[j].attempts /\ codes[j].attempts \in Nat
        /\ codes[j].attempts + Cardinality(Guessing(j)) < MaxAttempts + Cardinality(Requests)
    BY CodeFacts DEF Inv, AllCounted
  <2>2. IsFiniteSet(Guessing(j)) /\ Cardinality(Guessing(j)) \in Nat
    BY GuessingFacts
  <2>3. CASE j = i
    <3>1. r \in Guessing(j)
      BY <1>1, <2>3 DEF Guessing
    <3>2. Guessing(j)' \in SUBSET (Guessing(j) \ {r})
      BY <1>8
    <3>3. /\ IsFiniteSet(Guessing(j) \ {r})
          /\ Cardinality(Guessing(j) \ {r}) = Cardinality(Guessing(j)) - 1
      BY <2>2, <3>1, FS_RemoveElement
    <3>4. /\ Cardinality(Guessing(j)') \in Nat
          /\ Cardinality(Guessing(j)') <= Cardinality(Guessing(j)) - 1
      BY <3>2, <3>3, FS_Subset, FS_CardinalityType
    <3>5. codes'[j].tried = codes[j].tried + 1 /\ codes'[j].attempts = codes[j].attempts + 1
      BY <1>3, <1>6, <2>3
    <3> QED BY <2>1, <2>2, <3>4, <3>5, Constants
  <2>4. CASE j # i
    <3>1. Guessing(j)' \in SUBSET Guessing(j)
      BY <1>8
    <3>2. /\ Cardinality(Guessing(j)') <= Cardinality(Guessing(j))
          /\ Cardinality(Guessing(j)') \in Nat
      BY <2>2, <3>1, FS_Subset, FS_CardinalityType
    <3>3. codes'[j] = codes[j]
      BY <1>6, <2>4
    <3> QED BY <2>1, <2>2, <3>2, <3>3, Constants
  <2> QED BY <2>3, <2>4
<1> QED BY <1>7, <1>8, <1>9 DEF Inv

LEMMA ChangePhoneInv ==
  ASSUME Inv, NEW r \in Requests, ChangePhone(r)
  PROVE  Inv'
<1> DEFINE a == req[r].who
           p == req[r].phone
<1>1. p \in Phones
  BY DEF Inv, InProgress, ChangePhone, Is, WorkOK
<1>2. /\ req' = [req EXCEPT ![r] = None] /\ UNCHANGED <<codes, jar>>
      /\ \/ users' = users
         \/ a \in Staff /\ users' = [users EXCEPT ![a].phone = p]
  BY DEF ChangePhone, Ends, Continues
<1>3. users \in [Staff -> UserRows]
  BY DEF Inv, Tables
<1>4. /\ users' \in [Staff -> UserRows]
      /\ \A o \in Staff : users'[o].made = users[o].made /\ users'[o].active = users[o].active
  BY <1>1, <1>2, <1>3 DEF UserRows
<1>5. SomeoneIsActive'
  BY <1>4 DEF Inv, SomeoneIsActive, Active
<1>6. Tables'
  BY <1>2, <1>4 DEF Inv, Tables
<1>7. InProgress' /\ AllCounted'
  <2>1. Len(codes') \in Nat /\ Len(codes') >= Len(codes)
    BY <1>2, CodeFacts DEF Inv
  <2> QED BY <1>2, <2>1, WorkStep, FewerGuessing
<1> QED BY <1>5, <1>6, <1>7 DEF Inv
----------------------------------------------------------------------------
(* Cookies *)

(* What is answered is a cookie of a known account or none. *)
LEMMA JarType ==
  ASSUME Inv, NEW d \in Devices, NEW s \in {"wide", "host"}, NEW x \in Pair,
         jar' = [jar EXCEPT ![d][s] = x]
  PROVE  /\ jar' \in [Devices -> [wide: Pair, host: Pair]]
         /\ \A e \in Devices, z \in {"wide", "host"} :
              jar'[e][z] = IF e = d /\ z = s THEN x ELSE jar[e][z]
<1>1. jar \in [Devices -> [wide: Pair, host: Pair]]
  BY DEF Inv, Tables
<1>2. jar[d] \in [wide: Pair, host: Pair]
  BY <1>1
<1> DEFINE y == [jar[d] EXCEPT ![s] = x]
<1>3. y \in [wide: Pair, host: Pair]
      /\ \A z \in {"wide", "host"} : y[z] = IF z = s THEN x ELSE jar[d][z]
  <2>1. CASE s = "wide"
    BY <1>2, <2>1
  <2>2. CASE s = "host"
    BY <1>2, <2>2
  <2> QED BY <2>1, <2>2
<1>4. jar' = [jar EXCEPT ![d] = y]
  OBVIOUS
<1> HIDE DEF y
<1> QED BY <1>1, <1>3, <1>4

LEMMA AnswerInv ==
  ASSUME Inv, NEW r \in Requests, Answer(r)
  PROVE  Inv'
<1>1. req[r].device \in Devices /\ req[r].who \in Accounts \cup {None}
  BY DEF Inv, InProgress, Answer, Is, WorkOK
<1>2. PICK s \in {"wide", "host"}, x \in Pair :
        jar' = [jar EXCEPT ![req[r].device][s] = x]
  BY <1>1 DEF Answer, Domain, Nobody, Pair
<1>3. UNCHANGED <<users, codes>> /\ req' = [req EXCEPT ![r] = None]
  BY DEF Answer, Ends, Continues
<1>4. Tables' /\ SomeoneIsActive'
  BY <1>1, <1>2, <1>3, JarType DEF Inv, Tables, SomeoneIsActive, Active
<1>5. InProgress' /\ AllCounted'
  <2>1. Len(codes') \in Nat /\ Len(codes') >= Len(codes)
    BY <1>3, CodeFacts DEF Inv
  <2> QED BY <1>3, <2>1, WorkStep, FewerGuessing
<1> QED BY <1>4, <1>5 DEF Inv

LEMMA CookieExpiresInv ==
  ASSUME Inv, NEW d \in Devices, NEW s \in {"wide", "host"}, CookieExpires(d, s)
  PROVE  Inv'
<1> DEFINE x == [jar[d][s] EXCEPT !.access = None]
<1>1. jar[d][s] \in Pair
  BY DEF Inv, Tables
<1>2. x \in Pair
  BY <1>1 DEF Pair
<1>3. jar' = [jar EXCEPT ![d][s] = x] /\ UNCHANGED <<users, codes, req>>
  BY DEF CookieExpires
<1> HIDE DEF x
<1>4. Tables' /\ SomeoneIsActive' /\ InProgress'
  BY <1>2, <1>3, JarType DEF Inv, Tables, SomeoneIsActive, Active, InProgress, Idle
<1>5. AllCounted'
  BY <1>3 DEF Inv, AllCounted, Guessing, Is, Idle
<1> QED BY <1>4, <1>5 DEF Inv

----------------------------------------------------------------------------
(* The staff *)

(* Whoever changes somebody else stays active. *)
LEMMA SomeoneElse ==
  ASSUME NEW o \in Staff, NEW a \in Staff \ {o}, Active(a), users'[a] = users[a]
  PROVE  SomeoneIsActive'
BY DEF SomeoneIsActive, Active

LEMMA SaveUserInv ==
  ASSUME Inv, NEW r \in Requests, SaveUser(r)
  PROVE  Inv'
<1>1. users \in [Staff -> UserRows] /\ req[r].role \in Roles
  BY DEF Inv, Tables, InProgress, SaveUser, Is, WorkOK
<1>2. /\ req' = [req EXCEPT ![r] = None] /\ UNCHANGED <<codes, jar>>
      /\ \/ users' = users
         \/ \E o \in Staff :
              /\ ~users[o].made
              /\ users' = [users EXCEPT ![o] =
                   [made |-> TRUE, role |-> req[r].role, active |-> TRUE,
                    phone |-> None, admin |-> None]]
  BY DEF SaveUser, Ends, Continues
<1>3. PICK a \in Staff : Active(a)
  BY DEF Inv, SomeoneIsActive
<1>4. users' \in [Staff -> UserRows] /\ users'[a] = users[a]
  <2>1. ASSUME NEW o \in Staff, ~users[o].made,
               users' = [users EXCEPT ![o] =
                 [made |-> TRUE, role |-> req[r].role, active |-> TRUE,
                  phone |-> None, admin |-> None]]
        PROVE  users' \in [Staff -> UserRows] /\ users'[a] = users[a]
    <3>1. [made |-> TRUE, role |-> req[r].role, active |-> TRUE,
           phone |-> None, admin |-> None] \in UserRows
      BY <1>1 DEF UserRows
    <3>2. a # o
      BY <1>3, <2>1 DEF Active
    <3> QED BY <1>1, <2>1, <3>1, <3>2
  <2> QED BY <1>1, <1>2, <2>1
<1>5. Tables' /\ SomeoneIsActive'
  BY <1>2, <1>3, <1>4 DEF Inv, Tables, SomeoneIsActive, Active
<1>6. InProgress' /\ AllCounted'
  <2>1. Len(codes') \in Nat /\ Len(codes') >= Len(codes)
    BY <1>2, CodeFacts DEF Inv
  <2> QED BY <1>2, <2>1, WorkStep, FewerGuessing
<1> QED BY <1>5, <1>6 DEF Inv

LEMMA StaffInv ==
  ASSUME Inv, NEW d \in Devices, NEW o \in Staff, StaffSteps(d, o)
  PROVE  Inv'
<1>1. users \in [Staff -> UserRows] /\ users[o] \in UserRows
  BY DEF Inv, Tables
<1>2. PICK a \in Staff : Active(a)
  BY DEF Inv, SomeoneIsActive
<1>3. ASSUME NEW role \in Roles \cup {None}, NEW active \in BOOLEAN \cup {None},
             UpdateUser(d, o, role, active)
      PROVE  Inv'
  <2> DEFINE x == [users[o] EXCEPT !.role = IF role = None THEN users[o].role ELSE role,
                                   !.active = IF active = None THEN users[o].active ELSE active]
  <2>1. /\ users' = [users EXCEPT ![o] = x]
        /\ UNCHANGED <<req, codes, jar>>
    BY <1>1, <1>3, Zenon DEF UpdateUser
  <2>2. x \in UserRows
    <3>1. (IF role = None THEN users[o].role ELSE role) \in Roles
      BY <1>1 DEF UserRows
    <3>2. (IF active = None THEN users[o].active ELSE active) \in BOOLEAN
      BY <1>1, Zenon DEF UserRows
    <3> QED BY <1>1, <3>1, <3>2 DEF UserRows
  <2> HIDE DEF x
  <2>3. users' \in [Staff -> UserRows]
    BY <1>1, <2>1, <2>2
  <2>4. PICK b \in Access(d) \ {o} : Active(b)
    BY <1>3 DEF UpdateUser
  <2>5. b \in Staff \ {o} /\ users'[b] = users[b]
    BY <1>1, <2>1, <2>4 DEF Active
  <2> QED BY <2>1, <2>3, <2>4, <2>5, SomeoneElse, OnlyUsers
<1>4. ASSUME DeleteUser(d, o) PROVE Inv'
  <2>1. /\ users' = [users EXCEPT ![o].active = FALSE]
        /\ UNCHANGED <<req, codes, jar>>
    BY <1>4 DEF DeleteUser
  <2>2. users' \in [Staff -> UserRows]
    BY <1>1, <2>1 DEF UserRows
  <2>3. PICK b \in Superadmins(d) \ {o} : Active(b)
    BY <1>4 DEF DeleteUser, Superadmins
  <2>4. b \in Staff \ {o} /\ users'[b] = users[b]
    BY <1>1, <2>1, <2>3 DEF Active
  <2> QED BY <2>1, <2>2, <2>3, <2>4, SomeoneElse, OnlyUsers
<1>5. ASSUME ActivateUser(d, o) PROVE Inv'
  <2>1. /\ users' = [users EXCEPT ![o].active = TRUE]
        /\ UNCHANGED <<req, codes, jar>> /\ users[o].active = FALSE
    BY <1>1, <1>5 DEF ActivateUser, UserRows
  <2>2. users' \in [Staff -> UserRows]
    BY <1>1, <2>1 DEF UserRows
  <2>3. a # o /\ users'[a] = users[a]
    BY <1>1, <1>2, <2>1 DEF Active
  <2> QED BY <1>2, <2>1, <2>2, <2>3, SomeoneElse, OnlyUsers
<1>6. ASSUME NEW p \in Phones, "operator" \in Roles, CreateOperator(d, o, p) PROVE Inv'
  <2>1. PICK b \in Admins(d) :
          users' = [users EXCEPT ![o] = [made |-> TRUE, role |-> "operator", active |-> TRUE,
                                         phone |-> p, admin |-> b]]
    BY <1>6 DEF CreateOperator
  <2>2. b \in Staff /\ ~users[o].made /\ UNCHANGED <<req, codes, jar>>
    BY <1>6, <2>1 DEF CreateOperator, Admins, Active
  <2>3. users' \in [Staff -> UserRows]
    BY <1>1, <1>6, <2>1, <2>2 DEF UserRows
  <2>4. a # o /\ users'[a] = users[a]
    BY <1>1, <1>2, <2>1, <2>2 DEF Active
  <2> QED BY <1>2, <2>2, <2>3, <2>4, SomeoneElse, OnlyUsers
<1>7. ASSUME DeactivateOperator(d, o) PROVE Inv'
  <2>1. /\ users' = [users EXCEPT ![o].active = FALSE]
        /\ UNCHANGED <<req, codes, jar>>
    BY <1>7 DEF DeactivateOperator
  <2>2. users' \in [Staff -> UserRows]
    BY <1>1, <2>1 DEF UserRows
  <2>3. PICK b \in Admins(d) : users[o].role = "operator"
    BY <1>7 DEF DeactivateOperator, Manages
  <2>4. Active(b) /\ b # o
    BY <2>3 DEF Admins
  <2>5. b \in Staff \ {o} /\ users'[b] = users[b]
    BY <1>1, <2>1, <2>4 DEF Active
  <2> QED BY <2>1, <2>2, <2>4, <2>5, SomeoneElse, OnlyUsers
<1>8. ASSUME ActivateOperator(d, o) PROVE Inv'
  <2>1. /\ users' = [users EXCEPT ![o].active = TRUE]
        /\ UNCHANGED <<req, codes, jar>> /\ users[o].active = FALSE
    BY <1>1, <1>8 DEF ActivateOperator, UserRows
  <2>2. users' \in [Staff -> UserRows]
    BY <1>1, <2>1 DEF UserRows
  <2>3. a # o /\ users'[a] = users[a]
    BY <1>1, <1>2, <2>1 DEF Active
  <2> QED BY <1>2, <2>1, <2>2, <2>3, SomeoneElse, OnlyUsers
<1> QED BY <1>3, <1>4, <1>5, <1>6, <1>7, <1>8 DEF StaffSteps
----------------------------------------------------------------------------
(* Every step *)

LEMMA CrashInv ==
  ASSUME Inv, Crash
  PROVE  Inv'
<1>1. /\ req' = [r \in Requests |-> None] /\ UNCHANGED <<users, codes, jar>>
  BY DEF Crash
<1>2. Tables' /\ SomeoneIsActive'
  BY <1>1 DEF Inv, Tables, SomeoneIsActive, Active
<1>3. InProgress'
  BY <1>1 DEF InProgress, Idle
<1>4. \A i : Guessing(i)' \subseteq Guessing(i)
  BY <1>1 DEF Guessing, Is, Idle
<1> QED BY <1>1, <1>2, <1>3, <1>4, FewerGuessing DEF Inv

LEMMA NextInv ==
  ASSUME Inv, [Next]_vars
  PROVE  Inv'
<1>1. ASSUME NEW r \in Requests, CodeSteps(r) PROVE Inv'
  <2>1. SaveCode(r) \/ Decide(r) \/ ChangePhone(r) \/ Answer(r) => Inv'
    BY SaveCodeInv, DecideInv, ChangePhoneInv, AnswerInv
  <2>2. FindAccount(r) \/ FindClient(r) \/ CreateClient(r) \/ Lost(r) => Inv'
    BY LoginInv, OthersEnd
  <2>3. ASSUME NEW p \in Phones, SendCode(r, p) PROVE Inv'
    BY <2>3, Beginnings
  <2>4. ASSUME NEW p \in Phones, NEW d \in Devices, RequestPhoneChange(r, d, p) PROVE Inv'
    BY <2>4, Beginnings
  <2>5. ASSUME NEW p \in Phones, NEW d \in Devices, NEW right \in BOOLEAN,
               VerifyLogin(r, d, p, right) \/ ConfirmPhoneChange(r, d, p, right)
        PROVE  Inv'
    <3>1. Access(d) \subseteq Accounts
      BY CookieFacts DEF Inv
    <3>2. PICK who \in Accounts \cup {None}, purpose \in {"auth", "phone_change"} :
            Verify(r, d, p, right, purpose, who)
      BY <2>5, <3>1 DEF VerifyLogin, ConfirmPhoneChange
    <3> QED BY <3>2, VerifyInv
  <2> QED BY <1>1, <2>1, <2>2, <2>3, <2>4, <2>5 DEF CodeSteps
<1>2. ASSUME NEW r \in Requests, NEW d \in Devices, SessionSteps(r, d) PROVE Inv'
  BY <1>2, Beginnings
<1>3. ASSUME NEW d \in Devices, NEW o \in Staff, StaffSteps(d, o) PROVE Inv'
  BY <1>3, StaffInv
<1>4. ASSUME KeySteps PROVE Inv'
  <2>1. ASSUME NEW k \in Keys, KeyExpires(k) \/ CleanupKeys(k) PROVE Inv'
    <3>1. UNCHANGED <<users, req, codes, jar>>
      BY <2>1 DEF KeyExpires, CleanupKeys
    <3>2. users' \in [Staff -> UserRows] /\ SomeoneIsActive'
      BY <3>1 DEF Inv, Tables, SomeoneIsActive, Active
    <3> QED BY <3>1, <3>2, OnlyUsers
  <2> QED BY <1>4, <2>1, OthersEnd DEF KeySteps
<1>5. ASSUME NEW i \in DOMAIN codes, Ages(i) PROVE Inv'
  BY <1>5, AgesInv
<1>6. ASSUME NEW d \in Devices, NEW s \in {"wide", "host"}, CookieExpires(d, s) PROVE Inv'
  BY <1>6, CookieExpiresInv
<1>7. ASSUME UNCHANGED vars PROVE Inv'
  <2>1. UNCHANGED <<users, req, codes, jar>>
    BY <1>7 DEF vars
  <2>2. users' \in [Staff -> UserRows] /\ SomeoneIsActive'
    BY <2>1 DEF Inv, Tables, SomeoneIsActive, Active
  <2> QED BY <2>1, <2>2, OnlyUsers
<1> QED BY <1>1, <1>2, <1>3, <1>4, <1>5, <1>6, <1>7, SaveUserInv, CrashInv DEF Next

----------------------------------------------------------------------------
(* Theorems *)

LEMMA Invariant == Spec => []Inv
<1>1. Inv /\ [Next]_vars => Inv'
  BY NextInv
<1> QED BY <1>1, InitInv, PTL DEF Spec

(* The attempts at a code are counted in the database by one UPDATE each,  *)
(* so requests that overlap compare at most one guess for each of them     *)
(* beyond OTP_MAX_ATTEMPTS (otp_service.verify).                           *)
THEOREM GuessesBounded == Spec => []GuessesAreBounded
<1>1. Inv => GuessesAreBounded
  <2> SUFFICES ASSUME Inv, NEW i \in DOMAIN codes
               PROVE  codes[i].tried < MaxAttempts + Cardinality(Requests)
    BY DEF GuessesAreBounded
  <2>1. /\ codes[i].tried = codes[i].attempts /\ codes[i].attempts \in Nat
        /\ codes[i].attempts + Cardinality(Guessing(i)) < MaxAttempts + Cardinality(Requests)
    BY CodeFacts DEF Inv, AllCounted
  <2> QED BY <2>1, GuessingFacts, Constants
<1> QED BY <1>1, Invariant, PTL

(* Whatever the staff do to each other's accounts (update_user,            *)
(* delete_user), an active one is left.                                    *)
THEOREM SomeoneStays == Spec => []SomeoneIsActive
<1>1. Inv => SomeoneIsActive
  BY DEF Inv
<1> QED BY <1>1, Invariant, PTL

----------------------------------------------------------------------------
(* Cookies after a logout *)

(* An answer on its way when made requests were made. *)
AnswerOK(w, n) ==
  /\ w.device \in Devices /\ w.by \in {"login", "refresh", "logout"}
  /\ w.by # "logout" => w.who \in Accounts
  /\ w.sent \in Nat /\ w.sent <= n

(* The cookies a logout does not reach, or an answer that came after it. *)
Excused == {d \in Devices : Holds(d, Kept) \/ out[d].again}

(* A refresh that was sent after the logout had cookies to send. *)
SentOK(w, outs, excused) ==
  w.by = "refresh" /\ outs[w.device] # None /\ w.sent > outs[w.device].at
  => w.device \in excused

OutOK ==
  \A d \in Devices :
    out[d] # None => out[d].at \in Nat /\ out[d].at <= made

CookiesOK ==
  \A d \in Devices :
    /\ \A s \in {"wide", "host"} : jar[d][s].refresh = None => jar[d][s].access = None
    /\ Holds(d, Kept) =>
         jar[d][Kept].origin = IF CookieDomain THEN "insecure" ELSE "secure"
    /\ out[d] # None /\ Holds(d, Cleared) => d \in Excused

JInv ==
  /\ made \in Nat /\ out = [d \in Devices |-> out[d]] /\ OutOK /\ CookiesOK
  /\ \A r \in Requests : Is(r, "answer") => AnswerOK(req[r], made) /\ SentOK(req[r], out, Excused)

LEMMA DomainFacts ==
  /\ Cleared = IF CookieDomain THEN "wide" ELSE "host"
  /\ Kept = IF CookieDomain THEN "host" ELSE "wide"
  /\ Cleared \in {"wide", "host"} /\ Kept \in {"wide", "host"} /\ Cleared # Kept
  /\ \A origin \in Origins :
       /\ Domain("logout", origin) = Cleared
       /\ \A by \in {"login", "refresh"} :
            /\ Domain(by, origin) \in {Cleared, Kept}
            /\ Domain(by, origin) = Kept =>
                 origin = IF CookieDomain THEN "insecure" ELSE "secure"
BY Constants DEF Domain, Cleared, Kept

LEMMA SlotFacts ==
  Cleared \in {"wide", "host"} /\ Kept \in {"wide", "host"} /\ Cleared # Kept
BY DomainFacts

LEMMA DomainsStay == Cleared' = Cleared /\ Kept' = Kept
BY DEF Domain, Cleared, Kept

(* A request goes on and changes no cookie: if it is to be answered with   *)
(* cookies, they are excused.                                              *)
LEMMA JarStays ==
  ASSUME JInv, UNCHANGED <<jar, out>>, made' \in {made, made + 1}
  PROVE  /\ made' \in Nat /\ made <= made' /\ Excused' = Excused
         /\ OutOK' /\ CookiesOK'
<1>1. made' \in Nat /\ made <= made'
  BY DEF JInv
<1>2. \A d, s : Holds(d, s)' = Holds(d, s)
  BY DEF Holds
<1>3. Excused' = Excused
  BY DomainsStay DEF Excused, Holds
<1>4. OutOK'
  BY <1>1 DEF JInv, OutOK
<1>5. CookiesOK'
  BY <1>2, <1>3, DomainsStay DEF JInv, CookiesOK
<1> QED BY <1>1, <1>3, <1>4, <1>5

LEMMA CookiesStay ==
  ASSUME Inv, JInv, UNCHANGED <<jar, out>>, made' \in {made, made + 1},
         NEW r \in Requests, NEW w, req' = [req EXCEPT ![r] = w],
         w # None /\ w.kind = "answer" => AnswerOK(w, made') /\ SentOK(w, out, Excused)
  PROVE  JInv'
<1>1. /\ req'[r] = w
      /\ \A q \in Requests \ {r} : req'[q] = req[q]
  BY DEF Inv, InProgress
<1>2. ASSUME NEW q \in Requests, Is(q, "answer")'
      PROVE  AnswerOK(req'[q], made') /\ SentOK(req'[q], out', Excused')
  <2>1. CASE q = r
    BY <1>1, <1>2, <2>1, JarStays DEF Is, Idle
  <2>2. CASE q # r
    <3>1. req'[q] = req[q] /\ AnswerOK(req[q], made) /\ SentOK(req[q], out, Excused)
      BY <1>1, <1>2, <2>2 DEF JInv, Is, Idle
    <3>2. AnswerOK(req[q], made')
      BY <3>1, JarStays DEF AnswerOK, JInv
    <3> QED BY <3>1, <3>2, JarStays
  <2> QED BY <2>1, <2>2
<1> QED BY <1>2, JarStays DEF JInv

LEMMA OthersStay ==
  ASSUME JInv, UNCHANGED <<jar, out, req>>, made' \in {made, made + 1}
  PROVE  JInv'
<1>1. \A q \in Requests : Is(q, "answer")' =>
        AnswerOK(req[q], made') /\ SentOK(req[q], out', Excused')
  BY JarStays DEF JInv, Is, Idle, AnswerOK
<1> QED BY <1>1, JarStays DEF JInv

LEMMA RefreshKeeps ==
  ASSUME Inv, JInv, NEW r \in Requests, NEW d \in Devices, Refresh(r, d)
  PROVE  JInv'
<1>1. PICK a \in Refreshes(d) : Begins(r, Answering(d, "refresh", a))
  BY DEF Refresh
<1> DEFINE w == Answering(d, "refresh", a)
<1>2. a \in Accounts /\ a # None
  BY CookieFacts DEF Inv, Refreshes
<1>3. /\ w.device = d /\ w.by = "refresh" /\ w.who = a /\ w.sent = made + 1
  BY DEF Answering
<1>4. req' = [req EXCEPT ![r] = w] /\ made' = made + 1 /\ UNCHANGED <<jar, out>>
  BY <1>1 DEF Begins, Handled, Refresh
<1> HIDE DEF w
<1>5. AnswerOK(w, made')
  BY <1>2, <1>3, <1>4 DEF AnswerOK, JInv
<1>6. Holds(d, Kept) \/ Holds(d, Cleared)
  <2>1. PICK s \in {"wide", "host"} : jar[d][s].refresh = a
    BY DEF Refreshes
  <2>2. Holds(d, s)
    BY <1>2, <2>1 DEF Holds
  <2> QED BY <2>1, <2>2, DomainFacts
<1>7. SentOK(w, out, Excused)
  BY <1>3, <1>6 DEF SentOK, Excused, JInv, CookiesOK
<1> QED BY <1>4, <1>5, <1>7, CookiesStay

(* After an answer a browser that has not been logged in since is excused. *)
LEMMA AnswerKeeps ==
  ASSUME Inv, JInv, NEW r \in Requests, Answer(r)
  PROVE  JInv'
<1>0. PICK d, by, who : d = req[r].device /\ by = req[r].by /\ who = req[r].who
  OBVIOUS
<1> DEFINE back == out[d].again \/ req[r].sent <= out[d].at
<1>1. Is(r, "answer") /\ AnswerOK(req[r], made) /\ SentOK(req[r], out, Excused)
  BY DEF Answer, JInv
<1>2. d \in Devices /\ by \in {"login", "refresh", "logout"}
      /\ (by # "logout" => who \in Accounts /\ who # None)
  BY <1>0, <1>1, Constants DEF AnswerOK
<1>3. PICK origin \in Origins :
        /\ jar' = [jar EXCEPT ![d][Domain(by, origin)] =
             IF by = "logout" THEN Nobody
             ELSE [access |-> who, refresh |-> who, origin |-> origin]]
        /\ out' = [out EXCEPT ![d] =
             IF by = "login" THEN None
             ELSE IF by = "logout" THEN [at |-> made, again |-> FALSE]
             ELSE IF out[d] = None THEN None
             ELSE [at |-> out[d].at, again |-> back]]
  BY <1>0, Zenon DEF Answer
<1> DEFINE s == Domain(by, origin)
           x == IF by = "logout" THEN Nobody
                ELSE [access |-> who, refresh |-> who, origin |-> origin]
<1>4. req' = [req EXCEPT ![r] = None] /\ UNCHANGED made
  BY DEF Answer, Ends, Continues
<1>5. x \in Pair /\ s \in {"wide", "host"}
      /\ (by = "logout" => s = Cleared)
      /\ (s = Kept => by # "logout" /\ origin = IF CookieDomain THEN "insecure" ELSE "secure")
  BY <1>2, DomainFacts DEF Pair, Nobody
<1>6. /\ by = "logout" => x.access = None /\ x.refresh = None
      /\ by # "logout" => x.access = who /\ x.refresh = who /\ x.origin = origin
  BY DEF Nobody
<1>7. jar' = [jar EXCEPT ![d][s] = x]
  BY <1>3
<1> HIDE DEF s, x, back
<1>8. \A e \in Devices, z \in {"wide", "host"} :
        jar'[e][z] = IF e = d /\ z = s THEN x ELSE jar[e][z]
  BY <1>2, <1>5, <1>7, JarType
<1>9. out = [e \in Devices |-> out[e]]
  BY DEF JInv
<1>10. /\ \A e \in Devices \ {d} : out'[e] = out[e]
       /\ by = "login" => out'[d] = None
       /\ by = "logout" => out'[d] = [at |-> made, again |-> FALSE]
       /\ by = "refresh" =>
            IF out[d] = None THEN out'[d] = None
            ELSE out'[d] = [at |-> out[d].at, again |-> back]
  BY <1>2, <1>3, <1>9
<1>11. /\ out' = [e \in Devices |-> out'[e]]
       /\ by = "logout" => out'[d].at = made
       /\ by = "refresh" /\ out'[d] # None =>
            out[d] # None /\ out'[d].at = out[d].at /\ out'[d].again = back
  <2>1. out' = [e \in Devices |-> out'[e]]
    BY <1>3, <1>9
  <2>2. by = "logout" => out'[d].at = made
    BY <1>10
  <2>3. by = "refresh" /\ out'[d] # None => out[d] # None
    BY <1>10
  <2>4. by = "refresh" /\ out'[d] # None => out'[d].at = out[d].at /\ out'[d].again = back
    BY <1>10
  <2> QED BY <2>1, <2>2, <2>3, <2>4
<1>12. OutOK'
  <2>1. SUFFICES ASSUME NEW e \in Devices, out'[e] # None
                 PROVE  out'[e].at \in Nat /\ out'[e].at <= made
    BY <1>4 DEF OutOK
  <2>2. made \in Nat /\ OutOK
    BY DEF JInv
  <2>3. CASE e # d
    BY <1>10, <2>1, <2>2, <2>3 DEF OutOK
  <2>4. CASE e = d
    BY <1>2, <1>10, <1>11, <2>1, <2>2, <2>4 DEF OutOK
  <2> QED BY <2>3, <2>4
<1>13. /\ \A e \in Devices : e # d => (e \in Excused <=> e \in Excused')
       /\ d \in Excused /\ by = "refresh" /\ out'[d] # None => d \in Excused'
  <2>1. \A e \in Devices :
          jar'[e][Kept] = IF e = d /\ Kept = s THEN x ELSE jar[e][Kept]
    BY <1>8, SlotFacts
  <2>2. \A e \in Devices : Holds(e, Kept)' <=> ({jar'[e][Kept].access, jar'[e][Kept].refresh} # {None})
    BY DomainsStay DEF Holds
  <2>3. \A e \in Devices : e # d => (Holds(e, Kept)' <=> Holds(e, Kept))
    BY <2>1, <2>2 DEF Holds
  <2>4. by = "refresh" /\ Holds(d, Kept) => Holds(d, Kept)'
    <3>1. CASE Kept = s
      <4>1. by = "refresh" => jar'[d][Kept].access = who /\ who # None
        BY <1>2, <1>6, <2>1, <3>1
      <4> QED BY <1>2, <2>2, <4>1
    <3>2. CASE Kept # s
      BY <1>2, <2>1, <2>2, <3>2 DEF Holds
    <3> QED BY <3>1, <3>2
  <2>5. by = "refresh" /\ out'[d] # None /\ out[d].again => out'[d].again
    BY <1>11, Zenon DEF back
  <2>6. \A e \in Devices : e # d => (e \in Excused <=> e \in Excused')
    BY <1>10, <2>3, Zenon DEF Excused
  <2> QED BY <1>2, <2>4, <2>5, <2>6, Zenon DEF Excused
<1>14. CookiesOK'
  <2> SUFFICES ASSUME NEW e \in Devices
               PROVE  /\ \A z \in {"wide", "host"} :
                           jar'[e][z].refresh = None => jar'[e][z].access = None
                      /\ {jar'[e][Kept].access, jar'[e][Kept].refresh} # {None} =>
                           jar'[e][Kept].origin = IF CookieDomain THEN "insecure" ELSE "secure"
                      /\ out'[e] # None
                         /\ {jar'[e][Cleared].access, jar'[e][Cleared].refresh} # {None}
                         => e \in Excused'
    BY DomainsStay DEF CookiesOK, Holds
  <2>1. /\ \A z \in {"wide", "host"} : jar[e][z].refresh = None => jar[e][z].access = None
        /\ {jar[e][Kept].access, jar[e][Kept].refresh} # {None} =>
             jar[e][Kept].origin = IF CookieDomain THEN "insecure" ELSE "secure"
        /\ out[e] # None /\ {jar[e][Cleared].access, jar[e][Cleared].refresh} # {None}
           => e \in Excused
    BY DEF JInv, CookiesOK, Holds
  <2>2. CASE e # d
    BY <1>8, <1>10, <1>13, <2>1, <2>2, SlotFacts
  <2>3. CASE e = d
    <3>1. \A z \in {"wide", "host"} : jar'[d][z] = IF z = s THEN x ELSE jar[d][z]
      BY <1>2, <1>8
    <3>2. \A z \in {"wide", "host"} : jar'[d][z].refresh = None => jar'[d][z].access = None
      BY <1>2, <1>6, <2>1, <2>3, <3>1
    <3>3. {jar'[d][Kept].access, jar'[d][Kept].refresh} # {None} =>
            jar'[d][Kept].origin = IF CookieDomain THEN "insecure" ELSE "secure"
      BY <1>2, <1>5, <1>6, <2>1, <2>3, <3>1, SlotFacts
    <3>4. ASSUME out'[d] # None,
                 {jar'[d][Cleared].access, jar'[d][Cleared].refresh} # {None}
          PROVE  d \in Excused'
      <4>1. CASE by = "login"
        BY <1>10, <3>4, <4>1
      <4>2. CASE by = "logout"
        BY <1>5, <1>6, <3>1, <3>4, <4>2, SlotFacts
      <4>3. CASE by = "refresh"
        <5>1. out[d] # None
          BY <1>11, <3>4, <4>3
        <5>2. CASE s # Cleared
          BY <1>13, <2>1, <2>3, <3>1, <3>4, <4>3, <5>1, <5>2, SlotFacts
        <5>3. CASE req[r].sent > out[d].at
          BY <1>0, <1>1, <1>13, <3>4, <4>3, <5>1, <5>3 DEF SentOK
        <5>4. CASE ~(req[r].sent > out[d].at)
          <6>1. back
            BY <1>0, <1>1, <1>2, <5>1, <5>4 DEF back, JInv, OutOK, AnswerOK
          <6> QED BY <1>2, <1>11, <3>4, <4>3, <6>1, Zenon DEF Excused
        <5> QED BY <5>3, <5>4
      <4> QED BY <1>2, <4>1, <4>2, <4>3
    <3> QED BY <2>3, <3>2, <3>3, <3>4
  <2> QED BY <2>2, <2>3
<1>15. ASSUME NEW q \in Requests, Is(q, "answer")'
       PROVE  AnswerOK(req'[q], made') /\ SentOK(req'[q], out', Excused')
  <2>1. q # r /\ req'[q] = req[q] /\ Is(q, "answer")
    BY <1>4, <1>15 DEF Inv, InProgress, Is, Idle
  <2>2. AnswerOK(req[q], made) /\ SentOK(req[q], out, Excused)
    BY <2>1 DEF JInv
  <2>3. req[q].device \in Devices /\ req[q].sent \in Nat /\ req[q].sent <= made
    BY <2>2 DEF AnswerOK
  <2>4. CASE req[q].device # d
    BY <1>4, <1>10, <1>13, <2>1, <2>2, <2>3, <2>4 DEF SentOK
  <2>5. CASE req[q].device = d
    <3>1. CASE by = "login"
      BY <1>4, <1>10, <2>1, <2>2, <2>5, <3>1 DEF SentOK
    <3>2. CASE by = "logout"
      BY <1>4, <1>11, <2>1, <2>2, <2>3, <2>5, <3>2 DEF SentOK, JInv
    <3>3. CASE by = "refresh"
      BY <1>4, <1>11, <1>13, <2>1, <2>2, <2>5, <3>3 DEF SentOK
    <3> QED BY <1>2, <3>1, <3>2, <3>3
  <2> QED BY <2>4, <2>5
<1> QED BY <1>4, <1>11, <1>12, <1>14, <1>15 DEF JInv

LEMMA CookieExpiresKeeps ==
  ASSUME Inv, JInv, NEW d \in Devices, NEW s \in {"wide", "host"}, CookieExpires(d, s)
  PROVE  JInv'
<1> DEFINE x == [jar[d][s] EXCEPT !.access = None]
<1>1. jar[d][s] \in Pair
  BY DEF Inv, Tables
<1>2. /\ x \in Pair /\ x.access = None /\ x.refresh = jar[d][s].refresh
      /\ x.origin = jar[d][s].origin
  BY <1>1 DEF Pair
<1>3. jar' = [jar EXCEPT ![d][s] = x] /\ UNCHANGED <<out, req, made>>
      /\ jar[d][s].access # None
  BY DEF CookieExpires
<1> HIDE DEF x
<1>4. \A e \in Devices, z \in {"wide", "host"} :
        jar'[e][z] = IF e = d /\ z = s THEN x ELSE jar[e][z]
  BY <1>2, <1>3, JarType
<1>5. jar[d][s].refresh # None
  BY <1>3 DEF JInv, CookiesOK
<1>6. \A e \in Devices, z \in {"wide", "host"} :
        /\ jar'[e][z].refresh = jar[e][z].refresh /\ jar'[e][z].origin = jar[e][z].origin
        /\ jar'[e][z].refresh = None => jar'[e][z].access = None
        /\ ({jar'[e][z].access, jar'[e][z].refresh} # {None}
            <=> {jar[e][z].access, jar[e][z].refresh} # {None})
  <2> TAKE e \in Devices, z \in {"wide", "host"}
  <2>1. jar[e][z].refresh = None => jar[e][z].access = None
    BY DEF JInv, CookiesOK
  <2>2. CASE e = d /\ z = s
    <3>1. jar'[e][z] = x
      BY <1>4, <2>2
    <3> QED BY <1>2, <1>5, <2>2, <3>1
  <2>3. CASE ~(e = d /\ z = s)
    <3>1. jar'[e][z] = jar[e][z]
      BY <1>4, <2>3
    <3> QED BY <2>1, <3>1
  <2> QED BY <2>2, <2>3
<1>7. Excused' = Excused
  <2>1. \A e \in Devices : Holds(e, Kept)' <=> Holds(e, Kept)
    BY <1>6, SlotFacts, DomainsStay DEF Holds
  <2> QED BY <1>3, <2>1 DEF Excused
<1>8. CookiesOK'
  <2>1. \A e \in Devices : Holds(e, Kept)' => jar'[e][Kept].origin = jar[e][Kept].origin /\ Holds(e, Kept)
    BY <1>6, SlotFacts, DomainsStay DEF Holds
  <2>2. \A e \in Devices : Holds(e, Cleared)' => Holds(e, Cleared)
    BY <1>6, SlotFacts, DomainsStay DEF Holds
  <2>3. CookiesOK
    BY DEF JInv
  <2> QED BY <1>3, <1>6, <1>7, <2>1, <2>2, <2>3, DomainsStay DEF CookiesOK
<1>9. OutOK' /\ \A q \in Requests : Is(q, "answer")' =>
        AnswerOK(req[q], made) /\ SentOK(req[q], out', Excused')
  BY <1>3, <1>7 DEF JInv, OutOK, Is, Idle
<1> QED BY <1>3, <1>8, <1>9 DEF JInv

LEMMA InitJar == Init => JInv
<1> SUFFICES ASSUME Init PROVE JInv
  OBVIOUS
<1>1. /\ made = 0 /\ out = [d \in Devices |-> None]
      /\ \A r \in Requests : Idle(r)
      /\ \A d \in Devices : jar[d] = [wide |-> Nobody, host |-> Nobody]
  BY DEF Init, Idle
<1>2. \A d \in Devices, s \in {"wide", "host"} :
        jar[d][s].access = None /\ jar[d][s].refresh = None
  BY <1>1 DEF Nobody
<1>3. \A d \in Devices, s \in {"wide", "host"} : ~Holds(d, s)
  BY <1>2 DEF Holds
<1> QED BY <1>1, <1>2, <1>3, SlotFacts DEF JInv, OutOK, CookiesOK, Is

LEMMA NextJar ==
  ASSUME Inv, JInv, [Next]_vars
  PROVE  JInv'
<1>1. made \in Nat
  BY DEF JInv
<1>2. ASSUME NEW r \in Requests, NEW w, Begins(r, w) \/ Continues(r, w),
             UNCHANGED <<jar, out>>,
             w # None /\ w.kind = "answer" => w.by # "refresh" /\ AnswerOK(w, made)
      PROVE  JInv'
  <2>1. req' = [req EXCEPT ![r] = w] /\ made' \in {made, made + 1}
    BY <1>2 DEF Begins, Continues, Handled
  <2>2. w # None /\ w.kind = "answer" => AnswerOK(w, made') /\ SentOK(w, out, Excused)
    BY <1>1, <1>2, <2>1 DEF AnswerOK, SentOK
  <2> QED BY <1>2, <2>1, <2>2, CookiesStay
<1>3. ASSUME NEW r \in Requests, Ends(r), UNCHANGED <<jar, out>>
      PROVE  JInv'
  BY <1>2, <1>3 DEF Ends
<1>4. ASSUME NEW d \in Devices, NEW a \in Accounts
      PROVE  LET w == Answering(d, "login", a) IN
             w.by # "refresh" /\ AnswerOK(w, made)
  BY <1>1, <1>4 DEF Answering, AnswerOK
<1>5. ASSUME NEW r \in Requests, CodeSteps(r) PROVE JInv'
  <2>1. SaveCode(r) \/ ChangePhone(r) \/ Lost(r) => JInv'
    BY <1>3 DEF SaveCode, ChangePhone, Lost
  <2>2. ASSUME NEW p \in Phones, NEW d \in Devices,
               SendCode(r, p) \/ RequestPhoneChange(r, d, p)
        PROVE  JInv'
    BY <1>2, <2>2 DEF SendCode, RequestPhoneChange
  <2>3. ASSUME NEW p, NEW d, NEW right, NEW purpose, NEW who,
               Verify(r, d, p, right, purpose, who)
        PROVE  JInv'
    BY <1>2, <2>3 DEF Verify
  <2>4. Decide(r) => JInv'
    BY <1>2, <1>3 DEF Decide
  <2>5. FindAccount(r) => JInv'
    BY <1>2 DEF FindAccount
  <2>6. ASSUME NEW a \in Accounts, Is(r, "match") \/ Is(r, "create"),
               Continues(r, Answering(req[r].device, "login", a)), UNCHANGED <<jar, out>>
        PROVE  JInv'
    <3>1. req[r].device \in Devices
      BY <2>6 DEF Inv, InProgress, Is, WorkOK
    <3> QED BY <1>2, <1>4, <2>6, <3>1
  <2>7. Is(r, "match") \/ Is(r, "create") => req[r].who \in Accounts \cup {None}
    BY DEF Inv, InProgress, Is, WorkOK
  <2>8. ClientsWith(req[r].phone) \subseteq Accounts /\ Unused \subseteq Accounts
    BY Constants DEF ClientsWith, Unused
  <2>9. ASSUME FindClient(r) PROVE JInv'
    <3>1. CASE \E a \in Accounts : Continues(r, Answering(req[r].device, "login", a))
      BY <2>6, <2>9, <3>1 DEF FindClient
    <3>2. CASE Continues(r, [kind |-> "create", device |-> req[r].device,
                             phone |-> req[r].phone, who |-> req[r].who])
      BY <1>2, <2>9, <3>2 DEF FindClient
    <3> QED BY <2>7, <2>8, <2>9, <3>1, <3>2 DEF FindClient
  <2>10. ASSUME CreateClient(r) PROVE JInv'
    <3>1. CASE Ends(r)
      BY <1>3, <2>10, <3>1 DEF CreateClient
    <3>2. CASE \E a \in Accounts : Continues(r, Answering(req[r].device, "login", a))
      BY <2>6, <2>10, <3>2 DEF CreateClient
    <3> QED BY <2>7, <2>8, <2>10, <3>1, <3>2 DEF CreateClient
  <2>11. ASSUME NEW p \in Phones, SendCode(r, p) PROVE JInv'
    BY <1>2, <2>11 DEF SendCode
  <2> QED BY <1>5, <2>1, <2>2, <2>3, <2>4, <2>5, <2>9, <2>10, <2>11, AnswerKeeps
          DEF CodeSteps, VerifyLogin, ConfirmPhoneChange
<1>6. ASSUME NEW r \in Requests, NEW d \in Devices, SessionSteps(r, d) PROVE JInv'
  <2>1. ASSUME NEW o \in Staff, SSOExchange(r, d, o) PROVE JInv'
    BY <1>2, <1>4, <2>1, Constants DEF SSOExchange
  <2>2. Logout(r, d) => JInv'
    BY <1>1, <1>2 DEF Logout, Answering, AnswerOK
  <2>3. ASSUME NEW role \in Roles, CreateUser(r, d, role) PROVE JInv'
    BY <1>2, <2>3 DEF CreateUser
  <2> QED BY <1>6, <2>1, <2>2, <2>3, RefreshKeeps DEF SessionSteps
<1>7. ASSUME NEW d \in Devices, NEW o \in Staff, StaffSteps(d, o) PROVE JInv'
  BY <1>7, OthersStay DEF StaffSteps, UpdateUser, DeleteUser, ActivateUser,
    CreateOperator, DeactivateOperator, ActivateOperator, Handled
<1>8. ASSUME KeySteps PROVE JInv'
  <2>1. ASSUME NEW r \in Requests, SaveAnswer(r) \/ Raises(r) PROVE JInv'
    BY <1>3, <2>1 DEF SaveAnswer, Raises
  <2>2. ASSUME NEW r \in Requests, NEW k \in Keys, Post(r, k) PROVE JInv'
    BY <1>2, <2>2 DEF Post
  <2>3. ASSUME NEW k \in Keys, KeyExpires(k) \/ CleanupKeys(k) PROVE JInv'
    BY <2>3, OthersStay DEF KeyExpires, CleanupKeys
  <2> QED BY <1>8, <2>1, <2>2, <2>3 DEF KeySteps
<1>9. ASSUME NEW i \in DOMAIN codes, Ages(i) PROVE JInv'
  BY <1>9, OthersStay DEF Ages
<1>10. ASSUME NEW r \in Requests, SaveUser(r) PROVE JInv'
  BY <1>3, <1>10 DEF SaveUser
<1>11. ASSUME Crash PROVE JInv'
  <2>1. UNCHANGED <<jar, out, made>> /\ \A r \in Requests : ~Is(r, "answer")'
    BY <1>11 DEF Crash, Is, Idle
  <2> QED BY <2>1, JarStays DEF JInv
<1>12. UNCHANGED vars => JInv'
  BY OthersStay DEF vars
<1> QED BY <1>5, <1>6, <1>7, <1>8, <1>9, <1>10, <1>11, <1>12, CookieExpiresKeeps DEF Next

(* A browser that was logged out and not in again has no cookies but what  *)
(* a login or a refresh set under the domain that a logout does not name   *)
(* (session.logout, both _cookie_params), and what the answer to a refresh *)
(* brought that it sent before.                                            *)
THEOREM LogoutExplained == Spec => []LoggedOutExplained
<1>1. Inv /\ JInv /\ [Next]_vars => JInv'
  BY NextJar
<1>2. JInv => LoggedOutExplained
  BY SlotFacts, Zenon DEF JInv, CookiesOK, Excused, LoggedOutExplained
<1> QED BY <1>1, <1>2, InitJar, Invariant, PTL DEF Spec

----------------------------------------------------------------------------
(* Repeated requests *)

RunRows ==
  [key: Keys,
   fate: {"running", "saved", "unsaved", "raised", "lost", "forgotten"},
   began: {"alone", "overlapping", "expired"}]

(* A request in progress with a key is a run of that key that goes on, and *)
(* no other request is.                                                    *)
RunsGoOn ==
  /\ \A r \in Requests : Is(r, "post") =>
       /\ req[r].run \in DOMAIN runs
       /\ runs[req[r].run].fate = "running" /\ runs[req[r].run].key = req[r].key
  /\ \A r, q \in Requests :
       Is(r, "post") /\ Is(q, "post") /\ req[r].run = req[q].run => r = q

Unanswered == {"raised", "lost", "forgotten"}

(* No run of a key without a row has left an answer. *)
NothingSaved ==
  \A i \in DOMAIN runs :
    keys[runs[i].key] = "none" => runs[i].fate \in Unanswered \cup {"running"}

KInv ==
  /\ runs \in Seq(RunRows) /\ keys \in [Keys -> {"none", "live", "expired"}]
  /\ RunsGoOn /\ NothingSaved /\ RepeatsAreExplained

LEMMA RunFacts ==
  ASSUME KInv
  PROVE  /\ Len(runs) \in Nat /\ DOMAIN runs = 1..Len(runs)
         /\ \A i \in DOMAIN runs : runs[i] \in RunRows /\ runs[i].key \in Keys
<1>1. runs \in Seq(RunRows)
  BY DEF KInv
<1>2. Len(runs) \in Nat /\ DOMAIN runs = 1..Len(runs)
      /\ \A i \in DOMAIN runs : runs[i] \in RunRows
  BY <1>1
<1> QED BY <1>2 DEF RunRows

(* Requests without a key leave the runs of those with one alone. *)
LEMMA OtherWork ==
  ASSUME InProgress, KInv, UNCHANGED <<keys, runs>>, NEW r \in Requests, NEW w,
         req' = [req EXCEPT ![r] = w], w # None => w.kind # "post"
  PROVE  KInv'
<1>1. /\ \A q \in Requests \ {r} : req'[q] = req[q]
      /\ req'[r] = w
  BY DEF InProgress
<1>2. \A q \in Requests : Is(q, "post")' => Is(q, "post") /\ req'[q] = req[q]
  BY <1>1 DEF Is, Idle
<1>3. RunsGoOn'
  BY <1>2 DEF KInv, RunsGoOn
<1> QED BY <1>3 DEF KInv, NothingSaved, RepeatsAreExplained

(* The answers of runs change, the runs stay: what is explained remains so *)
(* if a run that left no answer never gets one.                            *)
LEMMA FatesChange ==
  ASSUME KInv, DOMAIN runs' = DOMAIN runs,
         \A i \in DOMAIN runs :
           /\ runs'[i].key = runs[i].key /\ runs'[i].began = runs[i].began
           /\ runs[i].fate \in Unanswered => runs'[i].fate \in Unanswered
  PROVE  RepeatsAreExplained'
BY DEF KInv, RepeatsAreExplained, Unanswered

LEMMA PostKeeps ==
  ASSUME InProgress, KInv, NEW r \in Requests, NEW k \in Keys, Post(r, k)
  PROVE  KInv'
<1> DEFINE began == IF \E i \in RunsOf(k) : runs[i].fate = "running" THEN "overlapping"
                    ELSE IF keys[k] = "expired" THEN "expired" ELSE "alone"
           new == [key |-> k, fate |-> "running", began |-> began]
           n == Len(runs) + 1
           w == [kind |-> "post", key |-> k, run |-> n]
<1>1. /\ runs' = Append(runs, new) /\ UNCHANGED keys /\ keys[k] # "live"
      /\ Idle(r) /\ req' = [req EXCEPT ![r] = w]
  BY DEF Post, Begins
<1>2. began \in {"alone", "overlapping", "expired"}
  OBVIOUS
<1>3. new \in RunRows /\ new.key = k /\ new.fate = "running" /\ new.began = began
  BY <1>2 DEF RunRows
<1>4. w.kind = "post" /\ w.key = k /\ w.run = n
  OBVIOUS
<1>5. runs \in Seq(RunRows) /\ Len(runs) \in Nat /\ DOMAIN runs = 1..Len(runs)
  BY RunFacts DEF KInv
<1>6. began = "alone" => keys[k] = "none" /\ \A i \in RunsOf(k) : runs[i].fate # "running"
  <2>1. keys[k] \in {"none", "live", "expired"}
    BY DEF KInv
  <2> QED BY <1>1, <2>1
<1> HIDE DEF began, new, w
<1>7. /\ runs' \in Seq(RunRows) /\ DOMAIN runs' = 1..n /\ runs'[n] = new
      /\ \A i \in DOMAIN runs : i \in DOMAIN runs' /\ i < n /\ runs'[i] = runs[i]
      /\ \A i \in DOMAIN runs' \ {n} : i \in DOMAIN runs
      /\ n \in DOMAIN runs' /\ n \notin DOMAIN runs
  BY <1>1, <1>3, <1>5
<1> HIDE DEF n
<1>8. RunsGoOn'
  <2>1. /\ \A q \in Requests \ {r} : req'[q] = req[q]
        /\ req'[r] = w
    BY <1>1 DEF InProgress
  <2>2. ASSUME NEW q \in Requests, Is(q, "post")', q # r
        PROVE  /\ Is(q, "post") /\ req'[q] = req[q]
               /\ req[q].run \in DOMAIN runs
               /\ runs[req[q].run].fate = "running" /\ runs[req[q].run].key = req[q].key
    BY <2>1, <2>2 DEF Is, Idle, KInv, RunsGoOn
  <2>3. ASSUME NEW q \in Requests, Is(q, "post")'
        PROVE  /\ req'[q].run \in DOMAIN runs'
               /\ runs'[req'[q].run].fate = "running"
               /\ runs'[req'[q].run].key = req'[q].key
    <3>1. CASE q = r
      BY <3>1, <2>1, <1>3, <1>4, <1>7
    <3>2. CASE q # r
      BY <3>2, <2>2, <2>3, <1>7
    <3> QED BY <3>1, <3>2
  <2>4. ASSUME NEW p \in Requests, NEW q \in Requests, Is(p, "post")', Is(q, "post")',
               req'[p].run = req'[q].run
        PROVE  p = q
    <3>1. CASE p # r /\ q # r
      BY <3>1, <2>2, <2>4 DEF KInv, RunsGoOn
    <3>2. CASE p = r /\ q # r
      BY <3>2, <2>1, <2>2, <2>4, <1>4, <1>7
    <3>3. CASE p # r /\ q = r
      BY <3>3, <2>1, <2>2, <2>4, <1>4, <1>7
    <3> QED BY <3>1, <3>2, <3>3
  <2> QED BY <2>3, <2>4 DEF RunsGoOn
<1>9. NothingSaved'
  BY <1>1, <1>3, <1>7 DEF KInv, NothingSaved, Unanswered
<1>10. RepeatsAreExplained'
  <2> SUFFICES ASSUME NEW i \in DOMAIN runs', NEW j \in DOMAIN runs',
                      i < j, runs'[i].key = runs'[j].key, runs'[j].began = "alone"
               PROVE  runs'[i].fate \in Unanswered
    BY DEF RepeatsAreExplained, Unanswered
  <2>1. i \in DOMAIN runs
    BY <1>5, <1>7 DEF n
  <2>2. CASE j = n
    <3>1. runs[i].key = k /\ keys[k] = "none" /\ runs[i].fate # "running"
      BY <1>3, <1>6, <1>7, <2>1, <2>2 DEF RunsOf
    <3> QED BY <3>1, <1>7, <2>1 DEF KInv, NothingSaved
  <2>3. CASE j # n
    BY <1>7, <2>1, <2>3 DEF KInv, RepeatsAreExplained, Unanswered
  <2> QED BY <2>2, <2>3
<1> QED BY <1>1, <1>7, <1>8, <1>9, <1>10 DEF KInv

(* A run ends with whatever fate; if it saved its answer the key has a row. *)
LEMMA RunEnds ==
  ASSUME InProgress, KInv, NEW r \in Requests, Is(r, "post"),
         NEW fate \in {"saved", "unsaved", "raised"},
         Fate(req[r].run, fate), req' = [req EXCEPT ![r] = None],
         \/ fate = "raised" /\ UNCHANGED keys
         \/ keys' = [keys EXCEPT ![req[r].key] = IF @ = "none" THEN "live" ELSE @]
  PROVE  KInv'
<1> DEFINE i == req[r].run
           k == req[r].key
           x == [runs[i] EXCEPT !.fate = fate]
<1>1. i \in DOMAIN runs /\ runs[i].fate = "running" /\ runs[i].key = k
  BY DEF KInv, RunsGoOn
<1>2. runs \in Seq(RunRows) /\ runs[i] \in RunRows /\ k \in Keys
      /\ keys \in [Keys -> {"none", "live", "expired"}]
  BY <1>1, RunFacts DEF KInv
<1>3. x \in RunRows /\ x.key = k /\ x.began = runs[i].began /\ x.fate = fate
  BY <1>1, <1>2 DEF RunRows
<1>4. runs' = [runs EXCEPT ![i] = x]
  BY DEF Fate
<1>5. \/ fate = "raised" /\ keys' = keys
      \/ keys' = [keys EXCEPT ![k] = IF @ = "none" THEN "live" ELSE @]
  OBVIOUS
<1>6. /\ \A q \in Requests \ {r} : req'[q] = req[q]
      /\ req'[r] = None
  BY DEF InProgress
<1>7. \A q \in Requests : Is(q, "post")' => q # r /\ Is(q, "post") /\ req'[q] = req[q]
  BY <1>6 DEF Is, Idle
<1>8. \A q \in Requests : Is(q, "post") /\ q # r => req[q].run # i
  BY DEF KInv, RunsGoOn
<1> HIDE DEF i, k, x
<1>9. /\ runs' \in Seq(RunRows) /\ DOMAIN runs' = DOMAIN runs
      /\ \A j \in DOMAIN runs : runs'[j] = IF j = i THEN x ELSE runs[j]
  BY <1>1, <1>2, <1>3, <1>4
<1>10. /\ keys' \in [Keys -> {"none", "live", "expired"}]
       /\ \A l \in Keys : keys'[l] = "none" => keys[l] = "none"
       /\ keys'[k] = "none" => fate = "raised"
  BY <1>2, <1>5
<1>11. RunsGoOn'
  BY <1>7, <1>8, <1>9 DEF KInv, RunsGoOn
<1>12. NothingSaved'
  <2> SUFFICES ASSUME NEW j \in DOMAIN runs, keys'[runs'[j].key] = "none"
               PROVE  runs'[j].fate \in Unanswered \cup {"running"}
    BY <1>9 DEF NothingSaved
  <2>1. CASE j = i
    BY <1>3, <1>9, <1>10, <2>1 DEF Unanswered
  <2>2. CASE j # i
    BY <1>9, <1>10, <2>2, RunFacts DEF KInv, NothingSaved
  <2> QED BY <2>1, <2>2
<1>13. RepeatsAreExplained'
  BY <1>1, <1>3, <1>9, FatesChange DEF Unanswered
<1> QED BY <1>9, <1>10, <1>11, <1>12, <1>13 DEF KInv

LEMMA KeyStepsKeep ==
  ASSUME InProgress, KInv, KeySteps
  PROVE  KInv'
<1>1. ASSUME NEW r \in Requests, SaveAnswer(r) PROVE KInv'
  <2>1. /\ Is(r, "post") /\ req' = [req EXCEPT ![r] = None]
        /\ keys' = [keys EXCEPT ![req[r].key] = IF @ = "none" THEN "live" ELSE @]
    BY <1>1 DEF SaveAnswer, Ends, Continues
  <2>2. PICK fate \in {"saved", "unsaved"} : Fate(req[r].run, fate)
    BY <1>1 DEF SaveAnswer
  <2> QED BY <2>1, <2>2, RunEnds
<1>2. ASSUME NEW r \in Requests, Raises(r) PROVE KInv'
  <2>1. /\ Is(r, "post") /\ req' = [req EXCEPT ![r] = None]
        /\ UNCHANGED keys /\ Fate(req[r].run, "raised")
    BY <1>2 DEF Raises, Ends, Continues
  <2> QED BY <2>1, RunEnds
<1>3. ASSUME NEW k \in Keys, KeyExpires(k) PROVE KInv'
  <2>1. /\ keys' = [keys EXCEPT ![k] = "expired"] /\ UNCHANGED <<req, runs>>
        /\ keys \in [Keys -> {"none", "live", "expired"}]
    BY <1>3 DEF KeyExpires, KInv
  <2>2. /\ keys' \in [Keys -> {"none", "live", "expired"}]
        /\ \A l \in Keys : keys'[l] = "none" => keys[l] = "none"
    BY <2>1
  <2>3. NothingSaved'
    BY <2>1, <2>2, RunFacts DEF KInv, NothingSaved
  <2>4. RunsGoOn' /\ RepeatsAreExplained'
    BY <2>1 DEF KInv, RunsGoOn, Is, Idle, RepeatsAreExplained
  <2> QED BY <2>1, <2>2, <2>3, <2>4 DEF KInv
<1>4. ASSUME NEW k \in Keys, CleanupKeys(k) PROVE KInv'
  <2> DEFINE x(i) == IF runs[i].key = k /\ runs[i].fate # "running"
                     THEN [runs[i] EXCEPT !.fate = "forgotten"] ELSE runs[i]
  <2>1. /\ keys' = [keys EXCEPT ![k] = "none"] /\ UNCHANGED req
        /\ runs' = [i \in DOMAIN runs |-> x(i)]
        /\ keys \in [Keys -> {"none", "live", "expired"}]
    BY <1>4 DEF CleanupKeys, KInv
  <2>2. /\ Len(runs) \in Nat /\ DOMAIN runs = 1..Len(runs)
        /\ \A i \in DOMAIN runs : runs[i] \in RunRows
    BY RunFacts
  <2>3. \A i \in DOMAIN runs :
          /\ x(i) \in RunRows /\ x(i).key = runs[i].key /\ x(i).began = runs[i].began
          /\ IF runs[i].key = k /\ runs[i].fate # "running" THEN x(i).fate = "forgotten"
             ELSE x(i).fate = runs[i].fate
    BY <2>2 DEF RunRows
  <2> HIDE DEF x
  <2>4. /\ runs' \in Seq(RunRows) /\ DOMAIN runs' = DOMAIN runs
        /\ \A i \in DOMAIN runs : runs'[i] = x(i)
    <3>1. runs' \in [1..Len(runs) -> RunRows]
      BY <2>1, <2>2, <2>3
    <3> QED BY <2>1, <2>2, <3>1
  <2>5. RepeatsAreExplained'
    BY <2>3, <2>4, FatesChange DEF Unanswered
  <2>6. RunsGoOn'
    <3>1. \A i \in DOMAIN runs : runs[i].fate = "running"
            => runs'[i].fate = "running" /\ runs'[i].key = runs[i].key
      BY <2>3, <2>4
    <3> QED BY <2>1, <2>4, <3>1 DEF KInv, RunsGoOn, Is, Idle
  <2>7. NothingSaved'
    <3> SUFFICES ASSUME NEW i \in DOMAIN runs, keys'[runs'[i].key] = "none"
                 PROVE  runs'[i].fate \in Unanswered \cup {"running"}
      BY <2>4 DEF NothingSaved
    <3>1. runs[i].key \in Keys
      BY <2>2 DEF RunRows
    <3>2. CASE runs[i].key = k
      BY <2>3, <2>4, <3>2 DEF Unanswered
    <3>3. CASE runs[i].key # k
      <4>1. keys[runs[i].key] = "none"
        BY <2>1, <2>3, <2>4, <3>1, <3>3
      <4> QED BY <2>3, <2>4, <3>3, <4>1 DEF KInv, NothingSaved
    <3> QED BY <3>2, <3>3
  <2> QED BY <2>1, <2>4, <2>5, <2>6, <2>7 DEF KInv
<1> QED BY <1>1, <1>2, <1>3, <1>4, PostKeeps DEF KeySteps

LEMMA CrashKeeps ==
  ASSUME InProgress, KInv, Crash
  PROVE  KInv'
<1> DEFINE x(i) == IF runs[i].fate = "running"
                   THEN [runs[i] EXCEPT !.fate = "lost"] ELSE runs[i]
<1>1. /\ UNCHANGED keys /\ req' = [r \in Requests |-> None]
      /\ runs' = [i \in DOMAIN runs |-> x(i)]
  BY DEF Crash
<1>2. /\ Len(runs) \in Nat /\ DOMAIN runs = 1..Len(runs)
      /\ \A i \in DOMAIN runs : runs[i] \in RunRows
  BY RunFacts
<1>3. \A i \in DOMAIN runs :
        /\ x(i) \in RunRows /\ x(i).key = runs[i].key /\ x(i).began = runs[i].began
        /\ x(i).fate = IF runs[i].fate = "running" THEN "lost" ELSE runs[i].fate
  BY <1>2 DEF RunRows
<1> HIDE DEF x
<1>4. /\ runs' \in Seq(RunRows) /\ DOMAIN runs' = DOMAIN runs
      /\ \A i \in DOMAIN runs : runs'[i] = x(i)
  <2>1. runs' \in [1..Len(runs) -> RunRows]
    BY <1>1, <1>2, <1>3
  <2> QED BY <1>1, <1>2, <2>1
<1>5. RepeatsAreExplained'
  BY <1>3, <1>4, FatesChange DEF Unanswered
<1>6. RunsGoOn'
  BY <1>1 DEF RunsGoOn, Is, Idle
<1>7. NothingSaved'
  BY <1>1, <1>3, <1>4 DEF KInv, NothingSaved, Unanswered
<1> QED BY <1>1, <1>4, <1>5, <1>6, <1>7 DEF KInv

LEMMA InitKeeps == Init => KInv
<1> SUFFICES ASSUME Init PROVE KInv
  OBVIOUS
<1>1. runs \in Seq(RunRows) /\ DOMAIN runs = {}
  BY DEF Init
<1>2. \A r \in Requests : ~Is(r, "post")
  BY DEF Init, Is, Idle
<1> QED BY <1>1, <1>2 DEF Init, KInv, RunsGoOn, NothingSaved, RepeatsAreExplained

LEMMA NextKeeps ==
  ASSUME InProgress, KInv, [Next]_vars
  PROVE  KInv'
<1>1. ASSUME UNCHANGED <<req, keys, runs>> PROVE KInv'
  BY <1>1 DEF KInv, RunsGoOn, Is, Idle, NothingSaved, RepeatsAreExplained
<1>2. ASSUME NEW r \in Requests, CodeSteps(r) PROVE KInv'
  <2>1. UNCHANGED <<keys, runs>>
    BY <1>2, Zenon DEF CodeSteps, SaveCode, Decide, ChangePhone, FindAccount,
      FindClient, CreateClient, Answer, Lost, SendCode, RequestPhoneChange, VerifyLogin,
      ConfirmPhoneChange, Verify
  <2>2. ASSUME NEW w, w # None => w.kind # "post",
               Begins(r, w) \/ Continues(r, w)
        PROVE  KInv'
    BY <2>1, <2>2, OtherWork DEF Begins, Continues
  <2>3. Ends(r) => KInv'
    BY <2>2 DEF Ends
  <2>4. SaveCode(r) \/ ChangePhone(r) \/ Answer(r) \/ Lost(r) => KInv'
    BY <2>3 DEF SaveCode, ChangePhone, Answer, Lost
  <2>5. ASSUME Decide(r) PROVE KInv'
    BY <2>5, <2>2, <2>3 DEF Decide
  <2>6. FindAccount(r) \/ FindClient(r) \/ CreateClient(r) => KInv'
    BY <2>2, <2>3 DEF FindAccount, FindClient, CreateClient, Answering
  <2>7. ASSUME NEW p \in Phones, NEW d \in Devices, NEW right \in BOOLEAN,
               SendCode(r, p) \/ RequestPhoneChange(r, d, p)
        PROVE  KInv'
    BY <2>2, <2>7 DEF SendCode, RequestPhoneChange
  <2>8. ASSUME NEW p, NEW d, NEW right, NEW purpose, NEW who,
               Verify(r, d, p, right, purpose, who)
        PROVE  KInv'
    BY <2>2, <2>8 DEF Verify
  <2>9. ASSUME NEW p \in Phones, SendCode(r, p) PROVE KInv'
    BY <2>2, <2>9 DEF SendCode
  <2> QED BY <1>2, <2>4, <2>5, <2>6, <2>7, <2>8, <2>9
          DEF CodeSteps, VerifyLogin, ConfirmPhoneChange
<1>3. ASSUME NEW r \in Requests, NEW d \in Devices, SessionSteps(r, d) PROVE KInv'
  <2>1. ASSUME NEW w, w.kind # "post", Begins(r, w), UNCHANGED <<keys, runs>>
        PROVE  KInv'
    BY <2>1, OtherWork DEF Begins
  <2>2. ASSUME NEW by, NEW who, Begins(r, Answering(d, by, who)), UNCHANGED <<keys, runs>>
        PROVE  KInv'
    BY <2>1, <2>2 DEF Answering
  <2>3. ASSUME NEW role \in Roles, CreateUser(r, d, role) PROVE KInv'
    BY <2>1, <2>3 DEF CreateUser
  <2> QED BY <1>3, <2>2, <2>3 DEF SessionSteps, Refresh, Logout, SSOExchange
<1>4. ASSUME NEW d \in Devices, NEW o \in Staff, StaffSteps(d, o) PROVE KInv'
  BY <1>1, <1>4 DEF StaffSteps, UpdateUser, DeleteUser, ActivateUser,
    CreateOperator, DeactivateOperator, ActivateOperator
<1>5. (\E i \in DOMAIN codes : Ages(i))
        \/ (\E d \in Devices, s \in {"wide", "host"} : CookieExpires(d, s)) => KInv'
  BY <1>1 DEF Ages, CookieExpires
<1>6. ASSUME NEW r \in Requests, SaveUser(r) PROVE KInv'
  BY <1>6, OtherWork DEF SaveUser, Ends, Continues
<1> QED BY <1>1, <1>2, <1>3, <1>4, <1>5, <1>6, KeyStepsKeep, CrashKeeps DEF Next, vars

(* A request with a key that ran before runs again only beside that run,   *)
(* after the key's 24 hours, or if that run left no answer                 *)
(* (idempotency.dispatch): there is one row to a key, and a key without a  *)
(* row has no run that was answered and not forgotten since.               *)
THEOREM RepeatsExplained == Spec => []RepeatsAreExplained
<1>1. Inv /\ KInv /\ [Next]_vars => KInv'
  BY NextKeeps DEF Inv
<1>2. KInv => RepeatsAreExplained
  BY DEF KInv
<1> QED BY <1>1, <1>2, InitKeeps, Invariant, PTL DEF Spec
=============================================================================
