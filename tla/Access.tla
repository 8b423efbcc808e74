-------------------------------- MODULE Access --------------------------------
(***************************************************************************)
(* Who is logged in, and which requests run: one-time codes and the        *)
(* accounts they lead to, the cookies of a browser, the accounts of the    *)
(* staff, and the keys that keep a repeated request from running twice.    *)
(*                                                                         *)
(* A request of several awaits occupies a slot (Requests) and takes a step *)
(* from one of them to the next, so that requests overlap; one that only   *)
(* calls the database runs in one step.  The tables users, clients and     *)
(* otp_codes have the columns the code reads and writes.                   *)
(***************************************************************************)
EXTENDS Integers, Sequences, FiniteSets

CONSTANTS
  Requests,     \* bound: how many requests overlap
  Devices, Phones, Keys, None,
  Roles,        \* the roles in use
  Staff,        \* ids of users, the accounts of the staff
  Newcomers,    \* ids of the clients that log in, 1..n
  Initially,    \* the staff at first
  CookieDomain, \* is COOKIE_DOMAIN set, as DOMAIN is?
  Origins,      \* of the pages a browser asks from
  MaxAttempts,  \* OTP_MAX_ATTEMPTS
  DailyLimit,   \* MAX_OTP_PER_PHONE_PER_DAY
  MaxCodes,     \* bound: codes ever sent
  MaxRequests   \* bound: requests ever made

Accounts == Staff \cup Newcomers

ASSUME AccessAssumption ==
  /\ Newcomers = 1..Cardinality(Newcomers)
  /\ Staff \cap Newcomers = {} /\ IsFiniteSet(Requests)
  /\ None \notin Accounts \cup Phones
  /\ Roles \subseteq {"operator", "admin", "superadmin", "partner"}
  /\ CookieDomain \in BOOLEAN /\ Origins \subseteq {"secure", "insecure"}
  /\ MaxAttempts \in Nat \ {0}
  /\ {DailyLimit, MaxCodes, MaxRequests} \subseteq Nat
  /\ Initially \in [Staff -> [made: BOOLEAN, role: Roles, active: BOOLEAN,
                              phone: Phones \cup {None}, client: BOOLEAN]]
  /\ \E o \in Staff : Initially[o].made /\ Initially[o].active

VARIABLES
  users,   \* users
  clients, \* clients
  codes,   \* otp_codes
  keys,    \* idempotency_keys
  jar,     \* the cookies of each device, by domain
  out,     \* the devices that were logged out, and not in again: at which request
  req,     \* the requests in progress
  made,    \* requests made
  runs     \* the runs of requests with a key, and what became of them

vars == <<users, clients, codes, keys, jar, out, req, made, runs>>

Nobody == [access |-> None, refresh |-> None, origin |-> None]

Init ==
  /\ users = [o \in Staff |->
       [made |-> Initially[o].made, role |-> Initially[o].role,
        active |-> Initially[o].active, phone |-> Initially[o].phone,
        admin |-> None]]
  /\ clients = [a \in Accounts |->
       [made |-> IF a \in Staff THEN Initially[a].client ELSE FALSE,
        phone |-> None, active |-> TRUE]]
  /\ codes = << >>
  /\ keys = [k \in Keys |-> "none"]
  /\ jar = [d \in Devices |-> [wide |-> Nobody, host |-> Nobody]]
  /\ out = [d \in Devices |-> None]
  /\ req = [r \in Requests |-> None]
  /\ made = 0 /\ runs = << >>

----------------------------------------------------------------------------
(* Requests *)

Idle(r) == req[r] = None

(* A request that takes more than one step begins; it goes on; it ends. *)
Handled == made < MaxRequests /\ made' = made + 1
Begins(r, work) == Idle(r) /\ Handled /\ req' = [req EXCEPT ![r] = work]
Continues(r, work) == req' = [req EXCEPT ![r] = work] /\ UNCHANGED made
Ends(r) == Continues(r, None)

Is(r, kind) == ~Idle(r) /\ req[r].kind = kind

(* AuthMiddleware: the account in evp_access.  With cookies of both domains *)
(* either may be the one that is read.                                      *)
Access(d) == {jar[d][s].access : s \in {"wide", "host"}} \ {None}
Refreshes(d) == {jar[d][s].refresh : s \in {"wide", "host"}} \ {None}

(* The domain of the cookies that are answered.  A login derives it from   *)
(* COOKIE_DOMAIN or DOMAIN, refresh and logout know COOKIE_DOMAIN only.    *)
(* Login and refresh name none to a page at localhost, at an IP address or *)
(* without TLS, which a logout does not ask.                               *)
Domain_Derived(by, origin) ==
  IF (by # "logout" => origin = "secure") /\ by = "login" THEN "wide" ELSE "host"
Domain(by, origin) ==
  IF (by # "logout" => origin = "secure") /\ (by = "login" \/ CookieDomain)
  THEN "wide" ELSE "host"

Answering(d, by, who) ==
  [kind |-> "answer", device |-> d, by |-> by, who |-> who,
   sent |-> IF by = "refresh" THEN made + 1 ELSE 0]

(* out keeps at which request a device was logged out, and whether a       *)
(* refresh that was sent before was answered after it.                     *)
Answer(r) ==
  \E origin \in Origins :
    LET d == req[r].device
        who == req[r].who
        by == req[r].by IN
    /\ Is(r, "answer")
    /\ jar' = [jar EXCEPT ![d][Domain(by, origin)] =
         IF by = "logout" THEN Nobody
         ELSE [access |-> who, refresh |-> who, origin |-> origin]]
    /\ out' = [out EXCEPT ![d] =
         IF by = "login" THEN None
         ELSE IF by = "logout" THEN [at |-> made, again |-> FALSE]
         ELSE IF @ = None THEN None
         ELSE [at |-> out[d].at, again |-> out[d].again \/ req[r].sent <= out[d].at]]
    /\ Ends(r)
    /\ UNCHANGED <<users, clients, codes, keys, runs>>

(* The answer does not arrive. *)
Lost(r) ==
  /\ Is(r, "answer")
  /\ Ends(r)
  /\ UNCHANGED <<users, clients, codes, keys, jar, out, runs>>

CookieExpires(d, s) ==
  /\ jar[d][s].access # None
  /\ jar' = [jar EXCEPT ![d][s].access = None]
  /\ UNCHANGED <<users, clients, codes, keys, out, req, made, runs>>

----------------------------------------------------------------------------
(* One-time codes *)

SentTo(p) == {i \in DOMAIN codes : codes[i].phone = p}

(* Registered for somebody else: by whom the change is asked. *)
Taken(p, a) ==
  \/ \E b \in Accounts \ {a} : clients[b].made /\ clients[b].phone = p
  \/ \E o \in Staff \ {a} : users[o].made /\ users[o].phone = p

(* create up to its INSERT: no code in the last minute, and not more than  *)
(* DailyLimit in 24 hours.                                                 *)
MaySend(p) ==
  /\ \A i \in SentTo(p) : codes[i].age # "fresh"
  /\ Cardinality({i \in SentTo(p) : codes[i].age # "old"}) < DailyLimit

SendCode(r, p) ==
  /\ MaySend(p)
  /\ Begins(r, [kind |-> "send", phone |-> p, purpose |-> "auth"])
  /\ UNCHANGED <<users, clients, codes, keys, jar, out, runs>>

RequestPhoneChange(r, d, p) ==
  /\ \E a \in Access(d) : ~Taken(p, a)
  /\ MaySend(p)
  /\ Begins(r, [kind |-> "send", phone |-> p, purpose |-> "phone_change"])
  /\ UNCHANGED <<users, clients, codes, keys, jar, out, runs>>

SaveCode(r) ==
  /\ Is(r, "send") /\ Len(codes) < MaxCodes
  /\ codes' = Append(codes,
       [phone |-> req[r].phone, purpose |-> req[r].purpose, attempts |-> 0,
        tried |-> 0, verified |-> FALSE, age |-> "fresh"])
  /\ Ends(r)
  /\ UNCHANGED <<users, clients, keys, jar, out, runs>>

(* 60 seconds, the code's five minutes, 24 hours. *)
Older == [fresh |-> "live", live |-> "expired", expired |-> "old"]

Ages(i) ==
  /\ codes[i].age # "old"
  /\ codes' = [codes EXCEPT ![i].age = Older[@]]
  /\ UNCHANGED <<users, clients, keys, jar, out, req, made, runs>>

(* verify up to its UPDATE: the newest code that holds, if it has attempts *)
(* left; what the client enters is this code or is not.                    *)
Valid(p, purpose) ==
  {i \in SentTo(p) : /\ codes[i].purpose = purpose /\ ~codes[i].verified
                     /\ codes[i].age \in {"fresh", "live"}}
Newest(p, purpose) == CHOOSE i \in Valid(p, purpose) : \A j \in Valid(p, purpose) : j <= i

Verify(r, d, p, right, purpose, who) ==
  /\ Valid(p, purpose) # {}
  /\ codes[Newest(p, purpose)].attempts < MaxAttempts
  /\ Begins(r, [kind |-> "verify", device |-> d, phone |-> p, who |-> who,
                right |-> right, code |-> Newest(p, purpose),
                seen |-> codes[Newest(p, purpose)].attempts])
  /\ UNCHANGED <<users, clients, codes, keys, jar, out, runs>>

VerifyLogin(r, d, p, right) == Verify(r, d, p, right, "auth", None)
ConfirmPhoneChange(r, d, p, right) ==
  \E a \in Access(d) : Verify(r, d, p, right, "phone_change", a)

(* The UPDATE counts in the database, so that attempts that overlap are    *)
(* all counted; until the commit the row is locked.                        *)
Counted_Seen(r) == req[r].seen + 1
Counted(r) == codes[req[r].code].attempts + 1

Decide(r) ==
  LET i == req[r].code
      right == req[r].right
  IN /\ Is(r, "verify")
     /\ codes' = [codes EXCEPT ![i].attempts = Counted(r), ![i].tried = @ + 1,
                               ![i].verified = @ \/ right]
     /\ IF ~right THEN Ends(r)
        ELSE Continues(r, [kind |-> IF req[r].who = None THEN "find" ELSE "change",
                           device |-> req[r].device, phone |-> req[r].phone,
                           who |-> req[r].who])
     /\ UNCHANGED <<users, clients, keys, jar, out, runs>>

(* confirm_phone_change does not ask again whether the number is taken. *)
ChangePhone(r) ==
  LET a == req[r].who IN
  /\ Is(r, "change")
  /\ clients' = IF clients[a].made
                THEN [clients EXCEPT ![a].phone = req[r].phone] ELSE clients
  /\ users' = IF a \in Staff /\ users[a].made
              THEN [users EXCEPT ![a].phone = req[r].phone] ELSE users
  /\ Ends(r)
  /\ UNCHANGED <<codes, keys, jar, out, runs>>

(* verify_otp: the user with the phone, who needs a record as client, else *)
(* the client, else a new one.                                             *)
UsersWith(p) == {o \in Staff : users[o].made /\ users[o].phone = p}
ClientsWith(p) == {a \in Accounts : clients[a].made /\ clients[a].phone = p}
Unused == {n \in Newcomers : ~clients[n].made}

FindAccount(r) ==
  /\ Is(r, "find")
  /\ \E o \in IF UsersWith(req[r].phone) = {} THEN {None} ELSE UsersWith(req[r].phone) :
       Continues(r, [kind |-> "match", device |-> req[r].device,
                     phone |-> req[r].phone, who |-> o])
  /\ UNCHANGED <<users, clients, codes, keys, jar, out, runs>>

FindClient(r) ==
  LET found == IF req[r].who = None THEN ClientsWith(req[r].phone)
               ELSE {o \in {req[r].who} : clients[o].made}
  IN /\ Is(r, "match")
     /\ IF found # {}
        THEN \E a \in found : Continues(r, Answering(req[r].device, "login", a))
        ELSE Continues(r, [kind |-> "create", device |-> req[r].device,
                           phone |-> req[r].phone, who |-> req[r].who])
     /\ UNCHANGED <<users, clients, codes, keys, jar, out, runs>>

(* A record that another login made meanwhile: the INSERT fails. *)
CreateClient(r) ==
  /\ Is(r, "create")
  /\ \E a \in IF req[r].who # None THEN {req[r].who}
              ELSE {n \in Unused : \A m \in Unused : n <= m} :
       IF clients[a].made THEN Ends(r) /\ UNCHANGED clients
       ELSE /\ clients' = [clients EXCEPT
                 ![a] = [made |-> TRUE, phone |-> req[r].phone, active |-> TRUE]]
            /\ Continues(r, Answering(req[r].device, "login", a))
  /\ UNCHANGED <<users, codes, keys, jar, out, runs>>

----------------------------------------------------------------------------
(* The session of a browser *)

(* sso_exchange: for staff who are active and have a record as client;     *)
(* creating one would fail, users are read without their phone.            *)
SSOExchange(r, d, o) ==
  /\ users[o].made /\ users[o].active /\ clients[o].made
  /\ Begins(r, Answering(d, "login", o))
  /\ UNCHANGED <<users, clients, codes, keys, jar, out, runs>>

Refresh(r, d) ==
  /\ \E a \in Refreshes(d) : Begins(r, Answering(d, "refresh", a))
  /\ UNCHANGED <<users, clients, codes, keys, jar, out, runs>>

Logout(r, d) ==
  /\ Begins(r, Answering(d, "logout", None))
  /\ UNCHANGED <<users, clients, codes, keys, jar, out, runs>>

----------------------------------------------------------------------------
(* The accounts of the staff *)

Active(a) == a \in Staff /\ users[a].made /\ users[a].active

Superadmins(d) == {a \in Access(d) : Active(a) /\ users[a].role = "superadmin"}

AsClient(o, active) == [clients EXCEPT ![o].active = active]

(* create_user: who asks is checked, the account is made at Supabase, and  *)
(* the INSERTs take the id it was given, if it was made.                   *)
CreateUser(r, d, role) ==
  /\ Superadmins(d) # {}
  /\ Begins(r, [kind |-> "invite", role |-> role])
  /\ UNCHANGED <<users, clients, codes, keys, jar, out, runs>>

SaveUser(r) ==
  /\ Is(r, "invite")
  /\ \/ \E o \in Staff :
          /\ ~users[o].made
          /\ users' = [users EXCEPT ![o] =
               [made |-> TRUE, role |-> req[r].role, active |-> TRUE,
                phone |-> None, admin |-> None]]
          /\ clients' = [clients EXCEPT ![o].made = TRUE]
     \/ UNCHANGED <<users, clients>>
  /\ Ends(r)
  /\ UNCHANGED <<codes, keys, jar, out, runs>>

(* Which role may give which. *)
MayGive(role, given) ==
  \/ role = "superadmin"
  \/ role = "admin" /\ given \notin {"admin", "superadmin"}

(* update_user: None is a field that is not given. *)
UpdateUser(d, o, role, active) ==
  /\ users[o].made
  /\ \E a \in Access(d) \ {o} :
       Active(a) /\ (role # None => MayGive(users[a].role, role))
  /\ users' = [users EXCEPT
       ![o].role = IF role = None THEN @ ELSE role,
       ![o].active = IF active = None THEN @ ELSE active]
  /\ Handled /\ UNCHANGED <<clients, codes, keys, jar, out, req, runs>>

DeleteUser_Self(d, o) ==
  /\ users[o].made /\ Superadmins(d) # {}
  /\ users' = [users EXCEPT ![o].active = FALSE]
  /\ clients' = AsClient(o, FALSE)
  /\ Handled /\ UNCHANGED <<codes, keys, jar, out, req, runs>>
DeleteUser(d, o) ==
  /\ users[o].made /\ Superadmins(d) \ {o} # {}
  /\ users' = [users EXCEPT ![o].active = FALSE]
  /\ clients' = AsClient(o, FALSE)
  /\ Handled /\ UNCHANGED <<codes, keys, jar, out, req, runs>>

ActivateUser(d, o) ==
  /\ Superadmins(d) # {} /\ users[o].made /\ ~users[o].active
  /\ users' = [users EXCEPT ![o].active = TRUE]
  /\ clients' = AsClient(o, TRUE)
  /\ Handled /\ UNCHANGED <<codes, keys, jar, out, req, runs>>

(* get_current_admin, and whose operators an administrator may manage. *)
Admins(d) == {a \in Access(d) : Active(a) /\ users[a].role \in {"admin", "superadmin"}}
Manages(a, o) ==
  /\ users[o].made /\ users[o].role = "operator"
  /\ users[a].role = "superadmin" \/ users[o].admin = a

(* create_operator: a number of its own, under a new id. *)
CreateOperator(d, o, p) ==
  /\ ~users[o].made /\ ~clients[o].made /\ ~Taken(p, None)
  /\ \E a \in Admins(d) :
       users' = [users EXCEPT ![o] = [made |-> TRUE, role |-> "operator", active |-> TRUE,
                                      phone |-> p, admin |-> a]]
  /\ clients' = [clients EXCEPT ![o] = [made |-> TRUE, phone |-> p, active |-> TRUE]]
  /\ Handled /\ UNCHANGED <<codes, keys, jar, out, req, runs>>

DeactivateOperator(d, o) ==
  /\ \E a \in Admins(d) : Manages(a, o)
  /\ users' = [users EXCEPT ![o].active = FALSE]
  /\ clients' = AsClient(o, FALSE)
  /\ Handled /\ UNCHANGED <<codes, keys, jar, out, req, runs>>

ActivateOperator(d, o) ==
  /\ ~users[o].active /\ \E a \in Admins(d) : Manages(a, o)
  /\ users' = [users EXCEPT ![o].active = TRUE]
  /\ clients' = AsClient(o, TRUE)
  /\ Handled /\ UNCHANGED <<codes, keys, jar, out, req, runs>>

----------------------------------------------------------------------------
(* Requests with an Idempotency-Key *)

RunsOf(k) == {i \in DOMAIN runs : runs[i].key = k}
Fate(i, fate) == runs' = [runs EXCEPT ![i].fate = fate]

(* A key with a row that holds is answered with an error, whether the      *)
(* request is the same or another: the saved answer is called without the  *)
(* arguments it needs.  Every other request runs.                          *)
Post(r, k) ==
  /\ keys[k] # "live"
  /\ runs' = Append(runs,
       [key |-> k, fate |-> "running",
        began |-> IF \E i \in RunsOf(k) : runs[i].fate = "running" THEN "overlapping"
                  ELSE IF keys[k] = "expired" THEN "expired" ELSE "alone"])
  /\ Begins(r, [kind |-> "post", key |-> k, run |-> Len(runs) + 1])
  /\ UNCHANGED <<users, clients, codes, keys, jar, out>>

(* Whatever was answered is saved, a refusal (401 among them, the keys are *)
(* read before the cookies) too; but there is one row to a key, expired    *)
(* or not, and an exception of the handler passes the middleware.          *)
SaveAnswer_Success(r) ==
  \E ok \in BOOLEAN :
  /\ Is(r, "post")
  /\ keys' = IF ok THEN [keys EXCEPT ![req[r].key] = IF @ = "none" THEN "live" ELSE @]
             ELSE keys
  /\ Fate(req[r].run, IF ok /\ keys[req[r].key] = "none" THEN "saved" ELSE "unsaved")
  /\ Ends(r)
  /\ UNCHANGED <<users, clients, codes, jar, out>>
SaveAnswer(r) ==
  /\ Is(r, "post")
  /\ keys' = [keys EXCEPT ![req[r].key] = IF @ = "none" THEN "live" ELSE @]
  /\ Fate(req[r].run, IF keys[req[r].key] = "none" THEN "saved" ELSE "unsaved")
  /\ Ends(r)
  /\ UNCHANGED <<users, clients, codes, jar, out>>

Raises(r) ==
  /\ Is(r, "post")
  /\ Fate(req[r].run, "raised")
  /\ Ends(r)
  /\ UNCHANGED <<users, clients, codes, keys, jar, out>>

(* After 24 hours; after 7 days. *)
KeyExpires(k) ==
  /\ keys[k] = "live"
  /\ keys' = [keys EXCEPT ![k] = "expired"]
  /\ UNCHANGED <<users, clients, codes, jar, out, req, made, runs>>

CleanupKeys(k) ==
  /\ keys[k] = "expired"
  /\ keys' = [keys EXCEPT ![k] = "none"]
  /\ runs' = [i \in DOMAIN runs |->
       IF runs[i].key = k /\ runs[i].fate # "running"
       THEN [runs[i] EXCEPT !.fate = "forgotten"] ELSE runs[i]]
  /\ UNCHANGED <<users, clients, codes, jar, out, req, made>>

----------------------------------------------------------------------------

(* The requests in progress are gone, what was committed is not. *)
Crash ==
  /\ \E r \in Requests : ~Idle(r)
  /\ req' = [r \in Requests |-> None]
  /\ runs' = [i \in DOMAIN runs |->
       IF runs[i].fate = "running" THEN [runs[i] EXCEPT !.fate = "lost"] ELSE runs[i]]
  /\ UNCHANGED <<users, clients, codes, keys, jar, out, made>>

CodeSteps(r) ==
  \/ SaveCode(r) \/ Decide(r) \/ ChangePhone(r)
  \/ FindAccount(r) \/ FindClient(r) \/ CreateClient(r) \/ Answer(r) \/ Lost(r)
  \/ \E p \in Phones :
       \/ SendCode(r, p)
       \/ \E d \in Devices :
            \/ RequestPhoneChange(r, d, p)
            \/ \E right \in BOOLEAN :
                 VerifyLogin(r, d, p, right) \/ ConfirmPhoneChange(r, d, p, right)

SessionSteps(r, d) ==
  \/ Refresh(r, d) \/ Logout(r, d)
  \/ \E role \in Roles : CreateUser(r, d, role)
  \/ \E o \in Staff : SSOExchange(r, d, o)

StaffSteps(d, o) ==
  \/ \E role \in Roles \cup {None}, active \in BOOLEAN \cup {None} :
       UpdateUser(d, o, role, active)
  \/ DeleteUser(d, o) \/ ActivateUser(d, o)
  \/ \E p \in Phones : "operator" \in Roles /\ CreateOperator(d, o, p)
  \/ DeactivateOperator(d, o) \/ ActivateOperator(d, o)

KeySteps ==
  \/ \E r \in Requests :
       \/ SaveAnswer(r) \/ Raises(r)
       \/ \E k \in Keys : Post(r, k)
  \/ \E k \in Keys : KeyExpires(k) \/ CleanupKeys(k)

Next ==
  \/ \E r \in Requests : CodeSteps(r) \/ SaveUser(r) \/ \E d \in Devices : SessionSteps(r, d)
  \/ \E d \in Devices, o \in Staff : StaffSteps(d, o)
  \/ KeySteps
  \/ \E i \in DOMAIN codes : Ages(i)
  \/ \E d \in Devices, s \in {"wide", "host"} : CookieExpires(d, s)
  \/ Crash

Spec == Init /\ [][Next]_vars

----------------------------------------------------------------------------
(* Properties *)

(* However requests overlap, no code is compared with more guesses than    *)
(* MaxAttempts and one for each further request that was let in while the  *)
(* last attempt was left: every attempt is counted.                        *)
GuessesAreBounded ==
  \A i \in DOMAIN codes : codes[i].tried < MaxAttempts + Cardinality(Requests)

(* A request with a key runs again only if it overlaps an earlier run,     *)
(* after the 24 hours, or if that run left no answer: the handler raised,  *)
(* the process crashed, or the answer is older than seven days.            *)
RepeatsAreExplained ==
  \A i, j \in DOMAIN runs :
    i < j /\ runs[i].key = runs[j].key
    => runs[j].began # "alone" \/ runs[i].fate \in {"raised", "lost", "forgotten"}

(* A browser that was logged out and has not logged in since sends cookies *)
(* for two reasons only.  Under the domain a logout does not name it still *)
(* has what was set there, with COOKIE_DOMAIN for a page of an insecure    *)
(* origin, without by a login.  Under the other it has cookies again only  *)
(* if it kept some there, or if a refresh was on its way at the logout.    *)
Cleared == Domain("logout", "secure")
Kept == IF Cleared = "wide" THEN "host" ELSE "wide"
Holds(d, s) == {jar[d][s].access, jar[d][s].refresh} # {None}

LoggedOutExplained ==
  \A d \in Devices :
    out[d] # None =>
      /\ Holds(d, Cleared) => Holds(d, Kept) \/ out[d].again
      /\ Holds(d, Kept) =>
           jar[d][Kept].origin = IF CookieDomain THEN "insecure" ELSE "secure"

(* The staff cannot lock itself out: whatever active users do to each      *)
(* other, one of them stays active.                                        *)
SomeoneIsActive == \E o \in Staff : Active(o)
=============================================================================
