------------------------------- MODULE Corporate -------------------------------
(***************************************************************************)
(* Accounts of companies: a balance or a credit that the employees of a    *)
(* company charge on, within limits of the company and of each employee,   *)
(* and the ledger of what was topped up, charged and given back.           *)
(*                                                                         *)
(* Each request is one step.  No endpoint calls the part that authorises a *)
(* charge, reserves its funds and gives back what is left: its caller is   *)
(* external, and may let other requests in between any two of the calls.   *)
(***************************************************************************)
EXTENDS CompanyBooks

CONSTANTS
  Sessions,
  None,
  Amounts,    \* of a top-up or a charge
  Costs,      \* what a session may come to
  Limits,     \* of a month, a day or a credit; a limit of 0 counts as none
  MaxTopups,  \* bound: top-ups
  MaxEdits,   \* bound: what administrators change
  MaxDays     \* bound: the days

ASSUME CorporateAssumption ==
  /\ Amounts \subseteq Nat \ {0} /\ Limits \subseteq Nat /\ Costs \subseteq Nat
  /\ None \notin [by : Groups \X Users, reserved : Amounts, over : BOOLEAN]
  /\ {MaxTopups, MaxEdits, MaxDays} \subseteq Nat

VARIABLES
  cleared,  \* charges the external caller was allowed and has not reserved
  charging, \* charging sessions whose funds are reserved
  today,
  topups, edits

accounts == <<groups, staff, ledger>>
caller == <<cleared, charging>>
vars == <<accounts, caller, today, topups, edits>>

Billing == {"prepaid", "postpaid"}
NoGroup == [made |-> FALSE, balance |-> 0, billing |-> "prepaid", credit |-> 0,
            monthly |-> 0, spent |-> 0, active |-> TRUE]
NoStaff == [made |-> FALSE, role |-> "employee", monthly |-> 0, daily |-> 0,
            month |-> 0, day |-> 0, reset |-> 0, active |-> TRUE]

Init ==
  /\ groups = [g \in Groups |-> NoGroup]
  /\ staff = [e \in Groups \X Users |-> NoStaff]
  /\ ledger = << >>
  /\ cleared = [u \in Users |-> None]
  /\ charging = [s \in Sessions |-> None]
  /\ today = 0 /\ topups = 0 /\ edits = 0

----------------------------------------------------------------------------
(* What administrators of the platform do *)

Edit == edits < MaxEdits /\ edits' = edits + 1

CreateGroup(g, billing, monthly, credit) ==
  /\ ~groups[g].made
  /\ groups' = [groups EXCEPT ![g] = [NoGroup EXCEPT !.made = TRUE, !.billing = billing,
                                                     !.monthly = monthly, !.credit = credit]]
  /\ UNCHANGED <<staff, ledger, caller, today, topups, edits>>

(* A value that is not given leaves the old one. *)
UpdateGroup(g, billing, monthly, credit) ==
  /\ Edit /\ groups[g].made
  /\ groups' = [groups EXCEPT ![g].billing = billing, ![g].monthly = monthly,
                              ![g].credit = credit]
  /\ UNCHANGED <<staff, ledger, caller, today, topups>>

Row(g, type, amount, after, e) ==
  [group |-> g, type |-> type, amount |-> amount,
   before |-> groups[g].balance, after |-> after, by |-> e]

TopupBalance(g, amount) ==
  /\ topups < MaxTopups /\ topups' = topups + 1
  /\ groups[g].made
  /\ groups' = [groups EXCEPT ![g].balance = @ + amount]
  /\ ledger' = Append(ledger, Row(g, "topup", amount, groups[g].balance + amount, None))
  /\ UNCHANGED <<staff, caller, today, edits>>

BlockGroup(g) ==
  /\ Edit /\ groups[g].made
  /\ groups' = [groups EXCEPT ![g].active = FALSE]
  /\ UNCHANGED <<staff, ledger, caller, today, topups>>

UnblockGroup(g) ==
  /\ Edit /\ groups[g].made
  /\ groups' = [groups EXCEPT ![g].active = TRUE]
  /\ UNCHANGED <<staff, ledger, caller, today, topups>>

(* A second row for one user in one group is refused by the table; a user  *)
(* may be an employee of two groups.                                       *)
AddEmployee(e, role, monthly, daily) ==
  /\ Edit /\ groups[e[1]].made /\ ~staff[e].made
  /\ staff' = [staff EXCEPT ![e] = [NoStaff EXCEPT !.made = TRUE, !.role = role,
                                       !.monthly = monthly, !.daily = daily, !.reset = today]]
  /\ UNCHANGED <<groups, ledger, caller, today, topups>>

UpdateEmployee(e, role, monthly, daily, active) ==
  /\ Edit /\ staff[e].made
  /\ staff' = [staff EXCEPT ![e].role = role, ![e].monthly = monthly, ![e].daily = daily,
                            ![e].active = active]
  /\ UNCHANGED <<groups, ledger, caller, today, topups>>

RemoveEmployee(e) ==
  /\ Edit /\ staff[e].made
  /\ staff' = [staff EXCEPT ![e].active = FALSE]
  /\ UNCHANGED <<groups, ledger, caller, today, topups>>

----------------------------------------------------------------------------
(* What a company's own administrator does.  A user with a row in two      *)
(* groups is taken for either; an employee is changed by its id, whichever *)
(* group it belongs to.                                                    *)

Administers(u, g) == LET e == <<g, u>> IN staff[e].made /\ staff[e].active /\ staff[e].role = "admin"

CompanyAdds(u, g, user, monthly, daily) ==
  /\ Administers(u, g)
  /\ AddEmployee(<<g, user>>, "employee", monthly, daily)

CompanyUpdates(u, g, e, monthly, daily, active) ==
  /\ Administers(u, g)
  /\ UpdateEmployee(e, staff[e].role, monthly, daily, active)

CompanyRemoves(u, g, e) ==
  /\ Administers(u, g)
  /\ RemoveEmployee(e)

----------------------------------------------------------------------------
(* Charging on the company's account *)

(* What an employee has spent today: the counter starts anew with the      *)
(* first charge of a day that a daily limit is asked for.                  *)
Spent(e) == IF staff[e].reset = today THEN staff[e].day ELSE 0

Within(limit, spent, amount) == limit = 0 \/ limit - spent >= amount

CompanyPays(g, amount) ==
  /\ groups[g].active
  /\ groups[g].billing = "prepaid" => groups[g].balance >= amount
  /\ groups[g].billing = "postpaid" => groups[g].credit - groups[g].spent >= amount
  /\ Within(groups[g].monthly, groups[g].spent, amount)

(* can_employee_charge: the day's counter is reset once the limits before  *)
(* it are passed.  It leaves the commit to its caller, who may make none.  *)
CanEmployeeCharge(g, u, amount) ==
  LET e == <<g, u>> IN
  /\ staff[e].made /\ staff[e].active
  /\ CompanyPays(g, amount) /\ Within(staff[e].monthly, staff[e].month, amount)
  /\ \/ UNCHANGED staff
     \/ /\ staff[e].daily # 0
        /\ staff' = [staff EXCEPT ![e].day = Spent(e), ![e].reset = today]
  /\ cleared' = [cleared EXCEPT ![u] =
       IF staff[e].daily = 0 \/ Within(staff[e].daily, Spent(e), amount)
       THEN [by |-> e, amount |-> amount] ELSE @]
  /\ UNCHANGED <<groups, ledger, charging, today, topups, edits>>

(* What a row says the balance was after it. *)
After_Always(g, change) == groups[g].balance + change
After(g, change) ==
  IF groups[g].billing = "prepaid" THEN groups[g].balance + change ELSE groups[g].balance

Moves(g, change) == IF groups[g].billing = "prepaid" THEN change ELSE 0

ReserveFunds(u, s) ==
  /\ cleared[u] # None /\ charging[s] = None
  /\ LET e == cleared[u].by
         g == e[1]
         amount == cleared[u].amount
     IN  /\ groups' = [groups EXCEPT ![g].balance = @ + Moves(g, -amount), ![g].spent = @ + amount]
         /\ staff' = [staff EXCEPT ![e].month = @ + amount, ![e].day = @ + amount]
         /\ ledger' = Append(ledger, Row(g, "charge", amount, After(g, -amount), e))
         /\ charging' = [charging EXCEPT ![s] = [by |-> e, reserved |-> amount, over |-> FALSE]]
  /\ cleared' = [cleared EXCEPT ![u] = None]
  /\ UNCHANGED <<today, topups, edits>>

AtLeast0(n) == IF n < 0 THEN 0 ELSE n

(* How the account is billed counts at the end of a session as it is then. *)
RefundUnused(s, actual) ==
  /\ charging[s] # None /\ ~charging[s].over
  /\ charging' = [charging EXCEPT ![s].over = TRUE]
  /\ LET e == charging[s].by
         g == e[1]
         refund == charging[s].reserved - actual
     IN  IF refund <= 0
         THEN UNCHANGED accounts
         ELSE /\ groups' = [groups EXCEPT ![g].balance = @ + Moves(g, refund),
                                          ![g].spent = AtLeast0(@ - refund)]
              /\ staff' = [staff EXCEPT ![e].month = AtLeast0(@ - refund),
                                        ![e].day = AtLeast0(@ - refund)]
              /\ ledger' = Append(ledger, Row(g, "refund", refund, After(g, refund), e))
  /\ UNCHANGED <<cleared, today, topups, edits>>

NewDay ==
  /\ today < MaxDays /\ today' = today + 1
  /\ UNCHANGED <<accounts, caller, topups, edits>>

Next ==
  \/ \E g \in Groups :
       \/ \E billing \in Billing, monthly, credit \in Limits :
            CreateGroup(g, billing, monthly, credit) \/ UpdateGroup(g, billing, monthly, credit)
       \/ \E amount \in Amounts : TopupBalance(g, amount)
       \/ BlockGroup(g) \/ UnblockGroup(g)
       \/ \E u, user \in Users, monthly, daily \in Limits : CompanyAdds(u, g, user, monthly, daily)
       \/ \E u \in Users, e \in Groups \X Users :
            \/ \E monthly, daily \in Limits, active \in BOOLEAN :
                 CompanyUpdates(u, g, e, monthly, daily, active)
            \/ CompanyRemoves(u, g, e)
       \/ \E u \in Users, amount \in Amounts : CanEmployeeCharge(g, u, amount)
  \/ \E e \in Groups \X Users :
       \/ \E role \in {"admin", "employee"}, monthly, daily \in Limits :
            \/ AddEmployee(e, role, monthly, daily)
            \/ \E active \in BOOLEAN : UpdateEmployee(e, role, monthly, daily, active)
       \/ RemoveEmployee(e)
  \/ \E s \in Sessions :
       \/ \E u \in Users : ReserveFunds(u, s)
       \/ \E actual \in Costs : RefundUnused(s, actual)
  \/ NewDay

Spec == Init /\ [][Next]_vars
=============================================================================
