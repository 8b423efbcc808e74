----------------------------- MODULE CompanyBooks -----------------------------
(***************************************************************************)
(* The books of companies: the counters of companies and of their          *)
(* employees, and the ledger that has to bear them out.                    *)
(***************************************************************************)
EXTENDS Integers, Sequences, FiniteSetsExt, Sums

CONSTANTS Groups, Users

VARIABLES
  groups,   \* corporate_groups
  staff,    \* corporate_employees, one for each group and user
  ledger    \* corporate_transactions, in order

(* What a row adds to what was charged and not given back. *)
Charged(row) ==
  CASE row.type = "charge" -> row.amount
    [] row.type = "refund" -> -row.amount
    [] OTHER -> 0

ChargedTo(g) ==
  Total([i \in DOMAIN ledger |-> IF ledger[i].group = g THEN Charged(ledger[i]) ELSE 0],
        Len(ledger))
ChargedBy(e) ==
  Total([i \in DOMAIN ledger |-> IF ledger[i].by = e THEN Charged(ledger[i]) ELSE 0],
        Len(ledger))

(* The balance of a company that the first n rows of a ledger end with. *)
Booked(rows, g, n) ==
  LET mine == {i \in 1..n : rows[i].group = g}
  IN IF mine = {} THEN 0 ELSE rows[Max(mine)].after

(* The counters that limits are checked against, which a refund lowers to  *)
(* no less than zero, say what the ledger says was charged and not given   *)
(* back, for each company and each employee; and the ledger's balances of  *)
(* a company follow each other up to the current one, although the company *)
(* is switched between paying before and after while sessions are charging.*)
BooksAgree ==
  /\ \A g \in Groups : groups[g].spent = ChargedTo(g)
  /\ \A e \in Groups \X Users : staff[e].month = ChargedBy(e)
  /\ \A i \in DOMAIN ledger : ledger[i].before = Booked(ledger, ledger[i].group, i - 1)
  /\ \A g \in Groups : groups[g].balance = Booked(ledger, g, Len(ledger))
=============================================================================
