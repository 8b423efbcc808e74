---------------------------- MODULE TopUpProofs ----------------------------
(***************************************************************************)
(* For every set of clients, invoices, providers and amounts, and every    *)
(* bound: the tables keep their types, an invoice is credited at most      *)
(* once, and only with money the provider took.                            *)
(***************************************************************************)
EXTENDS TopUp, TLAPS

Entry == [topup: Invoices, amount: Nat, before: Nat, after: Nat]

(* An amount is a natural number or NULL, and NULL is no number. *)
LEMMA AmountFacts ==
  /\ \A i \in Invoices : Amount[i] \in Nat /\ Amount[i] \in Amounts
                         /\ Amount[i] # NoAmount
  /\ 0 \in Amounts /\ NoAmount \in Amounts
  /\ \A a \in Amounts : a # NoAmount => a \in Nat
BY InvoicesAssumption DEF Amounts

(* What the webhook and the provider's answers may name is an amount. *)
LEMMA AnswerFacts ==
  ASSUME NEW i \in Invoices
  PROVE  /\ WebhookAmounts(i) \subseteq Amounts
         /\ \A r \in Replies(i) :
              /\ r.status \in {"processing", "approved", "canceled", "refunded"}
              /\ r.amount \in Amounts
              /\ r.status = "approved" => account[i] = "paid"
<1>1. WebhookAmounts(i) \subseteq Amounts
  BY AmountFacts DEF WebhookAmounts
<1>2. \A r \in Replies(i) :
        /\ r.status \in {"processing", "approved", "canceled", "refunded"}
        /\ r.amount \in Amounts
        /\ r.status = "approved" => account[i] = "paid"
  BY DEF Replies, Statuses
<1> QED BY <1>1, <1>2

(* A credit appends one well-formed row to the ledger, for its invoice. *)
LEMMA CreditFacts ==
  ASSUME TypeOK, NEW i \in Invoices, NEW a \in Nat, Credit(i, a)
  PROVE  /\ balance' \in [Clients -> Nat]
         /\ ledger' \in Seq(Entry)
         /\ Len(ledger') = Len(ledger) + 1
         /\ DOMAIN ledger' = DOMAIN ledger \cup {Len(ledger) + 1}
         /\ \A k \in DOMAIN ledger : ledger'[k] = ledger[k]
         /\ ledger'[Len(ledger) + 1].topup = i
         /\ ledger'[Len(ledger) + 1].amount = a
<1> DEFINE e == [topup |-> i, amount |-> a, before |-> balance[Owner[i]],
                 after |-> balance[Owner[i]] + a]
<1>1. Owner[i] \in Clients
  BY InvoicesAssumption
<1>2. e \in Entry
  BY <1>1 DEF TypeOK, Entry
<1>3. ledger' = Append(ledger, e) /\ ledger \in Seq(Entry)
  BY DEF Credit, TypeOK, Entry
<1>4. balance' \in [Clients -> Nat]
  BY <1>1 DEF Credit, TypeOK
<1> HIDE DEF e
<1>5. /\ ledger' \in Seq(Entry)
      /\ Len(ledger') = Len(ledger) + 1
      /\ ledger'[Len(ledger) + 1] = e
      /\ \A k \in 1..Len(ledger) : ledger'[k] = ledger[k]
  BY <1>2, <1>3
<1>6. /\ DOMAIN ledger = 1..Len(ledger)
      /\ DOMAIN ledger' = 1..Len(ledger')
      /\ Len(ledger) \in Nat
  BY <1>3, <1>5
<1> QED BY <1>4, <1>5, <1>6 DEF e

(* Every step keeps the types. *)
LEMMA TypeStep == TypeOK /\ [Next]_vars => TypeOK'
<1> SUFFICES ASSUME TypeOK, [Next]_vars PROVE TypeOK'
  OBVIOUS
<1> USE DEF row, money, loop, Statuses
<1>0. NoCheck \in [by: {"nobody", "poll", "forced"}, status: Statuses,
                   count: Nat, paid: Amounts]
  BY AmountFacts DEF NoCheck
<1>1. ASSUME NEW i \in Invoices,
             \/ CreateTopup(i) \/ CreateSucceeds(i) \/ CreateFails(i)
      PROVE  TypeOK'
  <2>1. CASE CreateTopup(i)
    BY <2>1 DEF TypeOK, CreateTopup
  <2>2. CASE CreateSucceeds(i)
    <3>1. PICK n \in Nat : Inserted(i, n)
      BY <2>2, BoundsAssumption
      DEF CreateSucceeds, QrCreated, CardCreated, NambaCreated
    <3> QED BY <3>1 DEF TypeOK, Inserted
  <2>3. CASE CreateFails(i)
    BY <2>3 DEF TypeOK, CreateFails
  <2> QED BY <1>1, <2>1, <2>2, <2>3
<1>2. ASSUME NEW i \in Invoices, \/ Pay(i) \/ Void(i) \/ Refund(i) \/ Expire(i)
      PROVE  TypeOK'
  BY <1>2 DEF TypeOK, Pay, Void, Refund, Expire
<1>3. ASSUME NEW i \in Invoices, NEW a \in WebhookAmounts(i), Webhook(i, a)
      PROVE  TypeOK'
  <2>1. a \in Amounts
    BY AnswerFacts
  <2> QED BY <1>3, <2>1 DEF TypeOK, Webhook
<1>4. ASSUME NEW i \in Invoices, ForceStatusCheck(i)
      PROVE  TypeOK'
  BY <1>4 DEF TypeOK, ForceStatusCheck
<1>5. ASSUME NEW i \in Invoices, NEW by \in {"poll", "forced"},
             CheckStarts(i, by) \/ CheckSkipped(i, by)
      PROVE  TypeOK'
  <2>1. poll' \in [Invoices -> Nat] /\ forced' \subseteq Invoices
    <3>1. Due(i, by) /\ Consume(i, by)
      BY <1>5 DEF CheckStarts, CheckSkipped
    <3>2. CASE by = "poll"
      <4>1. poll[i] - 1 \in Nat
        BY <3>1, <3>2 DEF TypeOK, Due
      <4> QED BY <3>1, <3>2, <4>1 DEF TypeOK, Consume
    <3>3. CASE by = "forced"
      BY <3>1, <3>3 DEF TypeOK, Consume
    <3> QED BY <3>2, <3>3
  <2>2. CASE CheckStarts(i, by)
    <3>1. [by |-> by, status |-> status[i], count |-> checkCount[i],
           paid |-> paidAmount[i]]
            \in [by: {"nobody", "poll", "forced"}, status: Statuses,
                count: Nat, paid: Amounts]
      BY DEF TypeOK
    <3> QED BY <2>1, <2>2, <3>1 DEF TypeOK, CheckStarts
  <2>3. CASE CheckSkipped(i, by)
    BY <2>1, <2>3 DEF TypeOK, CheckSkipped
  <2> QED BY <1>5, <2>2, <2>3
<1>6. ASSUME NEW i \in Invoices, NEW r \in Replies(i), CheckReplies(i, r)
      PROVE  TypeOK'
  <2>1. r.status \in Statuses /\ r.amount \in Amounts
    BY AnswerFacts
  <2>2. balance' \in [Clients -> Nat] /\ ledger' \in Seq(Entry)
    <3>1. CASE r.status = "approved" /\ check[i].paid = NoAmount
      <4> DEFINE a == IF r.amount = NoAmount THEN 0 ELSE r.amount
      <4>1. a \in Nat
        BY <2>1, AmountFacts
      <4>2. Credit(i, a)
        BY <1>6, <3>1 DEF CheckReplies
      <4> HIDE DEF a
      <4> QED BY <4>1, <4>2, CreditFacts
    <3>2. CASE ~(r.status = "approved" /\ check[i].paid = NoAmount)
      BY <1>6, <3>2 DEF CheckReplies, TypeOK, Entry
    <3> QED BY <3>1, <3>2
  <2>3. (r.status = "processing" /\ StillProcessing(i)) \in BOOLEAN
    OBVIOUS
  <2>4. needsCheck' \in [Invoices -> BOOLEAN]
    BY <1>6, <2>3 DEF CheckReplies, TypeOK
  <2> QED BY <1>0, <1>6, <2>1, <2>2, <2>4 DEF TypeOK, CheckReplies, Entry
<1>7. ASSUME NEW i \in Invoices, CheckFails(i)
      PROVE  TypeOK'
  BY <1>0, <1>7 DEF TypeOK, CheckFails
<1>8. ASSUME NEW S \in SUBSET Invoices, CancelRows(S)
      PROVE  TypeOK'
  BY <1>8 DEF TypeOK, CancelRows
<1>9. ASSUME NEW i \in Invoices, GetPaymentStatus(i) \/ CancelPayment(i)
      PROVE  TypeOK'
  BY <1>8, <1>9 DEF GetPaymentStatus, CancelPayment
<1>10. ASSUME NEW t \in tasks, ProcessBalanceTopup(t) \/ TaskEndsWithoutCredit(t)
       PROVE  TypeOK'
  <2>1. t.invoice \in Invoices /\ t.amount \in Amounts
    BY DEF TypeOK
  <2>2. CASE ProcessBalanceTopup(t)
    <3>1. t.amount \in Nat
      BY <2>1, <2>2, AmountFacts DEF ProcessBalanceTopup, TaskCredits
    <3>2. balance' \in [Clients -> Nat] /\ ledger' \in Seq(Entry)
      BY <2>1, <2>2, <3>1, CreditFacts DEF ProcessBalanceTopup
    <3> QED BY <2>1, <2>2, <3>2 DEF TypeOK, ProcessBalanceTopup, Entry
  <2>3. CASE TaskEndsWithoutCredit(t)
    BY <2>3 DEF TypeOK, TaskEndsWithoutCredit
  <2> QED BY <1>10, <2>2, <2>3
<1>11. CASE CleanupExpiredPayments
  BY <1>8, <1>11 DEF CleanupExpiredPayments, Overdue
<1>12. CASE Restart
  BY <1>0, <1>12 DEF TypeOK, Restart
<1>13. CASE UNCHANGED vars
  BY <1>13 DEF TypeOK, vars
<1> QED
  BY <1>1, <1>2, <1>3, <1>4, <1>5, <1>6, <1>7, <1>9, <1>10, <1>11, <1>12, <1>13
     DEF Next

LEMMA TypeInit == Init => TypeOK
<1> SUFFICES ASSUME Init PROVE TypeOK
  OBVIOUS
<1>1. NoCheck \in [by: {"nobody", "poll", "forced"}, status: Statuses,
                   count: Nat, paid: Amounts]
  BY AmountFacts DEF NoCheck, Statuses
<1>2. ledger \in Seq([topup: Invoices, amount: Nat, before: Nat, after: Nat])
  BY DEF Init
<1> QED BY <1>1, <1>2, AmountFacts DEF Init, TypeOK, Statuses

(* Every table keeps its type: in particular no balance becomes negative   *)
(* and no credit is the sum of a number and a NULL.                        *)
THEOREM TypeCorrect == Spec => []TypeOK
<1> QED BY TypeInit, TypeStep, PTL DEF Spec

----------------------------------------------------------------------------
(* The inductive invariant.  CreditedOnce alone is not inductive: a        *)
(* suspended check decides on what it read before its await, so one needs  *)
(* that the row lock keeps it current (SnapshotIsCurrent) and that what    *)
(* runs in the background is for the right rows (PendingWork).             *)
IInv == TypeOK /\ CreditedOnce /\ CreditsAreBacked /\ SnapshotIsCurrent /\ PendingWork

(* A step that leaves the ledger and the credited rows alone. *)
LEMMA NoCreditStep ==
  ASSUME CreditedOnce, CreditsAreBacked, ledger' = ledger,
         \A i \in Invoices : CreditsOf(i) # {} =>
           status'[i] = status[i] /\ account'[i] \in {"paid", "refunded"}
  PROVE  CreditedOnce' /\ CreditsAreBacked'
<1>1. \A i \in Invoices : CreditsOf(i)' = CreditsOf(i)
  BY DEF CreditsOf
<1> QED BY <1>1 DEF CreditedOnce, CreditsAreBacked

(* A step that credits an invoice that was not credited before. *)
LEMMA CreditStep ==
  ASSUME TypeOK, CreditedOnce, CreditsAreBacked,
         NEW i \in Invoices, NEW a \in Nat, Credit(i, a), CreditsOf(i) = {},
         status' = [status EXCEPT ![i] = "approved"], account' = account,
         account[i] \in {"paid", "refunded"}
  PROVE  CreditedOnce' /\ CreditsAreBacked'
<1> DEFINE n == Len(ledger) + 1
<1>1. /\ DOMAIN ledger' = DOMAIN ledger \cup {n}
      /\ \A k \in DOMAIN ledger : ledger'[k] = ledger[k]
      /\ ledger'[n].topup = i
  BY CreditFacts
<1> HIDE DEF n
<1>2. \A k \in DOMAIN ledger : ledger[k].topup # i
  BY DEF CreditsOf
<1>3. CreditedOnce'
  BY <1>1, <1>2 DEF CreditedOnce
<1>4. ASSUME NEW j \in Invoices, j # i
      PROVE  CreditsOf(j)' = CreditsOf(j) /\ status'[j] = status[j]
  BY <1>1, <1>4 DEF CreditsOf, TypeOK
<1>5. status'[i] = "approved"
  BY DEF TypeOK
<1>6. CreditsAreBacked'
  BY <1>4, <1>5 DEF CreditsAreBacked
<1> QED BY <1>3, <1>6

LEMMA SafetyStep == IInv /\ [Next]_vars => IInv'
<1> SUFFICES ASSUME IInv, [Next]_vars PROVE IInv'
  OBVIOUS
<1>t. TypeOK'
  BY TypeStep DEF IInv
<1> USE DEF IInv, row, money, loop
<1> DEFINE Goal == CreditedOnce' /\ CreditsAreBacked' /\ SnapshotIsCurrent' /\ PendingWork'
<1>0. NoCheck.by = "nobody"
  BY DEF NoCheck
<1>1. ASSUME NEW i \in Invoices, CreateTopup(i) PROVE Goal
  <2>1. CreditedOnce' /\ CreditsAreBacked'
    BY <1>1, NoCreditStep DEF CreateTopup, Superseded, TypeOK, CreditsAreBacked
  <2>2. SnapshotIsCurrent'
    BY <1>1 DEF CreateTopup, SnapshotIsCurrent, Superseded, Unlocked, TypeOK
  <2>3. PendingWork'
    BY <1>1 DEF CreateTopup, PendingWork, Superseded, Unlocked, Created, TypeOK
  <2> QED BY <2>1, <2>2, <2>3
<1>2. ASSUME NEW i \in Invoices, CreateSucceeds(i) PROVE Goal
  <2>1. status[i] = "none" /\ CreditsOf(i) = {} /\ check[i].by = "nobody"
    BY <1>2 DEF CreateSucceeds,
                QrCreated, CardCreated, NambaCreated, Inserted, PendingWork,
                Created, CreditsAreBacked
  <2>2. CreditedOnce' /\ CreditsAreBacked'
    BY <1>2, <2>1, NoCreditStep DEF CreateSucceeds,
                                    QrCreated, CardCreated, NambaCreated,
                                    Inserted, TypeOK, CreditsAreBacked
  <2>3. SnapshotIsCurrent'
    BY <1>2, <2>1 DEF CreateSucceeds,
                      QrCreated, CardCreated, NambaCreated, Inserted,
                      SnapshotIsCurrent, TypeOK
  <2>4. PendingWork'
    BY <1>2, <2>1 DEF CreateSucceeds,
                      QrCreated, CardCreated, NambaCreated, Inserted,
                      PendingWork, Created, TypeOK
  <2> QED BY <2>2, <2>3, <2>4
<1>3. ASSUME NEW i \in Invoices,
             \/ CreateFails(i) \/ Pay(i) \/ Void(i) \/ Refund(i) \/ Expire(i)
             \/ ForceStatusCheck(i)
      PROVE  Goal
  <2>1. CreditedOnce' /\ CreditsAreBacked'
    BY <1>3, NoCreditStep
       DEF CreateFails, Pay, Void, Refund, Expire, ForceStatusCheck, TypeOK,
           CreditsAreBacked
  <2>2. SnapshotIsCurrent'
    BY <1>3
       DEF CreateFails, Pay, Void, Refund, Expire, ForceStatusCheck,
           SnapshotIsCurrent
  <2>3. PendingWork'
    BY <1>3
       DEF CreateFails, Pay, Void, Refund, Expire, ForceStatusCheck, TypeOK,
           PendingWork, Created
  <2> QED BY <2>1, <2>2, <2>3
<1>4. ASSUME NEW i \in Invoices, NEW a \in WebhookAmounts(i), Webhook(i, a)
      PROVE  Goal
  <2>1. CreditedOnce' /\ CreditsAreBacked'
    BY <1>4, NoCreditStep DEF Webhook, CreditsAreBacked
  <2>2. SnapshotIsCurrent'
    BY <1>4 DEF Webhook, SnapshotIsCurrent
  <2>3. PendingWork'
    BY <1>4 DEF Webhook, PendingWork, Created
  <2> QED BY <2>1, <2>2, <2>3
<1>5. ASSUME NEW i \in Invoices, NEW by \in {"poll", "forced"}, CheckStarts(i, by)
      PROVE  Goal
  <2>1. status[i] = "processing"
    BY <1>5 DEF CheckStarts, Due, ShouldCheck, PendingWork, Created, TypeOK, Statuses
  <2>2. CreditedOnce' /\ CreditsAreBacked'
    BY <1>5, NoCreditStep DEF CheckStarts, CreditsAreBacked
  <2>3. SnapshotIsCurrent'
    BY <1>5 DEF CheckStarts, SnapshotIsCurrent, TypeOK
  <2>4. PendingWork'
    BY <1>5, <2>1 DEF CheckStarts, Consume, PendingWork, Created, TypeOK
  <2> QED BY <2>2, <2>3, <2>4
<1>6. ASSUME NEW i \in Invoices, NEW by \in {"poll", "forced"}, CheckSkipped(i, by)
      PROVE  Goal
  <2>1. CreditedOnce' /\ CreditsAreBacked'
    BY <1>6, NoCreditStep DEF CheckSkipped, CreditsAreBacked
  <2>2. SnapshotIsCurrent'
    BY <1>6 DEF CheckSkipped, SnapshotIsCurrent
  <2>3. PendingWork'
    BY <1>6 DEF CheckSkipped, Due, Consume, PendingWork, Created, TypeOK
  <2> QED BY <2>1, <2>2, <2>3
<1>7. ASSUME NEW i \in Invoices, NEW r \in Replies(i), CheckReplies(i, r)
      PROVE  Goal
  <2>1. status[i] = "processing" /\ CreditsOf(i) = {}
    BY <1>7 DEF CheckReplies, PendingWork, CreditsAreBacked
  <2>2. /\ r.status \in {"processing", "approved", "canceled", "refunded"}
        /\ r.amount \in Amounts
        /\ r.status = "approved" => account[i] = "paid"
    BY AnswerFacts
  <2>3. CreditedOnce' /\ CreditsAreBacked'
    <3>1. CASE r.status = "approved" /\ check[i].paid = NoAmount
      <4> DEFINE a == IF r.amount = NoAmount THEN 0 ELSE r.amount
      <4>1. a \in Nat
        BY <2>2, AmountFacts
      <4>2. Credit(i, a) /\ account' = account
        BY <1>7, <3>1 DEF CheckReplies
      <4>3. status' = [status EXCEPT ![i] = "approved"]
        BY <1>7, <3>1 DEF CheckReplies
      <4> HIDE DEF a
      <4> QED BY <2>1, <2>2, <3>1, <4>1, <4>2, <4>3, CreditStep
    <3>2. CASE ~(r.status = "approved" /\ check[i].paid = NoAmount)
      BY <1>7, <2>1, <3>2, NoCreditStep DEF CheckReplies, TypeOK, CreditsAreBacked
    <3> QED BY <3>1, <3>2
  <2>4. SnapshotIsCurrent'
    BY <1>0, <1>7 DEF CheckReplies, SnapshotIsCurrent, TypeOK
  <2>5. PendingWork'
    <3>1. poll' \in [Invoices -> Nat] /\ \A j \in Invoices : poll'[j] > 0 => poll[j] > 0
      BY <1>7 DEF CheckReplies, TypeOK
    <3> QED BY <1>0, <1>7, <2>1, <2>2, <3>1 DEF CheckReplies, PendingWork, Created, TypeOK
  <2> QED BY <2>3, <2>4, <2>5
<1>8. ASSUME NEW i \in Invoices, CheckFails(i) PROVE Goal
  <2>1. CreditedOnce' /\ CreditsAreBacked'
    BY <1>8, NoCreditStep DEF CheckFails, CreditsAreBacked
  <2>2. SnapshotIsCurrent' /\ PendingWork'
    BY <1>0, <1>8 DEF CheckFails, SnapshotIsCurrent, PendingWork, Created, TypeOK
  <2> QED BY <2>1, <2>2
<1>9. ASSUME NEW S \in SUBSET Invoices, CancelRows(S),
             \A i \in S : status[i] = "processing" /\ Unlocked(i)
      PROVE  Goal
  <2>1. CreditedOnce' /\ CreditsAreBacked'
    BY <1>9, NoCreditStep DEF CancelRows, CreditsAreBacked
  <2>2. SnapshotIsCurrent'
    BY <1>9 DEF CancelRows, SnapshotIsCurrent, Unlocked
  <2>3. PendingWork'
    BY <1>9 DEF CancelRows, PendingWork, Unlocked, Created, TypeOK
  <2> QED BY <2>1, <2>2, <2>3
<1>10. ASSUME NEW i \in Invoices, GetPaymentStatus(i) \/ CancelPayment(i)
       PROVE  Goal
  BY <1>9, <1>10 DEF GetPaymentStatus, CancelPayment
<1>11. ASSUME CleanupExpiredPayments PROVE Goal
  BY <1>9, <1>11 DEF CleanupExpiredPayments, Overdue
<1>12. ASSUME NEW t \in tasks, ProcessBalanceTopup(t)
       PROVE  Goal
  <2> DEFINE i == t.invoice
  <2>1. i \in Invoices /\ t.amount \in Amounts
    BY DEF TypeOK
  <2>2. /\ status[i] # "approved" /\ CreditsOf(i) = {} /\ t.amount \in Nat
        /\ account[i] \in {"paid", "refunded"} /\ check[i].by = "nobody"
    BY <1>12, <2>1, AmountFacts
       DEF ProcessBalanceTopup, TaskCredits, CreditsAreBacked, PendingWork, Unlocked
  <2>3. CreditedOnce' /\ CreditsAreBacked'
    BY <1>12, <2>1, <2>2, CreditStep DEF ProcessBalanceTopup
  <2>4. SnapshotIsCurrent'
    BY <1>12, <2>1, <2>2 DEF ProcessBalanceTopup, SnapshotIsCurrent, TypeOK
  <2>5. PendingWork'
    BY <1>12, <2>1, <2>2 DEF ProcessBalanceTopup, PendingWork, Created, TypeOK
  <2> QED BY <2>3, <2>4, <2>5
<1>13. ASSUME NEW t \in tasks, TaskEndsWithoutCredit(t)
       PROVE  Goal
  <2>1. CreditedOnce' /\ CreditsAreBacked'
    BY <1>13, NoCreditStep DEF TaskEndsWithoutCredit, CreditsAreBacked
  <2>2. SnapshotIsCurrent' /\ PendingWork'
    BY <1>13 DEF TaskEndsWithoutCredit, SnapshotIsCurrent, PendingWork, Created
  <2> QED BY <2>1, <2>2
<1>14. ASSUME Restart PROVE Goal
  <2>1. CreditedOnce' /\ CreditsAreBacked'
    BY <1>14, NoCreditStep DEF Restart, CreditsAreBacked
  <2>2. SnapshotIsCurrent' /\ PendingWork'
    BY <1>0, <1>14 DEF Restart, SnapshotIsCurrent, PendingWork, Created
  <2> QED BY <2>1, <2>2
<1>15. ASSUME UNCHANGED vars PROVE Goal
  <2>1. CreditedOnce' /\ CreditsAreBacked'
    BY <1>15, NoCreditStep DEF vars, CreditsAreBacked
  <2>2. SnapshotIsCurrent' /\ PendingWork'
    BY <1>15 DEF vars, SnapshotIsCurrent, PendingWork, Created
  <2> QED BY <2>1, <2>2
<1> HIDE DEF Goal, IInv
<1>16. Goal
  BY <1>1, <1>2, <1>3, <1>4, <1>5, <1>6, <1>7, <1>8, <1>10, <1>11, <1>12, <1>13,
     <1>14, <1>15 DEF Next
<1> QED BY <1>t, <1>16 DEF Goal, IInv

LEMMA SafetyInit == Init => IInv
<1> SUFFICES ASSUME Init PROVE IInv
  OBVIOUS
<1>1. TypeOK
  BY TypeInit
<1>2. CreditedOnce /\ CreditsAreBacked
  BY DEF Init, CreditedOnce, CreditsAreBacked, CreditsOf
<1>3. SnapshotIsCurrent /\ PendingWork
  BY DEF Init, SnapshotIsCurrent, PendingWork, NoCheck
<1> QED BY <1>1, <1>2, <1>3 DEF IInv

LEMMA Invariance == Spec => []IInv
<1> QED BY SafetyInit, SafetyStep, PTL DEF Spec

(* However webhooks, polls, forced checks, cancels and restarts interleave, *)
(* process_balance_topup and perform_status_check together credit an       *)
(* invoice at most once, and only when the provider was paid for it.       *)
THEOREM AtMostOneCredit == Spec => [](CreditedOnce /\ CreditsAreBacked)
<1>1. IInv => CreditedOnce /\ CreditsAreBacked
  BY DEF IInv
<1> QED BY <1>1, Invariance, PTL

(* A credited invoice is approved and its money is with the provider: no   *)
(* path of webhook.py or payment_service.py credits and leaves the row     *)
(* open to a second credit.                                                *)
THEOREM CreditsBacked == Spec => []CreditsAreBacked
<1>1. IInv => CreditsAreBacked
  BY DEF IInv
<1> QED BY <1>1, Invariance, PTL

(* The row lock of perform_status_check does its work: what the coroutine  *)
(* read before it awaited the provider is what the row still holds.        *)
THEOREM LockProtectsSnapshot == Spec => []SnapshotIsCurrent
<1>1. IInv => SnapshotIsCurrent
  BY DEF IInv
<1> QED BY <1>1, Invariance, PTL

(* No cancel, cleanup, status read or late answer reopens an approved row. *)
THEOREM ApprovedForever == Spec => ApprovedIsFinal
<1>1. IInv /\ [Next]_vars =>
        (\A i \in Invoices : status[i] = "approved" => status'[i] = "approved")
  <2> SUFFICES ASSUME IInv, [Next]_vars, NEW i \in Invoices, status[i] = "approved"
               PROVE  status'[i] = "approved"
    OBVIOUS
  <2> USE DEF IInv, row, loop
  <2>1. ASSUME NEW j \in Invoices,
               \/ CreateTopup(j) \/ CreateSucceeds(j) \/ CreateFails(j)
        PROVE  status'[i] = "approved"
    BY <2>1
       DEF CreateTopup, Superseded, CreateSucceeds,
           QrCreated, CardCreated, NambaCreated, Inserted, CreateFails,
           PendingWork,
           Created, TypeOK
  <2>2. ASSUME NEW j \in Invoices,
               \/ Pay(j) \/ Void(j) \/ Refund(j) \/ Expire(j) \/ ForceStatusCheck(j)
               \/ CheckFails(j) \/ GetPaymentStatus(j) \/ CancelPayment(j)
               \/ \E a \in WebhookAmounts(j) : Webhook(j, a)
               \/ \E by \in {"poll", "forced"} :
                    CheckStarts(j, by) \/ CheckSkipped(j, by)
        PROVE  status'[i] = "approved"
    BY <2>2
       DEF Pay, Void, Refund, Expire, ForceStatusCheck, CheckFails,
           GetPaymentStatus, CancelPayment, CancelRows, Webhook, CheckStarts,
           CheckSkipped
  <2>3. ASSUME NEW j \in Invoices, NEW r \in Replies(j), CheckReplies(j, r)
        PROVE  status'[i] = "approved"
    BY <2>3 DEF CheckReplies, PendingWork, TypeOK
  <2>4. ASSUME NEW t \in tasks, ProcessBalanceTopup(t) \/ TaskEndsWithoutCredit(t)
        PROVE  status'[i] = "approved"
    BY <2>4 DEF ProcessBalanceTopup, TaskEndsWithoutCredit, TypeOK
  <2>5. ASSUME CleanupExpiredPayments \/ Restart \/ UNCHANGED vars
        PROVE  status'[i] = "approved"
    BY <2>5 DEF CleanupExpiredPayments, CancelRows, Overdue, Restart, vars
  <2> HIDE DEF IInv, row, loop
  <2> QED BY <2>1, <2>2, <2>3, <2>4, <2>5 DEF Next
<1> QED BY <1>1, Invariance, PTL DEF Spec, ApprovedIsFinal

----------------------------------------------------------------------------
(* Refinement: a top-up is a PrepaidAccount. *)

FullAmounts == \A t \in tasks : t.amount = Amount[t.invoice]

(* When providers name the amount in every webhook, every queued credit is *)
(* for the amount of its invoice.                                          *)
LEMMA FullAmountsStep ==
  ASSUME ~MissingAmounts, TypeOK, FullAmounts, [Next]_vars
  PROVE  FullAmounts'
<1> USE DEF loop
<1>1. ASSUME NEW i \in Invoices, NEW a \in WebhookAmounts(i), Webhook(i, a)
      PROVE  FullAmounts'
  BY <1>1 DEF FullAmounts, Webhook, WebhookAmounts
<1>2. ASSUME tasks' \subseteq tasks
      PROVE  FullAmounts'
  BY <1>2 DEF FullAmounts
<1>3. ASSUME NEW i \in Invoices,
             \/ CreateTopup(i) \/ CreateSucceeds(i) \/ CreateFails(i)
             \/ Pay(i) \/ Void(i) \/ Refund(i) \/ Expire(i)
             \/ ForceStatusCheck(i) \/ CheckFails(i)
             \/ GetPaymentStatus(i) \/ CancelPayment(i)
             \/ \E by \in {"poll", "forced"} : CheckStarts(i, by) \/ CheckSkipped(i, by)
             \/ \E r \in Replies(i) : CheckReplies(i, r)
      PROVE  tasks' \subseteq tasks
  BY <1>3
     DEF CreateTopup, CreateSucceeds,
         QrCreated, CardCreated, NambaCreated, Inserted, CreateFails, Pay,
         Void, Refund, Expire,
         ForceStatusCheck, CheckFails, GetPaymentStatus, CancelPayment,
         CancelRows, CheckStarts, CheckSkipped, CheckReplies
<1>4. ASSUME NEW t \in tasks, ProcessBalanceTopup(t) \/ TaskEndsWithoutCredit(t)
      PROVE  tasks' \subseteq tasks
  BY <1>4 DEF ProcessBalanceTopup, TaskEndsWithoutCredit
<1>5. ASSUME CleanupExpiredPayments \/ Restart \/ UNCHANGED vars
      PROVE  tasks' \subseteq tasks
  BY <1>5 DEF CleanupExpiredPayments, CancelRows, Restart, vars
<1> QED BY <1>1, <1>2, <1>3, <1>4, <1>5 DEF Next

paidMap == {i \in Invoices : account[i] \in {"paid", "refunded"}}
creditedMap == {i \in Invoices : CreditsOf(i) # {}}

(* A credit of an invoice's amount is one Credit step of PrepaidAccount. *)
LEMMA CreditMaps ==
  ASSUME IInv, NEW i \in Invoices, Credit(i, Amount[i]), CreditsOf(i) = {},
         account[i] \in {"paid", "refunded"}, account' = account
  PROVE  Account!Credit(i)
<1>1. /\ DOMAIN ledger' = DOMAIN ledger \cup {Len(ledger) + 1}
      /\ \A k \in DOMAIN ledger : ledger'[k] = ledger[k]
      /\ ledger'[Len(ledger) + 1].topup = i
  BY CreditFacts, AmountFacts DEF IInv
<1>2. \A j \in Invoices : (CreditsOf(j) # {})' = (CreditsOf(j) # {} \/ j = i)
  BY <1>1 DEF CreditsOf
<1>3. creditedMap' = creditedMap \cup {i}
  BY <1>2 DEF creditedMap
<1>4. i \in paidMap \ creditedMap /\ paidMap' = paidMap
  BY DEF paidMap, creditedMap
<1>5. balance' = [balance EXCEPT ![Owner[i]] = @ + Amount[i]]
  BY DEF Credit
<1> QED BY <1>3, <1>4, <1>5 DEF Account!Credit, paidMap, creditedMap

Unopened == \A i \in Invoices : status[i] = "none" => account[i] = "unopened"

(* The provider knows of no invoice whose row was never inserted. *)
LEMMA UnopenedStep ==
  ASSUME IInv, Unopened, [Next]_vars
  PROVE  Unopened'
<1> USE DEF IInv, row, loop, Unopened
<1>1. ASSUME NEW i \in Invoices,
             \/ CreateTopup(i) \/ CreateSucceeds(i) \/ CreateFails(i)
             \/ Pay(i) \/ Void(i) \/ Refund(i) \/ Expire(i)
      PROVE  Unopened'
  BY <1>1 DEF CreateTopup, CreateSucceeds,
              QrCreated, CardCreated, NambaCreated, Inserted, CreateFails,
              Pay, Void, Refund,
              Expire, TypeOK
<1>2. ASSUME NEW i \in Invoices,
             \/ ForceStatusCheck(i) \/ CheckFails(i)
             \/ GetPaymentStatus(i) \/ CancelPayment(i)
             \/ \E a \in WebhookAmounts(i) : Webhook(i, a)
             \/ \E by \in {"poll", "forced"} : CheckStarts(i, by) \/ CheckSkipped(i, by)
      PROVE  Unopened'
  BY <1>2 DEF ForceStatusCheck, CheckFails, GetPaymentStatus, CancelPayment,
              CancelRows, Webhook, CheckStarts, CheckSkipped
<1>3. ASSUME NEW i \in Invoices, NEW r \in Replies(i), CheckReplies(i, r)
      PROVE  Unopened'
  BY <1>3, AnswerFacts DEF CheckReplies, TypeOK
<1>4. ASSUME NEW t \in tasks, ProcessBalanceTopup(t) \/ TaskEndsWithoutCredit(t)
      PROVE  Unopened'
  BY <1>4 DEF ProcessBalanceTopup, TaskEndsWithoutCredit, TypeOK
<1>5. ASSUME CleanupExpiredPayments \/ Restart \/ UNCHANGED vars
      PROVE  Unopened'
  BY <1>5 DEF CleanupExpiredPayments, CancelRows, Restart, vars
<1> HIDE DEF IInv, row, loop, Unopened
<1> QED BY <1>1, <1>2, <1>3, <1>4, <1>5 DEF Next

RInv == IInv /\ FullAmounts /\ Unopened

(* Every step of the backend is a Pay, a Credit or no step of the account. *)
LEMMA RefinementStep ==
  ASSUME ~MissingAmounts, ~EarlyAmounts, RInv, [Next]_vars
  PROVE  [Account!Next]_<<paidMap, creditedMap, balance>>
<1> USE DEF RInv, IInv, row, money, loop
<1> DEFINE Goal == [Account!Next]_<<paidMap, creditedMap, balance>>
<1>1. ASSUME UNCHANGED <<money, account>>
      PROVE  Goal
  BY <1>1 DEF paidMap, creditedMap, CreditsOf
<1>2. ASSUME NEW i \in Invoices,
             \/ CreateTopup(i) \/ CreateFails(i) \/ Expire(i)
             \/ ForceStatusCheck(i) \/ CheckFails(i)
             \/ GetPaymentStatus(i) \/ CancelPayment(i)
             \/ \E a \in WebhookAmounts(i) : Webhook(i, a)
             \/ \E by \in {"poll", "forced"} : CheckStarts(i, by) \/ CheckSkipped(i, by)
      PROVE  UNCHANGED <<money, account>>
  BY <1>2
     DEF CreateTopup, CreateFails, Expire, ForceStatusCheck, CheckFails,
         GetPaymentStatus, CancelPayment, CancelRows, Webhook, CheckStarts,
         CheckSkipped
<1>3. ASSUME NEW i \in Invoices, CreateSucceeds(i) \/ Void(i) \/ Refund(i)
      PROVE  Goal
  <2>1. UNCHANGED money
    BY <1>3 DEF CreateSucceeds,
                QrCreated, CardCreated, NambaCreated, Inserted, Void, Refund
  <2>2. \A j \in Invoices :
          (account'[j] \in {"paid", "refunded"}) = (account[j] \in {"paid", "refunded"})
    BY <1>3 DEF CreateSucceeds,
                QrCreated, CardCreated, NambaCreated, Inserted, Void, Refund,
                PendingWork, Created, Unopened, TypeOK
  <2>3. paidMap' = paidMap
    BY <2>2 DEF paidMap
  <2>4. creditedMap' = creditedMap
    BY <2>1 DEF creditedMap, CreditsOf
  <2> QED BY <2>1, <2>3, <2>4
<1>4. ASSUME NEW i \in Invoices, Pay(i)
      PROVE  Goal
  <2>1. UNCHANGED money
    BY <1>4 DEF Pay
  <2>2. i \notin paidMap /\ paidMap' = paidMap \cup {i}
    BY <1>4 DEF Pay, paidMap, TypeOK
  <2>3. creditedMap' = creditedMap
    BY <2>1 DEF creditedMap, CreditsOf
  <2>4. Account!Pay(i)
    BY <2>1, <2>2, <2>3 DEF Account!Pay, paidMap, creditedMap
  <2> QED BY <2>4 DEF Account!Next
<1>5. ASSUME NEW i \in Invoices, NEW r \in Replies(i), CheckReplies(i, r)
      PROVE  Goal
  <2>1. status[i] = "processing" /\ CreditsOf(i) = {} /\ account' = account
    BY <1>5 DEF CheckReplies, PendingWork, CreditsAreBacked
  <2>2. CASE r.status = "approved" /\ check[i].paid = NoAmount
    <3>1. r.amount = Amount[i] /\ account[i] = "paid"
      BY <2>2 DEF Replies
    <3>2. Credit(i, Amount[i])
      BY <1>5, <2>2, <3>1, AmountFacts DEF CheckReplies
    <3> QED BY <2>1, <3>1, <3>2, CreditMaps DEF Account!Next
  <2>3. CASE ~(r.status = "approved" /\ check[i].paid = NoAmount)
    <3>1. UNCHANGED <<money, account>>
      BY <1>5, <2>3 DEF CheckReplies
    <3> QED BY <1>1, <3>1
  <2> QED BY <2>2, <2>3
<1>6. ASSUME NEW t \in tasks, ProcessBalanceTopup(t)
      PROVE  Goal
  <2>1. t.invoice \in Invoices /\ t.amount = Amount[t.invoice]
    BY DEF TypeOK, FullAmounts
  <2>2. /\ Credit(t.invoice, Amount[t.invoice]) /\ account' = account
        /\ CreditsOf(t.invoice) = {}
        /\ account[t.invoice] \in {"paid", "refunded"}
    BY <1>6, <2>1
       DEF ProcessBalanceTopup, TaskCredits, CreditsAreBacked, PendingWork
  <2>3. Account!Credit(t.invoice)
    BY <2>1, <2>2, CreditMaps
  <2> QED BY <2>1, <2>3 DEF Account!Next
<1>7. ASSUME \/ \E t \in tasks : TaskEndsWithoutCredit(t)
             \/ CleanupExpiredPayments \/ Restart \/ UNCHANGED vars
      PROVE  UNCHANGED <<money, account>>
  BY <1>7 DEF TaskEndsWithoutCredit, CleanupExpiredPayments, CancelRows, Restart, vars
<1> HIDE DEF Goal, RInv, IInv, row, money, loop
<1>8. Goal
  BY <1>1, <1>2, <1>3, <1>4, <1>5, <1>6, <1>7 DEF Next
<1> QED BY <1>8 DEF Goal

LEMMA RefinementInit == Init => RInv /\ Account!Init
<1> SUFFICES ASSUME Init PROVE RInv /\ Account!Init
  OBVIOUS
<1>1. IInv
  BY SafetyInit
<1>2. FullAmounts /\ Unopened
  BY DEF Init, FullAmounts, Unopened
<1>3. \A i \in Invoices : CreditsOf(i) = {} /\ account[i] \notin {"paid", "refunded"}
  BY DEF Init, CreditsOf
<1>4. Account!Init
  BY <1>3 DEF Account!Init, Init
<1> QED BY <1>1, <1>2, <1>4 DEF RInv

(* When the provider names the full amount in every webhook and every      *)
(* approval, the client is credited exactly what it paid,                  *)
(* once: webhook, polling and forced checks implement PrepaidAccount.      *)
THEOREM TopUpImplementsPrepaidAccount ==
  ASSUME ~MissingAmounts, ~EarlyAmounts
  PROVE  Spec => ImplementsPrepaidAccount
<1>1. Init => RInv /\ Account!Init
  BY RefinementInit
<1>2. RInv /\ [Next]_vars => RInv'
  BY SafetyStep, FullAmountsStep, UnopenedStep DEF RInv, IInv
<1>3. RInv /\ [Next]_vars => [Account!Next]_<<paidMap, creditedMap, balance>>
  BY RefinementStep
<1> QED
  BY <1>1, <1>2, <1>3, PTL
     DEF Spec, ImplementsPrepaidAccount, Account!Spec, paidMap, creditedMap

----------------------------------------------------------------------------
(* What an approved row promises. *)

(* A row nobody has answered for yet names no paid amount: so a check that *)
(* runs read none, and credits what the provider now names.                *)
PaidIsAnswered ==
  \A i \in Invoices : status[i] \in {"none", "processing"} =>
    paidAmount[i] = NoAmount

AInv == IInv /\ FullAmounts /\ PaidIsAnswered /\ ApprovedIsCredited

(* A credit leaves every earlier row of the ledger where it was. *)
LEMMA CreditsStay ==
  ASSUME TypeOK, NEW i \in Invoices, NEW a \in Nat, Credit(i, a),
         NEW j \in Invoices, \E k \in CreditsOf(j) : ledger[k].amount = Amount[j]
  PROVE  (\E k \in CreditsOf(j) : ledger[k].amount = Amount[j])'
<1>1. PICK k \in DOMAIN ledger : ledger[k].topup = j /\ ledger[k].amount = Amount[j]
  BY DEF CreditsOf
<1>2. k \in DOMAIN ledger' /\ ledger'[k] = ledger[k]
  BY <1>1, CreditFacts
<1> QED BY <1>1, <1>2 DEF CreditsOf

(* Crediting the whole amount of a row and approving it. *)
LEMMA ApprovingStep ==
  ASSUME AInv, NEW i \in Invoices, Credit(i, Amount[i]),
         status' = [status EXCEPT ![i] = "approved"]
  PROVE  ApprovedIsCredited'
<1> USE DEF AInv, IInv
<1>1. Amount[i] \in Nat
  BY AmountFacts
<1>2. (\E k \in CreditsOf(i) : ledger[k].amount = Amount[i])'
  <2> DEFINE n == Len(ledger) + 1
  <2>1. n \in DOMAIN ledger' /\ ledger'[n].topup = i /\ ledger'[n].amount = Amount[i]
    BY <1>1, CreditFacts
  <2> HIDE DEF n
  <2> QED BY <2>1 DEF CreditsOf
<1>3. ASSUME NEW j \in Invoices, j # i, status'[j] = "approved"
      PROVE  (\E k \in CreditsOf(j) : ledger[k].amount = Amount[j])'
  <2>1. status[j] = "approved"
    BY <1>3 DEF TypeOK
  <2>2. \E k \in CreditsOf(j) : ledger[k].amount = Amount[j]
    BY <2>1 DEF ApprovedIsCredited
  <2> QED BY <1>1, <2>2, CreditsStay
<1> QED BY <1>2, <1>3 DEF ApprovedIsCredited

(* A step that credits nobody and approves no row. *)
LEMMA NoApprovalStep ==
  ASSUME ApprovedIsCredited, ledger' = ledger,
         \A i \in Invoices : status'[i] = "approved" => status[i] = "approved"
  PROVE  ApprovedIsCredited'
BY DEF ApprovedIsCredited, CreditsOf

LEMMA ApprovedStep ==
  ASSUME ~MissingAmounts, ~EarlyAmounts, AInv, [Next]_vars
  PROVE  PaidIsAnswered' /\ ApprovedIsCredited'
<1> USE DEF AInv, IInv, row, money, loop
<1> DEFINE Goal == PaidIsAnswered' /\ ApprovedIsCredited'
<1>1. ASSUME NEW i \in Invoices, CreateTopup(i) PROVE Goal
  BY <1>1, NoApprovalStep DEF CreateTopup, Superseded, PaidIsAnswered, TypeOK
<1>2. ASSUME NEW i \in Invoices, CreateSucceeds(i) PROVE Goal
  <2>1. status[i] = "none"
    BY <1>2 DEF CreateSucceeds, QrCreated, CardCreated, NambaCreated, Inserted,
                PendingWork, Created
  <2> QED BY <1>2, <2>1, NoApprovalStep
          DEF CreateSucceeds, QrCreated, CardCreated, NambaCreated, Inserted,
              PaidIsAnswered, TypeOK
<1>3. ASSUME NEW i \in Invoices,
             \/ CreateFails(i) \/ Pay(i) \/ Void(i) \/ Refund(i) \/ Expire(i)
             \/ ForceStatusCheck(i) \/ CheckFails(i)
             \/ \E a \in WebhookAmounts(i) : Webhook(i, a)
             \/ \E by \in {"poll", "forced"} : CheckStarts(i, by) \/ CheckSkipped(i, by)
      PROVE  Goal
  BY <1>3, NoApprovalStep
     DEF CreateFails, Pay, Void, Refund, Expire, ForceStatusCheck, CheckFails,
         Webhook, CheckStarts, CheckSkipped, PaidIsAnswered
<1>4. ASSUME NEW S \in SUBSET Invoices, CancelRows(S) PROVE Goal
  BY <1>4, NoApprovalStep DEF CancelRows, PaidIsAnswered
<1>5. ASSUME NEW i \in Invoices, GetPaymentStatus(i) \/ CancelPayment(i)
      PROVE  Goal
  BY <1>4, <1>5 DEF GetPaymentStatus, CancelPayment
<1>6. ASSUME CleanupExpiredPayments PROVE Goal
  BY <1>4, <1>6 DEF CleanupExpiredPayments, Overdue
<1>7. ASSUME NEW i \in Invoices, NEW r \in Replies(i), CheckReplies(i, r)
      PROVE  Goal
  <2>1. /\ status[i] = "processing" /\ check[i].paid = NoAmount
        /\ status' = [status EXCEPT ![i] = r.status]
        /\ paidAmount' = [paidAmount EXCEPT ![i] = r.amount]
    BY <1>7 DEF CheckReplies, PendingWork, SnapshotIsCurrent, PaidIsAnswered
  <2>2. r.status = "processing" => r.amount = NoAmount
    BY DEF Replies
  <2>3. PaidIsAnswered'
    <3>1. r.status # "none"
      BY AnswerFacts
    <3> QED BY <2>1, <2>2, <3>1 DEF PaidIsAnswered, TypeOK
  <2>4. CASE r.status = "approved"
    <3>1. r.amount = Amount[i]
      BY <2>4 DEF Replies
    <3>2. Credit(i, Amount[i])
      BY <1>7, <2>1, <2>4, <3>1, AmountFacts DEF CheckReplies
    <3> QED BY <2>1, <2>3, <2>4, <3>2, ApprovingStep
  <2>5. CASE r.status # "approved"
    <3>1. ledger' = ledger
      BY <1>7, <2>5 DEF CheckReplies
    <3>2. \A j \in Invoices : status'[j] = "approved" => status[j] = "approved"
      BY <2>1, <2>5 DEF TypeOK
    <3> QED BY <2>3, <3>1, <3>2, NoApprovalStep
  <2> QED BY <2>4, <2>5
<1>8. ASSUME NEW t \in tasks, ProcessBalanceTopup(t) PROVE Goal
  <2>1. t.invoice \in Invoices /\ t.amount = Amount[t.invoice]
    BY DEF TypeOK, FullAmounts
  <2>2. ApprovedIsCredited'
    BY <1>8, <2>1, ApprovingStep DEF ProcessBalanceTopup
  <2>3. PaidIsAnswered'
    BY <1>8, <2>1 DEF ProcessBalanceTopup, PaidIsAnswered, TypeOK
  <2> QED BY <2>2, <2>3
<1>9. ASSUME \/ \E t \in tasks : TaskEndsWithoutCredit(t)
             \/ Restart \/ UNCHANGED vars
      PROVE  Goal
  BY <1>9, NoApprovalStep DEF TaskEndsWithoutCredit, Restart, vars, PaidIsAnswered
<1> HIDE DEF Goal, AInv, IInv, row, money, loop
<1>10. Goal
  BY <1>1, <1>2, <1>3, <1>5, <1>6, <1>7, <1>8, <1>9 DEF Next
<1> QED BY <1>10 DEF Goal

LEMMA ApprovedInit == Init => AInv
<1> SUFFICES ASSUME Init PROVE AInv
  OBVIOUS
<1>1. IInv
  BY SafetyInit
<1>2. FullAmounts /\ PaidIsAnswered /\ ApprovedIsCredited
  BY DEF Init, FullAmounts, PaidIsAnswered, ApprovedIsCredited
<1> QED BY <1>1, <1>2 DEF AInv

(* What GET /payment/status tells the client of an approved row is true:   *)
(* its ledger holds a credit of the whole requested amount.  The           *)
(* hypotheses are those of the refinement: a webhook, an approval or a     *)
(* final answer names the amount, and an unfinished payment does not.      *)
THEOREM ApprovedMeansCredited ==
  ASSUME ~MissingAmounts, ~EarlyAmounts
  PROVE  Spec => []ApprovedIsCredited
<1>1. Init => AInv
  BY ApprovedInit
<1>2. AInv /\ [Next]_vars => AInv'
  BY SafetyStep, FullAmountsStep, ApprovedStep DEF AInv, IInv
<1>3. AInv => ApprovedIsCredited
  BY DEF AInv
<1> QED BY <1>1, <1>2, <1>3, PTL DEF Spec
=============================================================================
