------------------------------- MODULE TopUp -------------------------------
(***************************************************************************)
(* Balance top-ups: the table balance_topups, the three ways a paid        *)
(* invoice reaches the client's balance (the provider's webhook, the       *)
(* polling task of the request that created it, a forced status check),    *)
(* and the ways a row is cancelled.                                        *)
(*                                                                         *)
(* The backend is one process with one event loop.  Database calls are     *)
(* synchronous, so the code between two awaits is one step.  The only      *)
(* await made inside a transaction is perform_status_check's call to the   *)
(* provider: the coroutine sleeps there HOLDING THE ROW LOCK its SELECT    *)
(* ... FOR UPDATE took.  Any other coroutine that needs the row then       *)
(* blocks the thread the holder needs, until statement_timeout (30 s)      *)
(* raises in the one that waits: it fails, and the holder goes on.         *)
(***************************************************************************)
EXTENDS Integers, Sequences

CONSTANTS
  Clients,
  Invoices,        \* rows of balance_topups that may ever be created
  Owner,           \* client_id of a row
  Provider,        \* payment_provider of a row
  Amount,          \* what the client pays: requested_amount, in som
  NoAmount,        \* SQL NULL in paid_amount, None in an answer
  MaxChecks,       \* MAX_STATUS_CHECKS
  PollRounds,      \* rounds of the polling task: 20, twice that for NAMBA_ONE
  MissingAmounts,  \* may the provider say "paid" and leave the amount out?
  EarlyAmounts,    \* may NAMBA_ONE name the amount of a payment in progress?
  MaxWebhooks,     \* bound: webhooks delivered for one invoice
  MaxRestarts      \* bound: restarts of the process

Providers == {"ODENGI", "NAMBA_ONE", "OBANK"}

ASSUME InvoicesAssumption ==
  /\ Owner \in [Invoices -> Clients]
  /\ Provider \in [Invoices -> Providers]
  /\ Amount \in [Invoices -> Nat \ {0}]
  /\ NoAmount \notin Nat
ASSUME BoundsAssumption ==
  /\ MaxChecks \in Nat /\ PollRounds \in Nat
  /\ MaxWebhooks \in Nat /\ MaxRestarts \in Nat
  /\ MissingAmounts \in BOOLEAN /\ EarlyAmounts \in BOOLEAN

VARIABLES
  status,      \* balance_topups.status, "none" while the row does not exist
  paidAmount,  \* balance_topups.paid_amount
  needsCheck,  \* balance_topups.needs_status_check
  checkCount,  \* balance_topups.status_check_count
  expired,     \* NOW() is past invoice_expires_at
  balance,     \* clients.balance
  ledger,      \* payment_transactions_odengi, in order of insertion
  account,     \* what the provider knows of the invoice
  webhooks,    \* webhooks delivered so far
  tasks,       \* background tasks process_balance_topup not yet run
  creating,    \* create requests awaiting the provider's create_payment
  poll,        \* rounds the polling task has left
  forced,      \* forced checks queued as background tasks
  check,       \* the perform_status_check awaiting the provider's answer
  restarts

row     == <<status, paidAmount, needsCheck, checkCount>>
money   == <<balance, ledger>>
loop    == <<tasks, creating, poll, forced, check>>
vars    == <<row, expired, money, account, webhooks, loop, restarts>>

Amounts == {Amount[i] : i \in Invoices} \cup {0, NoAmount}
Statuses == {"none", "processing", "approved", "canceled", "refunded"}

Created(i) == status[i] # "none"

(* What perform_status_check keeps in locals while it awaits. *)
NoCheck == [by |-> "nobody", status |-> "none", count |-> 0, paid |-> NoAmount]

(* Is the row free of the lock a suspended perform_status_check holds?     *)
(* (Operators named X_Y are mutants of X: the code with the fault Y.)      *)
Unlocked_NoForUpdate(i) == TRUE
Unlocked(i) == check[i].by = "nobody"

(* should_status_check, called with last_check_at = None. *)
ShouldCheck(i) ==
  /\ status[i] \notin {"approved", "canceled", "refunded"}
  /\ checkCount[i] < MaxChecks
  /\ ~expired[i]

----------------------------------------------------------------------------

Init ==
  /\ status = [i \in Invoices |-> "none"]
  /\ paidAmount = [i \in Invoices |-> NoAmount]
  /\ needsCheck = [i \in Invoices |-> FALSE]
  /\ checkCount = [i \in Invoices |-> 0]
  /\ expired = [i \in Invoices |-> FALSE]
  /\ balance = [c \in Clients |-> 0]
  /\ ledger = << >>
  /\ account = [i \in Invoices |-> "unopened"]
  /\ webhooks = [i \in Invoices |-> 0]
  /\ tasks = {}
  /\ creating = {}
  /\ poll = [i \in Invoices |-> 0]
  /\ forced = {}
  /\ check = [i \in Invoices |-> NoCheck]
  /\ restarts = 0

----------------------------------------------------------------------------
(* Creating a top-up *)

(* The client's live invoices the create handler cancels before it asks    *)
(* for a new one: a QR code replaces them all, a Namba link only links,    *)
(* a card payment none.                                                    *)
Superseded(i) ==
  {j \in Invoices :
     /\ Owner[j] = Owner[i] /\ status[j] = "processing" /\ ~expired[j]
     /\ \/ Provider[i] = "ODENGI"
        \/ Provider[i] = "NAMBA_ONE" /\ Provider[j] = "NAMBA_ONE"}

(* If one of the superseded rows is locked the UPDATE times out, the       *)
(* request answers internal_error and changes nothing: no step.            *)
CreateTopup(i) ==
  /\ ~Created(i) /\ i \notin creating
  /\ \A j \in Superseded(i) : Unlocked(j)
  /\ status' = [j \in Invoices |->
                  IF j \in Superseded(i) THEN "canceled" ELSE status[j]]
  /\ creating' = creating \cup {i}
  /\ UNCHANGED <<paidAmount, needsCheck, checkCount, expired, money, account,
                 webhooks, tasks, poll, forced, check, restarts>>

(* The provider accepted: the row is inserted and its polling task, of so  *)
(* many rounds, is spawned.                                                *)
Inserted(i, rounds) ==
  /\ i \in creating
  /\ creating' = creating \ {i}
  /\ status' = [status EXCEPT ![i] = "processing"]
  /\ needsCheck' = [needsCheck EXCEPT ![i] = TRUE]
  /\ account' = [account EXCEPT ![i] = "open"]
  /\ poll' = [poll EXCEPT ![i] = rounds]
  /\ UNCHANGED <<paidAmount, checkCount, expired, money, webhooks, tasks,
                 forced, check, restarts>>

QrCreated(i)    == Provider[i] = "ODENGI" /\ Inserted(i, PollRounds)
CardCreated(i)  == Provider[i] = "OBANK" /\ Inserted(i, PollRounds)
NambaCreated(i) == Provider[i] = "NAMBA_ONE" /\ Inserted(i, 2 * PollRounds)
CreateSucceeds(i) == QrCreated(i) \/ CardCreated(i) \/ NambaCreated(i)

CreateFails(i) ==
  /\ i \in creating
  /\ creating' = creating \ {i}
  /\ UNCHANGED <<row, expired, money, account, webhooks, tasks, poll, forced,
                 check, restarts>>

----------------------------------------------------------------------------
(* The provider and the clock.  Cancelling a row is local: the provider    *)
(* never hears of it, so the client can still pay the invoice.             *)

Pay(i) ==
  /\ account[i] = "open"
  /\ account' = [account EXCEPT ![i] = "paid"]
  /\ UNCHANGED <<row, expired, money, webhooks, loop, restarts>>

Void(i) ==
  /\ account[i] = "open"
  /\ account' = [account EXCEPT ![i] = "void"]
  /\ UNCHANGED <<row, expired, money, webhooks, loop, restarts>>

Refund(i) ==
  /\ account[i] = "paid" /\ Provider[i] = "NAMBA_ONE"
  /\ account' = [account EXCEPT ![i] = "refunded"]
  /\ UNCHANGED <<row, expired, money, webhooks, loop, restarts>>

Expire(i) ==
  /\ Created(i) /\ ~expired[i]
  /\ expired' = [expired EXCEPT ![i] = TRUE]
  /\ UNCHANGED <<row, money, account, webhooks, loop, restarts>>

----------------------------------------------------------------------------
(* Crediting *)

(* Mutant: an amount in tyiyn. *)
Credit_InTyiyn(i, amount) ==
  LET c == Owner[i] IN
  /\ balance' = [balance EXCEPT ![c] = @ + 100 * amount]
  /\ ledger' = Append(ledger, [topup |-> i, amount |-> 100 * amount,
                               before |-> balance[c],
                               after |-> balance[c] + 100 * amount])

(* The balance, the ledger row and the topup row change in one commit. *)
Credit(i, amount) ==
  LET c == Owner[i] IN
  /\ balance' = [balance EXCEPT ![c] = @ + amount]
  /\ ledger' = Append(ledger, [topup |-> i, amount |-> amount,
                               before |-> balance[c],
                               after |-> balance[c] + amount])

(* handle_payment_webhook for a payment the provider reports as paid: the  *)
(* answer is "received", so the provider will not call again for it.       *)
(* OBANK's are refused in production (501).                                *)
Webhook(i, amount) ==
  /\ Created(i) /\ account[i] \in {"paid", "refunded"}
  /\ Provider[i] # "OBANK" /\ webhooks[i] < MaxWebhooks
  /\ webhooks' = [webhooks EXCEPT ![i] = @ + 1]
  /\ tasks' = IF status[i] = "approved" THEN tasks
              ELSE tasks \cup {[invoice |-> i, amount |-> amount,
                                no |-> webhooks[i] + 1]}
  /\ UNCHANGED <<row, expired, money, account, creating, poll, forced, check,
                 restarts>>

WebhookAmounts(i) ==
  {Amount[i]} \cup (IF MissingAmounts THEN {NoAmount} ELSE {})

(* process_balance_topup fails when the row is locked (timeout), and when  *)
(* the webhook named no amount: requested_amount is a Decimal and the      *)
(* balance a float, whose sum raises TypeError.  Either way the exception  *)
(* is logged and the task is gone.                                         *)
TaskCredits_Recheck(t) == Unlocked(t.invoice) /\ t.amount # NoAmount
TaskCredits(t) ==
  /\ Unlocked(t.invoice)
  /\ status[t.invoice] # "approved"
  /\ t.amount # NoAmount

ProcessBalanceTopup(t) ==
  LET i == t.invoice IN
  /\ t \in tasks /\ TaskCredits(t)
  /\ tasks' = tasks \ {t}
  /\ status' = [status EXCEPT ![i] = "approved"]
  /\ paidAmount' = [paidAmount EXCEPT ![i] = t.amount]
  /\ needsCheck' = [needsCheck EXCEPT ![i] = FALSE]
  /\ Credit(i, t.amount)
  /\ UNCHANGED <<checkCount, expired, account, webhooks, creating, poll,
                 forced, check, restarts>>

TaskEndsWithoutCredit(t) ==
  /\ t \in tasks /\ ~TaskCredits(t)
  /\ tasks' = tasks \ {t}
  /\ UNCHANGED <<row, expired, money, account, webhooks, creating, poll,
                 forced, check, restarts>>

----------------------------------------------------------------------------
(* Status checks *)

(* POST /payment/status-check queues a check (bound: one per invoice). *)
ForceStatusCheck(i) ==
  /\ status[i] = "processing" /\ i \notin forced
  /\ forced' = forced \cup {i}
  /\ UNCHANGED <<row, expired, money, account, webhooks, tasks, creating,
                 poll, check, restarts>>

(* The callers of perform_status_check: the polling task's next round (it  *)
(* awaits the previous one) and a forced check.                            *)
Due(i, by) == \/ by = "poll" /\ poll[i] > 0 /\ check[i].by # "poll"
              \/ by = "forced" /\ i \in forced
Consume(i, by) ==
  /\ poll' = IF by = "poll" THEN [poll EXCEPT ![i] = @ - 1] ELSE poll
  /\ forced' = IF by = "forced" THEN forced \ {i} ELSE forced

CheckStarts(i, by) ==
  /\ Due(i, by) /\ Consume(i, by)
  /\ Unlocked(i) /\ ShouldCheck(i)
  /\ check' = [check EXCEPT ![i] = [by |-> by, status |-> status[i],
                                    count |-> checkCount[i],
                                    paid |-> paidAmount[i]]]
  /\ UNCHANGED <<row, expired, money, account, webhooks, tasks, creating,
                 restarts>>

(* status_check_not_needed, or the row is locked and the SELECT times out. *)
CheckSkipped(i, by) ==
  /\ Due(i, by) /\ Consume(i, by)
  /\ ~(Unlocked(i) /\ ShouldCheck(i))
  /\ UNCHANGED <<row, expired, money, account, webhooks, tasks, creating,
                 check, restarts>>

(* What the provider may answer, mapped to (mapped_status, paid_amount).   *)
(* "processing" also stands for unknown statuses and for answers older     *)
(* than the payment.  OBANK's missing sum is read as 0.                    *)
Replies(i) ==
  {r \in [status: Statuses \ {"none"}, amount: Amounts] :
     \/ r.status = "processing" /\ r.amount = NoAmount
     \/ /\ r.status = "processing" /\ r.amount = Amount[i]
        /\ EarlyAmounts /\ Provider[i] = "NAMBA_ONE" /\ account[i] = "paid"
     \/ /\ r.status = "approved" /\ account[i] = "paid"
        /\ \/ r.amount = Amount[i]
           \/ /\ MissingAmounts
              /\ r.amount = IF Provider[i] = "OBANK" THEN 0 ELSE NoAmount
     \/ r.status = "canceled" /\ account[i] = "void" /\ r.amount = NoAmount
     \/ /\ r.status = "refunded" /\ r.amount = Amount[i]
        /\ account[i] = "refunded" /\ Provider[i] = "NAMBA_ONE"}

StillProcessing_NoRecheck(i) == FALSE
(* needs_further_checks of an answer that leaves the row processing. *)
StillProcessing(i) == check[i].count < MaxChecks

(* The answer arrives: the coroutine resumes with the values it read. *)
CheckReplies(i, r) ==
  LET credits == r.status = "approved" /\ check[i].paid = NoAmount IN
  /\ check[i].by # "nobody"
  /\ IF credits THEN Credit(i, IF r.amount = NoAmount THEN 0 ELSE r.amount)
     ELSE UNCHANGED money
  /\ status' = [status EXCEPT ![i] = r.status]
  /\ paidAmount' = [paidAmount EXCEPT ![i] = r.amount]
  /\ checkCount' = [checkCount EXCEPT ![i] = @ + 1]
  /\ needsCheck' = [needsCheck EXCEPT
                      ![i] = r.status = "processing" /\ StillProcessing(i)]
  /\ poll' = IF check[i].by = "poll" /\ r.status # "processing"
             THEN [poll EXCEPT ![i] = 0] ELSE poll
  /\ check' = [check EXCEPT ![i] = NoCheck]
  /\ UNCHANGED <<expired, account, webhooks, tasks, creating, forced, restarts>>

(* The provider's API fails: rollback. *)
CheckFails(i) ==
  /\ check[i].by # "nobody"
  /\ check' = [check EXCEPT ![i] = NoCheck]
  /\ UNCHANGED <<row, expired, money, account, webhooks, tasks, creating,
                 poll, forced, restarts>>

----------------------------------------------------------------------------
(* Cancelling.  A handler that finds the row locked fails and changes      *)
(* nothing; cleanup then cancels none of the rows.                         *)

CancelRows(S) ==
  /\ status' = [i \in Invoices |-> IF i \in S THEN "canceled" ELSE status[i]]
  /\ needsCheck' = [i \in Invoices |-> IF i \in S THEN FALSE ELSE needsCheck[i]]
  /\ UNCHANGED <<paidAmount, checkCount, expired, money, account, webhooks,
                 loop, restarts>>

(* GET /payment/status cancels a row it finds expired. *)
GetPaymentStatus(i) ==
  /\ status[i] = "processing" /\ expired[i] /\ Unlocked(i)
  /\ CancelRows({i})

CancelPayment_AnyStatus(i) == Created(i) /\ Unlocked(i) /\ CancelRows({i})
(* POST /payment/cancel *)
CancelPayment(i) ==
  /\ status[i] = "processing" /\ Unlocked(i)
  /\ CancelRows({i})

Overdue == {i \in Invoices : status[i] = "processing" /\ expired[i] /\ needsCheck[i]}

(* cleanup_expired_payments, once an hour. *)
CleanupExpiredPayments ==
  /\ Overdue # {} /\ \A i \in Overdue : Unlocked(i)
  /\ CancelRows(Overdue)

(* The process stops and starts again: its coroutines are gone, the        *)
(* database rolls back what they had open, and nobody resumes the polling. *)
Restart ==
  /\ restarts < MaxRestarts
  /\ restarts' = restarts + 1
  /\ tasks' = {} /\ creating' = {} /\ forced' = {}
  /\ poll' = [i \in Invoices |-> 0]
  /\ check' = [i \in Invoices |-> NoCheck]
  /\ UNCHANGED <<row, expired, money, account, webhooks>>

----------------------------------------------------------------------------

Next ==
  \/ \E i \in Invoices :
       \/ CreateTopup(i) \/ CreateSucceeds(i) \/ CreateFails(i)
       \/ Pay(i) \/ Void(i) \/ Refund(i) \/ Expire(i)
       \/ \E a \in WebhookAmounts(i) : Webhook(i, a)
       \/ ForceStatusCheck(i)
       \/ \E by \in {"poll", "forced"} : CheckStarts(i, by) \/ CheckSkipped(i, by)
       \/ \E r \in Replies(i) : CheckReplies(i, r)
       \/ CheckFails(i)
       \/ GetPaymentStatus(i) \/ CancelPayment(i)
  \/ \E t \in tasks : ProcessBalanceTopup(t) \/ TaskEndsWithoutCredit(t)
  \/ CleanupExpiredPayments
  \/ Restart

Spec == Init /\ [][Next]_vars

(* The event loop runs what is ready, time passes, the HTTP client has a   *)
(* timeout, and the hourly job is rescheduled whatever its last run did.   *)
(* Nothing is assumed of clients and providers.                            *)
Fairness ==
  /\ \A i \in Invoices :
       /\ WF_vars(Expire(i))
       /\ WF_vars(CheckFails(i) \/ \E r \in Replies(i) : CheckReplies(i, r))
       /\ \A by \in {"poll", "forced"} :
            WF_vars(CheckStarts(i, by) \/ CheckSkipped(i, by))
  /\ WF_vars(\E t \in tasks : ProcessBalanceTopup(t) \/ TaskEndsWithoutCredit(t))
  /\ WF_vars(CleanupExpiredPayments)

FairSpec == Spec /\ Fairness

----------------------------------------------------------------------------
(* Properties *)

(* The type of every table and of every piece of the loop's state. *)
TypeOK ==
  /\ status \in [Invoices -> Statuses]
  /\ paidAmount \in [Invoices -> Amounts]
  /\ needsCheck \in [Invoices -> BOOLEAN]
  /\ checkCount \in [Invoices -> Nat]
  /\ expired \in [Invoices -> BOOLEAN]
  /\ balance \in [Clients -> Nat]
  /\ ledger \in Seq([topup: Invoices, amount: Nat, before: Nat, after: Nat])
  /\ account \in [Invoices -> {"unopened", "open", "paid", "void", "refunded"}]
  /\ webhooks \in [Invoices -> Nat]
  /\ tasks \subseteq [invoice: Invoices, amount: Amounts, no: Nat]
  /\ creating \subseteq Invoices
  /\ poll \in [Invoices -> Nat]
  /\ forced \subseteq Invoices
  /\ check \in [Invoices -> [by: {"nobody", "poll", "forced"}, status: Statuses,
                             count: Nat, paid: Amounts]]
  /\ restarts \in Nat

CreditsOf(i) == {k \in DOMAIN ledger : ledger[k].topup = i}

(* However webhooks, polls and forced checks interleave, one invoice is    *)
(* credited at most once.                                                  *)
CreditedOnce ==
  \A j, k \in DOMAIN ledger : ledger[j].topup = ledger[k].topup => j = k

(* A credited invoice is one the provider was paid for, and its row says   *)
(* approved: no path credits and leaves the row open to another credit.    *)
CreditsAreBacked ==
  \A i \in Invoices : CreditsOf(i) # {} =>
    /\ status[i] = "approved"
    /\ account[i] \in {"paid", "refunded"}

(* An approved row stays approved: no cancel, cleanup, status read or late *)
(* answer of a suspended check overwrites it (they would reopen it to a    *)
(* second credit).                                                         *)
ApprovedIsFinal ==
  [][\A i \in Invoices : status[i] = "approved" => status'[i] = "approved"]_vars

(* What a suspended check read is still true when it resumes: the row lock *)
(* is what makes its decision to credit sound.                             *)
SnapshotIsCurrent ==
  \A i \in Invoices : check[i].by # "nobody" =>
    /\ check[i].status = status[i]
    /\ check[i].paid = paidAmount[i]
    /\ check[i].count = checkCount[i]

(* Work in progress is for rows it still makes sense for: a suspended check *)
(* holds a processing row, a queued credit is for money the provider took. *)
PendingWork ==
  /\ \A i \in creating : ~Created(i)
  /\ \A i \in Invoices :
       /\ poll[i] > 0 \/ i \in forced => Created(i)
       /\ check[i].by # "nobody" => status[i] = "processing"
  /\ \A t \in tasks : /\ Created(t.invoice)
                      /\ account[t.invoice] \in {"paid", "refunded"}

(* When the provider always names the amount it took, and names it only    *)
(* once the payment is complete, the top-ups implement PrepaidAccount.     *)
Account == INSTANCE PrepaidAccount WITH
  paid <- {i \in Invoices : account[i] \in {"paid", "refunded"}},
  credited <- {i \in Invoices : CreditsOf(i) # {}}
ImplementsPrepaidAccount == Account!Spec

(* "Платеж зачислен" (payment credited) is what /payment/status says of an *)
(* approved row: the client got exactly what the provider took.            *)
ApprovedIsCredited ==
  \A i \in Invoices : status[i] = "approved" =>
    \E k \in CreditsOf(i) : ledger[k].amount = Amount[i]

(* No invoice stays in processing for ever, even if its polling task died  *)
(* with the process: cleanup reaches every row the checks leave behind.    *)
EveryInvoiceSettles ==
  \A i \in Invoices : (status[i] = "processing") ~> (status[i] # "processing")
=============================================================================
