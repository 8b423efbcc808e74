SPECIFICATION FairSpec
CONSTANTS
  c1 = c1
  qr = qr
  link = link
  card = card
  Clients = {c1}
  Invoices = {link}
  Owner <- MCOwner
  Provider <- MCProvider
  Amount <- MCAmount
  NoAmount = NoAmount
  MaxChecks = 2
  PollRounds = 1
  MissingAmounts = TRUE
  EarlyAmounts = TRUE
  MaxWebhooks = 2
  MaxRestarts = 1
INVARIANTS CreditedOnce CreditsAreBacked SnapshotIsCurrent
PROPERTIES ApprovedIsFinal EveryInvoiceSettles
CHECK_DEADLOCK FALSE
