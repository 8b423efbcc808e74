SPECIFICATION Spec
CONSTANTS
  c1 = c1
  qr = qr
  link = link
  card = card
  Clients = {c1}
  Invoices = {qr, card}
  Owner <- MCOwner
  Provider <- MCProvider
  Amount <- MCAmount
  NoAmount = NoAmount
  MaxChecks = 1
  PollRounds = 1
  MissingAmounts = FALSE
  EarlyAmounts = FALSE
  MaxWebhooks = 2
  MaxRestarts = 1
INVARIANT ApprovedIsCredited
PROPERTY ImplementsPrepaidAccount
CHECK_DEADLOCK FALSE
