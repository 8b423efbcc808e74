SPECIFICATION Spec
CONSTANTS
  ann = ann
  bob = bob
  s1 = s1
  s2 = s2
  s3 = s3
  Clients = {ann, bob}
  Sessions = {s1, s2}
  Connectors = {1}
  Client <- MCClient
  Reserve <- MCReserve
  Unlimited = {}
  Funds <- MCFunds
  Tariff = 1
  Price = 1
  None = None
  MaxTx = 2
  MaxEnergy = 2
  MaxReboots = 0
  MaxCrashes = 0
  Repeats = TRUE
  Notices = FALSE
INVARIANTS NeverPaidToCharge
PROPERTIES ImplementsReservedFunds
CHECK_DEADLOCK FALSE
