SPECIFICATION FairSpec
CONSTANTS
  ann = ann
  bob = bob
  s1 = s1
  s2 = s2
  s3 = s3
  Clients = {ann}
  Sessions = {s1}
  Connectors = {1}
  Client <- MCClient
  Reserve <- MCReserve
  Unlimited = {}
  Funds <- MCFunds
  Tariff = 1
  Price = 1
  None = None
  MaxTx = 3
  MaxEnergy = 4
  MaxReboots = 1
  MaxCrashes = 1
  Repeats = TRUE
  Notices = TRUE
INVARIANTS NeverOvercharged Solvent MoneyFollowsStatus
PROPERTIES SettledIsFinal EverySessionEnds
CHECK_DEADLOCK FALSE
