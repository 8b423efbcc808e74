SPECIFICATION Spec
CONSTANTS
  ann = ann
  s1 = s1
  e1 = e1
  e2 = e2
  Clients = {ann}
  Sessions = {s1}
  EVSEs = {e1, e2}
  Client <- MCClient
  Reserve <- MCReserve
  Funds <- MCFunds
  Price = 2
  None = None
  Troubles = {"faulted"}
  FinalReading = {TRUE, FALSE}
  MaxTx = 2
  MaxMeter = 1
  MaxFaults = 1
INVARIANTS PaidAsShown OccupiedForAReason
PROPERTIES SettledIsFrozen EndedSettles
SYMMETRY EVSESymmetry
CHECK_DEADLOCK FALSE
