SPECIFICATION FairSpec
CONSTANTS
  ann = ann
  bob = bob
  Clients = {ann, bob}
  Connectors = {1}
  None = None
  Settled = Settled
  MaxBookings = 2
  MaxSessions = 2
  MaxBoots = 1
INVARIANT ReservedIsBooked
PROPERTIES EndedIsFinal UsedByItsClient EveryBookingEnds
CHECK_DEADLOCK FALSE
