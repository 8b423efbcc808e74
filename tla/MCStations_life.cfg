SPECIFICATION FairSpec
CONSTANTS
  Connections = {c1, c2}
  None = None
  VerifyKeys = TRUE
  Presents <- MCPresents
  MaxPerIp = 2
  MaxPerMinute = 1
  MaxBeats = 1
  MaxFaults = 1
  MaxRestarts = 1
INVARIANTS SlotsCountConnections HeardIfUndisturbed
PROPERTIES ClosedIsUnsubscribed OfflineInTheEnd
CHECK_DEADLOCK FALSE
