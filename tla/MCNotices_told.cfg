SPECIFICATION Spec
CONSTANTS
  ann = ann
  pam = pam
  Hooks = {h1}
  Stations = {p, q}
  Devices = {d1, d2}
  User <- MCUser
  Clients = {ann}
  Owner = pam
  EventSets <- MCEventSets
  None = None
  Attempts = 2
  Interval = 1
  MaxKeys = 0
  Day = 1
  MaxNews = 3
  MaxChanges = 2
  MaxTime = 1
  MaxRestarts = 1
INVARIANTS TimestampsTellOrder ProgressIsSpaced WarnedOnceADay
CHECK_DEADLOCK FALSE

SYMMETRY Alike
