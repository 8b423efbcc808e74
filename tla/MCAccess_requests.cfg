SPECIFICATION Spec
CONSTANTS
  ada = ada
  pam = pam
  Requests = {r1, r2}
  Devices = {browser}
  p1 = p1
  Phones = {p1, p2}
  Keys = {key}
  Roles = {"superadmin", "admin", "operator"}
  None = None
  Staff = {ada, pam}
  Newcomers = {1}
  Initially <- MCInitially
  CookieDomain = TRUE
  Origins = {"secure", "insecure"}
  MaxAttempts = 2
  DailyLimit = 2
  MaxCodes = 2
  MaxRequests = 5
SYMMETRY Slots
INVARIANTS GuessesAreBounded RepeatsAreExplained SomeoneIsActive 
CHECK_DEADLOCK FALSE
