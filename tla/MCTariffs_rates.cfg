SPECIFICATION Spec
CONSTANTS
  Plans = {p1}
  Stations = {st}
  Sessions = {x1}
  None = None
  Contents <- MCContents
  Prices = {1000, None}
  Fee <- MCFee
  Connector <- MCConnector
  ClientTariff = None
  Promo <- MCPromo
  Requests <- MCRequests
  Balance = 12000
  Times <- MCTimes
  Energies = {3}
  Edits = {"priority"}
  Rivals = {v1, v2}
  v1 = v1
  Seed <- MCSeed
  Entries <- MCEntries
  Histories <- MCHistories
  Power <- MCPower
  Location <- MCLocation
  MaxRows = 2
INVARIANTS ShownIsCharged ApartNeverMeet AdviceInBand
PROPERTIES KeepsItsRate
CHECK_DEADLOCK FALSE
