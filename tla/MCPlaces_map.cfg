SPECIFICATION FairSpec
CONSTANTS
  here = here
  there = there
  Places = {here, there}
  Points = {1, 2, 3}
  AtFirst <- MCAtFirst
  Requests = {r1}
  None = None
  TTL = 2
  MaxConnectors = 1
  MaxChanges = 3
INVARIANTS EvseIdsAreUnique
PROPERTIES MapCatchesUp
