SPECIFICATION FairSpec
CONSTANTS
  k1 = k1
  k2 = k2
  Call = {k1, k2}
  Reader = Reader
  MaxInFlight = 2
INVARIANTS
  TypeOK
  TableMatchesCalls
PROPERTIES
  SettledOnce
  CallEnds
  KeepsPromise
CHECK_DEADLOCK FALSE
