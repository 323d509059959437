\* A session, and a connection that replaces it while the charger is deleted.
CONSTANTS
  c1 = c1
  c2 = c2
  c3 = c3
  cpA = cpA
  Conn = {c1, c2}
  ChargePoint = {cpA}
  ChargePointOf <- OneCharger
  NoConn = NoConn
  PrepareMaySuspend = FALSE
  MaxCrashes = 0
SPECIFICATION Spec
INVARIANT DeletedIsDisconnected
