\* Three connections of one charger: a session, its replacement, and a third
\* connection racing the replacement.  One process death.
CONSTANTS
  c1 = c1
  c2 = c2
  c3 = c3
  cpA = cpA
  Conn = {c1, c2, c3}
  ChargePoint = {cpA}
  ChargePointOf <- OneCharger
  NoConn = NoConn
  PrepareMaySuspend = TRUE
  MaxCrashes = 1
SPECIFICATION FairSpec
INVARIANTS
  TypeOK
  RegistryNamesRunningSession
  NoPhantomConnected
  SoleSessionIsConnected
  SnapshotAgrees
PROPERTIES
  RegistrationLostOnlyByOwnExit
  SupersededStaysSuperseded
  HandshakeEnds
  KickEndsSession
