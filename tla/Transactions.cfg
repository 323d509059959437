CONSTANTS
  None = None
  MaxTx = 2
  MaxMeter = 2
  MaxOutbox = 3
  MaxFaults = 2
  MaxToggles = 1
SPECIFICATION Spec
INVARIANTS
  TypeOK
  OpenAgrees
  EveryStopRecorded
  EnergyCountedOnce
  SessionNeverOverstated
PROPERTY
  PendingSettles
