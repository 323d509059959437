\* One transaction, whose start and stop both lose their reply.
CONSTANTS
  None = None
  MaxTx = 1
  MaxMeter = 1
  MaxOutbox = 3
  MaxFaults = 2
  MaxToggles = 0
SPECIFICATION Spec
INVARIANT OneRowPerSession
