CONSTANTS
  None = None
  MaxTx = 1
  MaxMeter = 1
  MaxOutbox = 3
  MaxFaults = 1
  MaxToggles = 1
SPECIFICATION Spec
PROPERTY
  PlugInStarts
