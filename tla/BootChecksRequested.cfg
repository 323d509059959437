\* One charger and two installations, both files with their version.
CONSTANTS
  Conn = {1}
  Charger = {1}
  File = {f, g}
  None = None
  Install = {1, 2}
  Latest = f
  f = f
  g = g
  Old = Old
  Unversioned = {}
  MaxIncidents = 2
SPECIFICATION Spec
PROPERTY BootChecksRequested
CHECK_DEADLOCK FALSE
