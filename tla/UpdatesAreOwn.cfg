\* Two chargers; the first may only have looked at the firmware page.
CONSTANTS
  Conn = {1}
  Charger = {1, 2}
  File = {f, g}
  None = None
  Install = {1, 2}
  Latest = f
  f = f
  g = g
  Old = Old
  Unversioned = {}
  MaxIncidents = 2
SPECIFICATION Spec
INVARIANT UpdatesAreOwn
CHECK_DEADLOCK FALSE
