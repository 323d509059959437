\* One charger; the name of the second file carries no version.
CONSTANTS
  Conn = {1}
  Charger = {1}
  File = {f, g}
  None = None
  Install = {1, 2}
  Latest = f
  f = f
  g = g
  Old = Old
  Unversioned = {g}
  MaxIncidents = 2
SPECIFICATION Spec
PROPERTY BootSettles
CHECK_DEADLOCK FALSE
