CONSTANTS
  Conn = {1}
  Charger = {1, 2}
  File = {f, g}
  None = None
  Install = {1, 2}
  Latest = f
  f = f
  g = g
  Old = Old
  Unversioned = {g}
  MaxIncidents = 3
SPECIFICATION Spec
INVARIANTS
  TypeOK
  InProgressWasAsked
  RequestedFileIsCached
  ServingIsRegistered
PROPERTIES
  SettledStaysSettled
  BootSettlesAsked
CHECK_DEADLOCK FALSE
