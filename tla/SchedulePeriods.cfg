SPECIFICATION PeriodsSpec
CONSTANTS
  Days = 4
  DayLength = 4
  Offsets <- MCOffsets
  Limit = 16
INVARIANTS
  WindowsNeverLost
  ClosedOutsideWindows
CHECK_DEADLOCK FALSE
