SPECIFICATION PeriodsSpec
CONSTANTS
  Days = 4
  DayLength = 4
  Offsets <- MCOffsets
  Limit = 16
INVARIANT WindowsHonoured
CHECK_DEADLOCK FALSE
