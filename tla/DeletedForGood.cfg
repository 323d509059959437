CONSTANTS
  Tag = {a, b}
  a = a
  b = b
  j1 = j1
  j2 = j2
  Job = {j1, j2}
  None = None
  MaxCrashes = 1
SYMMETRY Symmetry
SPECIFICATION Spec
PROPERTIES
  DeletedForGood
CHECK_DEADLOCK FALSE
