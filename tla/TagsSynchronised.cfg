CONSTANTS
  Tag = {a, b}
  a = a
  b = b
  j1 = j1
  j2 = j2
  Job = {j1, j2}
  None = None
  MaxCrashes = 0
SYMMETRY Symmetry
SPECIFICATION Spec
INVARIANTS
  TagsSynchronised
CHECK_DEADLOCK FALSE
