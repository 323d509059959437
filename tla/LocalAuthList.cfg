CONSTANTS
  Tag = {a, b}
  a = a
  b = b
  j1 = j1
  j2 = j2
  j3 = j3
  Job = {j1, j2, j3}
  None = None
  MaxCrashes = 1
SYMMETRY Symmetry
SPECIFICATION Spec
INVARIANTS
  TypeOK
  TagsAgree
CHECK_DEADLOCK FALSE
