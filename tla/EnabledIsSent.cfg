SPECIFICATION Spec
CONSTANTS
  t1 = t1
  t2 = t2
  a = a
  b = b
  Task = {t1, t2}
  Id = {1, 2}
  Content = {a, b}
  None = None
SYMMETRY Symmetry
INVARIANT EnabledIsSent
