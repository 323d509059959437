SPECIFICATION Spec
CONSTANTS
  User = {u1, u2}
  Session = {s1, s2}
  Key = {k1}
  NoUser = NoUser
  NoSession = NoSession
  MaxWaiting = 2
SYMMETRY Symmetry
INVARIANTS TypeOK RowsOfOpenAccounts OldSessionSetPassword
CHECK_DEADLOCK FALSE
