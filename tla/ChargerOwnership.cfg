SPECIFICATION Spec
CONSTANTS
  User = {u1, u2, u3}
  ChargePoint = {p, q}
  Row = {r1, r2, r3}
  Onboarding = {o1, o2, o3}
  NoUser = NoUser
  NoRow = NoRow
  Admin = Admin
SYMMETRY Symmetry
INVARIANTS TypeOK OwnershipAgrees OneChargerPerOffer
CHECK_DEADLOCK FALSE
