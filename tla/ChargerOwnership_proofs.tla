----------------------- MODULE ChargerOwnership_proofs -----------------------
(***************************************************************************)
(* For any users, charge points, rows and onboarding sessions: a charge    *)
(* point has one owner, and a password brings in one charger.              *)
(***************************************************************************)
EXTENDS ChargerOwnership, TLAPS

\* The parts of OwnershipAgrees.
OneRowEach == \A r, q \in Row : Live(r) /\ Live(q) /\ chargers[r].cp = chargers[q].cp => r = q
OwnersExist == \A r \in Row : Live(r) => Exists(chargers[r].owner)
ActiveIsOwn == \A u \in User :
  IF RowsOf(chargers, u) = {} THEN active[u] = NoRow ELSE active[u] \in RowsOf(chargers, u)

\* A session that has brought in a charger is consumed, and no other has.
ClaimsConsume == \A o \in Onboarding :
  claims[o] <= 1 /\ (claims[o] > 0 => onboarding[o].status = "consumed")

IInv ==
  /\ TypeOK
  /\ OneRowEach
  /\ OwnersExist
  /\ ActiveIsOwn
  /\ ClaimsConsume

LEMMA Initial == Init => IInv
  BY OwnershipAssumption DEF Init, UsersInit, IInv, TypeOK, UsersTypeOK, AccountState, Offer, NoOffer,
     OneRowEach, OwnersExist, ActiveIsOwn, ClaimsConsume, Live, RowsOf

-----------------------------------------------------------------------------
\* What EnsureActive leaves: the user's active charger is one of the rows of the
\* new table, if there are any, and nobody else's changes.
LEMMA EnsureActiveRepairs ==
  ASSUME TypeOK, NEW u \in User, EnsureActive(u, chargers')
  PROVE  /\ active' \in [User -> Row \union {NoRow}]
         /\ IF RowsOf(chargers', u) = {} THEN active'[u] = NoRow
            ELSE active'[u] \in RowsOf(chargers', u)
         /\ \A v \in User \ {u} : active'[v] = active[v]
<1> USE DEF TypeOK
<1> DEFINE rows == RowsOf(chargers', u)
<1>0. rows \subseteq Row
  BY DEF RowsOf
<1>1. \/ active[u] \in rows /\ active' = active
      \/ rows = {} /\ active' = [active EXCEPT ![u] = NoRow]
      \/ \E r \in rows : active' = [active EXCEPT ![u] = r]
  BY DEF EnsureActive
<1> HIDE DEF rows
<1>2. /\ active' \in [User -> Row \union {NoRow}]
      /\ IF rows = {} THEN active'[u] = NoRow ELSE active'[u] \in rows
      /\ \A v \in User \ {u} : active'[v] = active[v]
  BY <1>0, <1>1
<1> QED BY <1>2 DEF rows

-----------------------------------------------------------------------------
\* Steps that leave the chargers table alone.
LEMMA OfferStep ==
  ASSUME IInv, NEW u \in User,
         \/ Register(u) \/ (\E disabled \in BOOLEAN : SetDisabled(u, disabled))
         \/ (\E o \in Onboarding : CreateOnboarding(u, o) \/ DeleteOnboarding(u, o))
  PROVE  IInv'
<1> USE OwnershipAssumption DEF IInv, TypeOK, UsersTypeOK, AccountState, usersVars
<1>1. /\ account' \in [User -> AccountState] /\ admins' \in SUBSET User
      /\ \A v \in User : Exists(v) => account'[v] \in {"enabled", "disabled"}
  BY DEF Register, CreateUser, SetDisabled, SetUserDisabled, Exists, CreateOnboarding,
         DeleteOnboarding
<1>2. chargers' = chargers /\ active' = active /\ claims' = claims
  BY DEF Register, SetDisabled, CreateOnboarding, DeleteOnboarding
<1>3. /\ onboarding' \in [Onboarding -> Offer]
      /\ \A o \in Onboarding : onboarding[o].status = "consumed" => onboarding'[o].status = "consumed"
  <2>1. CASE Register(u) \/ \E disabled \in BOOLEAN : SetDisabled(u, disabled)
    BY <2>1 DEF Register, SetDisabled
  <2>2. ASSUME NEW o \in Onboarding, CreateOnboarding(u, o)
        PROVE  <1>3!1 /\ <1>3!2
    BY <2>2 DEF CreateOnboarding, Offer, NoOffer
  <2>3. ASSUME NEW o \in Onboarding, DeleteOnboarding(u, o)
        PROVE  <1>3!1 /\ <1>3!2
    BY <2>3 DEF DeleteOnboarding, Offer, NoOffer
  <2> QED BY <2>1, <2>2, <2>3
<1>4. OneRowEach' /\ ActiveIsOwn'
  BY <1>2 DEF OneRowEach, ActiveIsOwn, Live, RowsOf
<1>5. OwnersExist'
  BY <1>1, <1>2 DEF OwnersExist, Live, Exists, Charger
<1>6. ClaimsConsume'
  BY <1>2, <1>3 DEF ClaimsConsume
<1> QED BY <1>1, <1>2, <1>3, <1>4, <1>5, <1>6

\* The active charger is repaired or switched.
LEMMA ActiveStep ==
  ASSUME IInv, NEW u \in User, ListChargers(u) \/ (\E r \in Row : SwitchActive(u, r))
  PROVE  IInv'
<1> USE OwnershipAssumption DEF IInv, TypeOK, UsersTypeOK, usersVars
<1>1. /\ account' = account /\ admins' = admins /\ onboarding' = onboarding
      /\ chargers' = chargers /\ claims' = claims
  BY DEF ListChargers, SwitchActive
<1>2. /\ active' \in [User -> Row \union {NoRow}]
      /\ ActiveIsOwn'
  <2>1. CASE ListChargers(u)
    <3>1. EnsureActive(u, chargers')
      BY <1>1, <2>1 DEF ListChargers
    <3> QED BY <3>1, <1>1, EnsureActiveRepairs DEF ActiveIsOwn, RowsOf
  <2>2. ASSUME NEW r \in Row, SwitchActive(u, r)
        PROVE  active' \in [User -> Row \union {NoRow}] /\ ActiveIsOwn'
    BY <1>1, <2>2 DEF SwitchActive, ActiveIsOwn, RowsOf
  <2> QED BY <2>1, <2>2
<1>3. OneRowEach' /\ OwnersExist' /\ ClaimsConsume'
  BY <1>1 DEF OneRowEach, OwnersExist, ClaimsConsume, Live, Exists
<1> QED BY <1>1, <1>2, <1>3

\* A charge point that nobody owns gets a row, and the rest is as it was.
LEMMA AssignStep ==
  ASSUME IInv, NEW u \in User, NEW cp \in ChargePoint, NEW password \in Onboarding \union {Admin},
         Enabled(u), ~Owned(cp), Assign(u, cp, password), UNCHANGED usersVars
  PROVE  /\ chargers' \in [Row -> Charger \union {NoRow}]
         /\ active' \in [User -> Row \union {NoRow}]
         /\ OneRowEach' /\ OwnersExist' /\ ActiveIsOwn'
<1> USE OwnershipAssumption DEF IInv, TypeOK, UsersTypeOK, usersVars
<1>1. PICK r \in Row :
        /\ ~Live(r)
        /\ chargers' = [chargers EXCEPT ![r] = [owner |-> u, cp |-> cp, password |-> password]]
        /\ EnsureActive(u, chargers')
  BY DEF Assign
<1> DEFINE new == [owner |-> u, cp |-> cp, password |-> password]
<1>2. new \in Charger /\ new.owner = u /\ new.cp = cp
  BY DEF Charger
<1>3. /\ chargers' \in [Row -> Charger \union {NoRow}]
      /\ chargers'[r] = new
      /\ \A q \in Row \ {r} : chargers'[q] = chargers[q]
  BY <1>1, <1>2
<1>4. OneRowEach'
  BY <1>2, <1>3 DEF OneRowEach, Live, Owned
<1>5. OwnersExist'
  BY <1>2, <1>3 DEF OwnersExist, Live, Exists, Enabled
<1>6. /\ active' \in [User -> Row \union {NoRow}]
      /\ ActiveIsOwn'
  <2>1. \A v \in User \ {u} : RowsOf(chargers', v) = RowsOf(chargers, v)
    BY <1>1, <1>2, <1>3 DEF RowsOf, Live
  <2>2. \A v \in User : RowsOf(chargers, v)' = RowsOf(chargers', v)
    BY DEF RowsOf
  <2> QED BY <1>1, <2>1, <2>2, EnsureActiveRepairs DEF ActiveIsOwn
<1> QED BY <1>3, <1>4, <1>5, <1>6

LEMMA AssignByAdminStep ==
  ASSUME IInv, NEW u \in User, NEW cp \in ChargePoint, AssignByAdmin(u, cp)
  PROVE  IInv'
<1>1. /\ chargers' \in [Row -> Charger \union {NoRow}]
      /\ active' \in [User -> Row \union {NoRow}]
      /\ OneRowEach' /\ OwnersExist' /\ ActiveIsOwn'
  BY AssignStep DEF AssignByAdmin
<1>2. account' = account /\ admins' = admins /\ onboarding' = onboarding /\ claims' = claims
  BY DEF AssignByAdmin, usersVars
<1> QED BY <1>1, <1>2 DEF IInv, TypeOK, UsersTypeOK, ClaimsConsume

\* A pending session is consumed, whether or not the charger gets its row.
LEMMA ClaimStep ==
  ASSUME IInv, NEW o \in Onboarding, NEW cp \in ChargePoint, Claim(cp, o)
  PROVE  IInv'
<1> DEFINE u == onboarding[o].owner
<1> USE OwnershipAssumption DEF IInv, TypeOK, UsersTypeOK
<1>1. u \in User /\ onboarding[o].status = "pending" /\ claims[o] = 0
  BY DEF Claim, Offer, ClaimsConsume
<1>2. account' = account /\ admins' = admins
  BY DEF Claim, usersVars
<1>3. /\ onboarding' \in [Onboarding -> Offer]
      /\ onboarding'[o].status = "consumed"
      /\ \A p \in Onboarding \ {o} : onboarding'[p] = onboarding[p]
  BY DEF Claim, Offer
<1>4. /\ claims' \in [Onboarding -> Nat] /\ claims'[o] <= 1
      /\ \A p \in Onboarding \ {o} : claims'[p] = claims[p]
  BY <1>1 DEF Claim
<1>5. ClaimsConsume'
  BY <1>3, <1>4 DEF ClaimsConsume
<1>6. /\ chargers' \in [Row -> Charger \union {NoRow}]
      /\ active' \in [User -> Row \union {NoRow}]
      /\ OneRowEach' /\ OwnersExist' /\ ActiveIsOwn'
  <2>1. CASE Enabled(u) /\ Assign(u, cp, o)
    BY <2>1, <1>1, AssignStep DEF Claim
  <2>2. CASE chargers' = chargers /\ active' = active
    BY <2>2, <1>2 DEF OneRowEach, OwnersExist, ActiveIsOwn, Live, RowsOf, Exists
  <2> QED BY <2>1, <2>2 DEF Claim
<1> QED BY <1>2, <1>3, <1>4, <1>5, <1>6

LEMMA DeleteChargerStep ==
  ASSUME IInv, NEW u \in User, NEW r \in Row, DeleteCharger(u, r)
  PROVE  IInv'
<1> USE OwnershipAssumption DEF IInv, TypeOK, UsersTypeOK
<1>1. account' = account /\ admins' = admins /\ onboarding' = onboarding /\ claims' = claims
  BY DEF DeleteCharger, usersVars
<1>2. /\ chargers' \in [Row -> Charger \union {NoRow}]
      /\ chargers[r].owner = u /\ chargers'[r] = NoRow
      /\ \A q \in Row \ {r} : chargers'[q] = chargers[q]
  BY DEF DeleteCharger, RowsOf
<1>3. OneRowEach' /\ OwnersExist' /\ ClaimsConsume'
  BY <1>1, <1>2 DEF OneRowEach, OwnersExist, ClaimsConsume, Live, Exists
<1>4. active' \in [User -> Row \union {NoRow}] /\ ActiveIsOwn'
  <2>1. \A v \in User \ {u} : RowsOf(chargers', v) = RowsOf(chargers, v)
    BY <1>2 DEF RowsOf
  <2>2. \A v \in User : RowsOf(chargers, v)' = RowsOf(chargers', v)
    BY DEF RowsOf
  <2>3. EnsureActive(u, chargers')
    BY DEF DeleteCharger
  <2> QED BY <2>1, <2>2, <2>3, EnsureActiveRepairs DEF ActiveIsOwn
<1> QED BY <1>1, <1>2, <1>3, <1>4

\* A deleted user takes the rows with it.
LEMMA DeleteStep ==
  ASSUME IInv, NEW u \in User, Delete(u)
  PROVE  IInv'
<1> USE OwnershipAssumption DEF IInv, TypeOK, UsersTypeOK
<1>1. /\ account' \in [User -> AccountState] /\ admins' \in SUBSET User
      /\ \A v \in User \ {u} : account'[v] = account[v]
  BY DEF Delete, DeleteUser, AccountState
<1>2. /\ onboarding' \in [Onboarding -> Offer] /\ claims' = claims
      /\ \A o \in Onboarding : onboarding'[o].status = onboarding[o].status
  BY DEF Delete, Offer
<1>3. /\ chargers' \in [Row -> Charger \union {NoRow}]
      /\ \A q \in Row : IF q \in RowsOf(chargers, u) THEN chargers'[q] = NoRow
                        ELSE chargers'[q] = chargers[q]
  BY DEF Delete
<1>4. /\ active' \in [User -> Row \union {NoRow}] /\ active'[u] = NoRow
      /\ \A v \in User \ {u} : active'[v] = active[v]
  BY DEF Delete
<1>5. OneRowEach' /\ ClaimsConsume'
  BY <1>2, <1>3 DEF OneRowEach, ClaimsConsume, Live
<1>6. OwnersExist'
  BY <1>1, <1>3 DEF OwnersExist, Live, RowsOf, Exists, Charger
<1>7. ActiveIsOwn'
  <2>1. \A v \in User \ {u} : RowsOf(chargers', v) = RowsOf(chargers, v)
    BY <1>3 DEF RowsOf
  <2>2. RowsOf(chargers', u) = {}
    BY <1>3 DEF RowsOf
  <2>3. \A v \in User : RowsOf(chargers, v)' = RowsOf(chargers', v)
    BY DEF RowsOf
  <2> QED BY <1>4, <2>1, <2>2, <2>3 DEF ActiveIsOwn
<1> QED BY <1>1, <1>2, <1>3, <1>4, <1>5, <1>6, <1>7

LEMMA Inductive == IInv /\ [Next]_vars => IInv'
<1> SUFFICES ASSUME IInv, [Next]_vars PROVE IInv'
  OBVIOUS
<1>1. CASE UNCHANGED vars
  BY <1>1 DEF vars, IInv, TypeOK, UsersTypeOK, OneRowEach, OwnersExist, ActiveIsOwn, ClaimsConsume,
     Live, RowsOf, Exists
<1>2. ASSUME NEW u \in User, Delete(u) PROVE IInv'
  BY <1>2, DeleteStep
<1>3. ASSUME NEW u \in User, NEW r \in Row, DeleteCharger(u, r) PROVE IInv'
  BY <1>3, DeleteChargerStep
<1>4. ASSUME NEW u \in User, NEW cp \in ChargePoint, AssignByAdmin(u, cp) PROVE IInv'
  BY <1>4, AssignByAdminStep
<1>5. ASSUME NEW o \in Onboarding, NEW cp \in ChargePoint, Claim(cp, o) PROVE IInv'
  BY <1>5, ClaimStep
<1>6. ASSUME NEW o \in Onboarding, Expires(o) PROVE IInv'
  <2> USE DEF IInv, TypeOK, UsersTypeOK
  <2>1. /\ account' = account /\ admins' = admins
        /\ chargers' = chargers /\ active' = active /\ claims' = claims
    BY <1>6 DEF Expires, usersVars
  <2>2. /\ onboarding' \in [Onboarding -> Offer]
        /\ \A p \in Onboarding : onboarding[p].status = "consumed" => onboarding'[p].status = "consumed"
    BY <1>6 DEF Expires, Offer
  <2>3. OneRowEach' /\ OwnersExist' /\ ActiveIsOwn' /\ ClaimsConsume'
    BY <2>1, <2>2 DEF OneRowEach, OwnersExist, ActiveIsOwn, ClaimsConsume, Live, RowsOf, Exists
  <2> QED BY <2>1, <2>2, <2>3
<1> QED BY <1>1, <1>2, <1>3, <1>4, <1>5, <1>6, OfferStep, ActiveStep DEF Next

-----------------------------------------------------------------------------
(* Theorems                                                                *)

\* Every variable keeps its type.
THEOREM OwnershipTypeCorrect == Spec => []TypeOK
<1>1. IInv => TypeOK
  BY DEF IInv
<1> QED BY <1>1, Initial, Inductive, PTL DEF Spec

\* One live row per charge point, of an owner who exists, and one of the user's
\* own rows active (assign_charger_to_user, delete_user, _ensure_active_charger).
THEOREM OwnershipIsConsistent == Spec => []OwnershipAgrees
<1>1. IInv => OwnershipAgrees
  BY DEF IInv, OneRowEach, OwnersExist, ActiveIsOwn, OwnershipAgrees
<1> QED BY <1>1, Initial, Inductive, PTL DEF Spec

\* A password brings in one charger at most (claim_charger_by_password).
THEOREM PasswordsAreSingleUse == Spec => []OneChargerPerOffer
<1>1. IInv => OneChargerPerOffer
  BY DEF IInv, ClaimsConsume, OneChargerPerOffer
<1> QED BY <1>1, Initial, Inductive, PTL DEF Spec
=============================================================================
