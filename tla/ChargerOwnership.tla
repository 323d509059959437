-------------------------- MODULE ChargerOwnership --------------------------
(***************************************************************************)
(* Which user owns which charger: onboarding sessions, the chargers table  *)
(* and each user's active charger (AuthStore), with the handshakes and the *)
(* handlers that change them.                                              *)
(*                                                                         *)
(* A charger becomes a user's when it connects with the password of one of *)
(* the user's onboarding sessions, or when an administrator assigns it.    *)
(* Claiming takes two transactions: the first consumes the onboarding      *)
(* session, the second inserts the charger's row.  The second may refuse,  *)
(* and the process may die between them.                                   *)
(*                                                                         *)
(* Rows that are soft-deleted are never selected again and are left out.   *)
(* Passwords are random, so an onboarding session stands for its password. *)
(* The replacement of an active charger is the newest row in the code and  *)
(* any of them here.                                                       *)
(***************************************************************************)
EXTENDS PortalUsers, FiniteSets, Naturals

CONSTANTS
  ChargePoint,  \* charge point identities
  Row,          \* ids of charger rows
  Onboarding,   \* ids of onboarding sessions
  NoUser,
  NoRow,
  Admin         \* in place of an onboarding session: assigned, no password set

ASSUME OwnershipAssumption ==
  /\ NoUser \notin User
  /\ NoRow \notin Row
  /\ Admin \notin Onboarding

VARIABLES
  onboarding,   \* the owner and status of each onboarding session
  chargers,     \* the chargers table: owner, charge point and password
  active,       \* users.active_charger_id
  claims        \* history: rows inserted for each onboarding session

vars == <<account, admins, onboarding, chargers, active, claims>>

Offer == [owner : User \union {NoUser}, status : {"none", "pending", "expired", "consumed"}]
Charger == [owner : User, cp : ChargePoint, password : Onboarding \union {Admin}]

NoOffer == [owner |-> NoUser, status |-> "none"]

TypeOK ==
  /\ UsersTypeOK
  /\ onboarding \in [Onboarding -> Offer]
  /\ chargers \in [Row -> Charger \union {NoRow}]
  /\ active \in [User -> Row \union {NoRow}]
  /\ claims \in [Onboarding -> Nat]

Init ==
  /\ UsersInit
  /\ onboarding = [o \in Onboarding |-> NoOffer]
  /\ chargers = [r \in Row |-> NoRow]
  /\ active = [u \in User |-> NoRow]
  /\ claims = [o \in Onboarding |-> 0]

Live(r) == chargers[r] # NoRow

\* The user's rows in a table.
RowsOf(table, u) == {r \in Row : table[r] # NoRow /\ table[r].owner = u}

\* Mutant: a charger counts as owned while its owner is enabled, the way API
\* keys are looked up.
Owned_Mutant(cp) ==
  \E r \in Row : Live(r) /\ chargers[r].cp = cp /\ Enabled(chargers[r].owner)

\* get_charger_by_charge_point_id
Owned(cp) == \E r \in Row : Live(r) /\ chargers[r].cp = cp

-----------------------------------------------------------------------------
(* The active charger                                                      *)

\* _ensure_active_charger after the table's update: what is stored stays while
\* it is a row of the user's.
EnsureActive(u, table) ==
  LET rows == RowsOf(table, u) IN
  IF active[u] \in rows THEN active' = active
  ELSE IF rows = {} THEN active' = [active EXCEPT ![u] = NoRow]
  ELSE \E r \in rows : active' = [active EXCEPT ![u] = r]

\* list_chargers and get_active_charger repair it before they read.
ListChargers(u) ==
  /\ Exists(u)
  /\ EnsureActive(u, chargers)
  /\ UNCHANGED <<usersVars, onboarding, chargers, claims>>

\* switch_active_charger
SwitchActive(u, r) ==
  /\ Enabled(u)
  /\ r \in RowsOf(chargers, u)
  /\ active' = [active EXCEPT ![u] = r]
  /\ UNCHANGED <<usersVars, onboarding, chargers, claims>>

-----------------------------------------------------------------------------
(* Onboarding                                                              *)

CreateOnboarding(u, o) ==
  /\ Enabled(u)
  /\ onboarding[o] = NoOffer
  /\ onboarding' = [onboarding EXCEPT ![o] = [owner |-> u, status |-> "pending"]]
  /\ UNCHANGED <<usersVars, chargers, active, claims>>

\* Mutant: the row is reduced to its owner.
DeleteOnboarding_Mutant(u, o) ==
  /\ Enabled(u)
  /\ onboarding[o].owner = u
  /\ onboarding' = [onboarding EXCEPT ![o] = NoUser]
  /\ UNCHANGED <<usersVars, chargers, active, claims>>

DeleteOnboarding(u, o) ==
  /\ Enabled(u)
  /\ onboarding[o].owner = u
  /\ onboarding' = [onboarding EXCEPT ![o].owner = NoUser]
  /\ UNCHANGED <<usersVars, chargers, active, claims>>

\* ONBOARDING_MINUTES pass.
Expires(o) ==
  /\ onboarding[o].status = "pending"
  /\ onboarding' = [onboarding EXCEPT ![o].status = "expired"]
  /\ UNCHANGED <<usersVars, chargers, active, claims>>

\* assign_charger_to_user, after its checks.
Assign(u, cp, password) ==
  \E r \in Row :
    /\ ~Live(r)
    /\ chargers' = [chargers EXCEPT ![r] = [owner |-> u, cp |-> cp, password |-> password]]
    /\ EnsureActive(u, chargers')

\* Mutant: a session is consumed once the charger's row is there.
Claim_Mutant(cp, o) ==
  LET u == onboarding[o].owner IN
  /\ ~Owned(cp)
  /\ u # NoUser
  /\ onboarding[o].status = "pending"
  /\ Enabled(u)
  /\ Assign(u, cp, o)
  /\ claims' = [claims EXCEPT ![o] = @ + 1]
  /\ \/ onboarding' = [onboarding EXCEPT ![o].status = "consumed"]
     \/ UNCHANGED onboarding
  /\ UNCHANGED usersVars

\* An unknown charger connects with the password of o, which is consumed also
\* when the process dies next, or the owner turns out to be disabled.
Claim(cp, o) ==
  LET u == onboarding[o].owner IN
  /\ ~Owned(cp)
  /\ u # NoUser
  /\ onboarding[o].status = "pending"
  /\ onboarding' = [onboarding EXCEPT ![o].status = "consumed"]
  /\ \/ /\ Enabled(u)
        /\ Assign(u, cp, o)
        /\ claims' = [claims EXCEPT ![o] = @ + 1]
     \/ UNCHANGED <<chargers, active, claims>>
  /\ UNCHANGED usersVars

\* An administrator gives a connected charger that nobody owns to a user.
AssignByAdmin(u, cp) ==
  /\ admins # {}
  /\ Enabled(u)
  /\ ~Owned(cp)
  /\ Assign(u, cp, Admin)
  /\ UNCHANGED <<usersVars, onboarding, claims>>

DeleteCharger(u, r) ==
  /\ Enabled(u)
  /\ r \in RowsOf(chargers, u)
  /\ chargers' = [chargers EXCEPT ![r] = NoRow]
  /\ EnsureActive(u, chargers')
  /\ UNCHANGED <<usersVars, onboarding, claims>>

-----------------------------------------------------------------------------
(* Users                                                                   *)

Register(u) == CreateUser(u) /\ UNCHANGED <<onboarding, chargers, active, claims>>

SetDisabled(u, disabled) ==
  /\ admins # {}
  /\ SetUserDisabled(u, disabled)
  /\ UNCHANGED <<onboarding, chargers, active, claims>>

\* The rows of the user's chargers and onboarding sessions are deleted with it.
Delete(u) ==
  /\ DeleteUser(u)
  /\ onboarding' = [o \in Onboarding |->
       IF onboarding[o].owner = u THEN [onboarding[o] EXCEPT !.owner = NoUser]
       ELSE onboarding[o]]
  /\ chargers' = [r \in Row |-> IF r \in RowsOf(chargers, u) THEN NoRow ELSE chargers[r]]
  /\ active' = [active EXCEPT ![u] = NoRow]
  /\ UNCHANGED claims

-----------------------------------------------------------------------------
Next ==
  \/ \E u \in User :
       \/ Register(u)
       \/ Delete(u)
       \/ ListChargers(u)
       \/ \E disabled \in BOOLEAN : SetDisabled(u, disabled)
       \/ \E r \in Row : SwitchActive(u, r) \/ DeleteCharger(u, r)
       \/ \E o \in Onboarding : CreateOnboarding(u, o) \/ DeleteOnboarding(u, o)
       \/ \E cp \in ChargePoint : AssignByAdmin(u, cp)
  \/ \E o \in Onboarding : Expires(o) \/ \E cp \in ChargePoint : Claim(cp, o)

Spec == Init /\ [][Next]_vars

-----------------------------------------------------------------------------
(* Properties                                                              *)

\* However users and chargers come and go, a charge point has one live row at
\* most, whose owner exists (every command and every recorded session is routed
\* by it), and a user with chargers has one of them active, without any query
\* having to repair it (_ensure_active_charger).
OwnershipAgrees ==
  /\ \A r, q \in Row : Live(r) /\ Live(q) /\ chargers[r].cp = chargers[q].cp => r = q
  /\ \A r \in Row : Live(r) => Exists(chargers[r].owner)
  /\ \A u \in User : LET rows == RowsOf(chargers, u) IN
       IF rows = {} THEN active[u] = NoRow ELSE active[u] \in rows

\* A password is good for one charger, also when the process dies half-way
\* through a claim ("Consume the session first so reconnects don't hit it again",
\* claim_charger_by_password).
OneChargerPerOffer == \A o \in Onboarding : claims[o] <= 1
=============================================================================
