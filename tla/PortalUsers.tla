----------------------------- MODULE PortalUsers -----------------------------
(***************************************************************************)
(* The users table of AuthStore as far as every other table depends on it: *)
(* who has a row, who is disabled, who is an administrator.                *)
(*                                                                         *)
(* Ids are random (uuid4) and never given twice, so a deleted user stays   *)
(* deleted.  The demo account is left out: the handlers refuse its changes *)
(* and the onboarding of chargers for it.                                  *)
(***************************************************************************)
CONSTANT User

VARIABLES
  account,   \* the user's row: none yet, enabled, disabled, or deleted
  admins     \* rows with the Admin role

usersVars == <<account, admins>>

AccountState == {"none", "enabled", "disabled", "deleted"}

UsersTypeOK ==
  /\ account \in [User -> AccountState]
  /\ admins \in SUBSET User

Exists(u)  == account[u] \in {"enabled", "disabled"}
Enabled(u) == account[u] = "enabled"

UsersInit ==
  /\ account = [u \in User |-> "none"]
  /\ admins = {}

\* The first user to register becomes the administrator.
CreateUser(u) ==
  /\ account[u] = "none"
  /\ account' = [account EXCEPT ![u] = "enabled"]
  /\ admins' = IF \E v \in User : Exists(v) THEN admins ELSE admins \union {u}

SetUserDisabled(u, disabled) ==
  /\ Exists(u)
  /\ account' = [account EXCEPT ![u] = IF disabled THEN "disabled" ELSE "enabled"]
  /\ UNCHANGED admins

\* Rows of other tables that refer to the user go with it (ON DELETE CASCADE).
DeleteUser(u) ==
  /\ Exists(u)
  /\ account' = [account EXCEPT ![u] = "deleted"]
  /\ admins' = admins \ {u}
=============================================================================
