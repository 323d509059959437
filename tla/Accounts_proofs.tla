--------------------------- MODULE Accounts_proofs ---------------------------
(***************************************************************************)
(* For any users, sessions, keys and requests: the account tables agree    *)
(* with each other whatever handlers overlap and wherever the process dies. *)
(***************************************************************************)
EXTENDS Accounts, TLAPS

\* However codes are requested again, sent and used up, a user has one that
\* works at most, none once verified, and one link (create_email_verification_otp,
\* mark_user_email_verified, create_password_reset_token).
OneCodeEach ==
  \A u \in User : codes[u] <= 1 /\ links[u] <= 1 /\ (u \in verified => codes[u] = 0)

\* Verification outlives no account, so a new user starts unverified.
VerifiedExist == \A u \in verified : Exists(u)

IInv ==
  /\ TypeOK
  /\ RowsOfOpenAccounts
  /\ OneCodeEach
  /\ OldSessionSetPassword
  /\ VerifiedExist

LEMMA Initial == Init => IInv
  BY AccountsAssumption DEF Init, UsersInit, IInv, TypeOK, UsersTypeOK, AccountState, RowsOfOpenAccounts,
     OneCodeEach, OldSessionSetPassword, VerifiedExist, Exists, Enabled

-----------------------------------------------------------------------------
\* A user gets in: by registering, signing in or verifying.
LEMMA EnterStep ==
  ASSUME IInv, NEW u \in User, Register(u) \/ Login(u) \/ VerifyEmail(u) \/ ResendCode(u)
  PROVE  IInv'
<1> USE AccountsAssumption DEF IInv, TypeOK, UsersTypeOK, AccountState, usersVars, Exists, Enabled
<1>1. /\ account' \in [User -> AccountState] /\ admins' \in SUBSET User
      /\ account'[u] = "enabled"
      /\ \A v \in User \ {u} : account'[v] = account[v]
  BY DEF Register, CreateUser, Login, VerifyEmail, ResendCode
<1>2. /\ links' = links /\ key' = key /\ secret' = secret /\ setup' = setup
      /\ checking' = checking /\ changer' = changer /\ waiting' \in SUBSET Request
  BY DEF Register, Login, VerifyEmail, ResendCode, Ends, Dies, CreateSession, NoNewSession
<1>3. /\ codes' \in [User -> Nat] /\ verified' \in SUBSET User
      /\ \A v \in User \ {u} : codes'[v] = codes[v] /\ (v \in verified' <=> v \in verified)
      /\ codes'[u] <= 1 /\ (u \in verified' => codes'[u] = 0)
      /\ u \in verified => u \in verified'
  <2>1. CASE Register(u)
    BY <2>1 DEF Register, CreateUser, NewCode, MarkVerified, OneCodeEach, RowsOfOpenAccounts, VerifiedExist
  <2>2. CASE Login(u)
    BY <2>2 DEF Login, NewCode, MarkVerified, OneCodeEach
  <2>3. CASE VerifyEmail(u)
    BY <2>3 DEF VerifyEmail, ConsumeCode, OneCodeEach
  <2>4. CASE ResendCode(u)
    BY <2>4 DEF ResendCode, NewCode, OneCodeEach
  <2> QED BY <2>1, <2>2, <2>3, <2>4
<1>4. \/ NoNewSession
      \/ /\ u \in verified'
         /\ \E s \in Session : /\ session[s] = NoUser
                               /\ session' = [session EXCEPT ![s] = u]
                               /\ older' = older \ {s}
  BY DEF Register, Login, VerifyEmail, ResendCode, CreateSession, Fresh
<1>5. session' \in [Session -> User \union {NoUser}] /\ older' \in SUBSET Session
  BY <1>4 DEF NoNewSession
<1>6. OneCodeEach'
  BY <1>2, <1>3 DEF OneCodeEach
<1>7. VerifiedExist'
  BY <1>1, <1>3 DEF VerifiedExist
<1>8. OldSessionSetPassword'
  BY <1>2, <1>4 DEF OldSessionSetPassword, NoNewSession
<1>9. RowsOfOpenAccounts'
  <2>1. \A s \in Session : session'[s] # NoUser =>
                        account'[session'[s]] = "enabled" /\ session'[s] \in verified'
    BY <1>1, <1>3, <1>4 DEF RowsOfOpenAccounts, NoNewSession
  <2>2. \A k \in Key : key'[k] # NoUser => account'[key'[k]] \in {"enabled", "disabled"}
    BY <1>1, <1>2 DEF RowsOfOpenAccounts
  <2>3. \A v \in User : codes'[v] + links'[v] > 0 =>
                        account'[v] \in {"enabled", "disabled"}
    BY <1>1, <1>2, <1>3 DEF RowsOfOpenAccounts
  <2> QED BY <2>1, <2>2, <2>3 DEF RowsOfOpenAccounts
<1> QED BY <1>1, <1>2, <1>3, <1>5, <1>6, <1>7, <1>8, <1>9

-----------------------------------------------------------------------------
\* Sessions and links come and go without a change of who is who.
LEMMA CredentialStep ==
  ASSUME IInv, NEW u \in User,
         ForgotPassword(u) \/ ResetPassword(u) \/ (\E s \in Session : Logout(s))
  PROVE  IInv'
<1> USE AccountsAssumption DEF IInv, TypeOK, UsersTypeOK, AccountState, usersVars, totpVars, credVars,
        Exists, Enabled
<1>1. /\ account' = account /\ admins' = admins /\ verified' = verified /\ codes' = codes
      /\ secret' = secret /\ setup' = setup /\ key' = key /\ waiting' = waiting
      /\ checking' = checking
  BY DEF ForgotPassword, ResetPassword, Logout
<1>2. /\ links' \in [User -> Nat]
      /\ \A v \in User : links'[v] <= 1 /\ (links'[v] > 0 => Exists(v))
  BY DEF ForgotPassword, NewLink, ResetPassword, Logout, OneCodeEach, RowsOfOpenAccounts
<1>3. /\ session' \in [Session -> User \union {NoUser}] /\ older' \in SUBSET Session
      /\ changer' \in [User -> Session \union {NoSession}]
      /\ \A s \in Session : session'[s] # NoUser =>
           /\ session'[s] = session[s]
           /\ s \in older' => s \in older /\ changer'[session[s]] = changer[session[s]]
  BY DEF ForgotPassword, NoNewSession, ResetPassword, EndSessions, SessionsOf, Logout
<1>4. OneCodeEach' /\ VerifiedExist'
  BY <1>1, <1>2 DEF OneCodeEach, VerifiedExist
<1>5. OldSessionSetPassword'
  BY <1>3 DEF OldSessionSetPassword
<1>6. RowsOfOpenAccounts'
  BY <1>1, <1>2, <1>3 DEF RowsOfOpenAccounts
<1> QED BY <1>1, <1>2, <1>3, <1>4, <1>5, <1>6

\* A request changes its own user's row.
LEMMA OwnRequestStep ==
  ASSUME IInv, NEW r \in waiting,
         \/ Refuse(r) \/ ChangePassword(r) \/ SetUpTotp(r) \/ EnableTotp(r) \/ DisableTotp(r)
         \/ CreateKey(r) \/ (\E enabled \in BOOLEAN : SetChecking(r, enabled))
  PROVE  IInv'
<1> USE AccountsAssumption DEF IInv, TypeOK, UsersTypeOK, AccountState, usersVars, totpVars, credVars,
        Exists, Enabled
<1>1. r.user \in User /\ r.token \in Session
  BY DEF Request
<1>2. /\ account' = account /\ admins' = admins /\ verified' = verified /\ codes' = codes
      /\ links' = links /\ waiting' \in SUBSET Request
  BY DEF Refuse, ChangePassword, SetUpTotp, EnableTotp, DisableTotp, CreateKey, SetChecking, Answer
<1>3. secret' \in SUBSET User /\ setup' \in SUBSET User /\ checking' \in BOOLEAN
  BY <1>1 DEF Refuse, ChangePassword, SetUpTotp, EnableTotp, DisableTotp, CreateKey, SetChecking
<1>4. /\ key' \in [Key -> User \union {NoUser}]
      /\ \A k \in Key : key'[k] # NoUser => Exists(key'[k])
  BY <1>1 DEF Refuse, ChangePassword, SetUpTotp, EnableTotp, DisableTotp, CreateKey, SetChecking,
     RowsOfOpenAccounts
<1>5. /\ session' \in [Session -> User \union {NoUser}] /\ older' \in SUBSET Session
      /\ changer' \in [User -> Session \union {NoSession}]
      /\ \A s \in Session : session'[s] # NoUser =>
           /\ session'[s] = session[s]
           /\ s \in older' => changer'[session[s]] = s
  <2>1. CASE ChangePassword(r)
    BY <2>1, <1>1 DEF ChangePassword, SessionsOf, OldSessionSetPassword
  <2>2. CASE ~ChangePassword(r)
    BY <2>2 DEF Refuse, SetUpTotp, EnableTotp, DisableTotp, CreateKey, SetChecking,
       OldSessionSetPassword
  <2> QED BY <2>1, <2>2
<1>6. OneCodeEach' /\ VerifiedExist'
  BY <1>2 DEF OneCodeEach, VerifiedExist
<1>7. OldSessionSetPassword'
  BY <1>5 DEF OldSessionSetPassword
<1>8. RowsOfOpenAccounts'
  BY <1>2, <1>4, <1>5 DEF RowsOfOpenAccounts
<1> QED BY <1>2, <1>3, <1>4, <1>5, <1>6, <1>7, <1>8

\* An account is disabled, enabled or deleted: the rows that refer to it follow.
LEMMA AccountStep ==
  ASSUME IInv, NEW u \in User,
         \/ Delete(u)
         \/ (\E r \in waiting, disabled \in BOOLEAN : SetDisabled(r, u, disabled))
  PROVE  IInv'
<1> USE AccountsAssumption DEF IInv, TypeOK, UsersTypeOK, AccountState, usersVars, totpVars, credVars,
        Exists, Enabled
<1>1. CASE Delete(u)
  <2> USE <1>1 DEF Delete, DeleteUser, EndSessions, SessionsOf
  <2>1. TypeOK'
    BY DEF Exists
  <2>2. /\ account'[u] = "deleted" /\ codes'[u] = 0 /\ links'[u] = 0 /\ u \notin verified'
        /\ \A v \in User \ {u} :
             /\ account'[v] = account[v] /\ codes'[v] = codes[v] /\ links'[v] = links[v]
             /\ v \in verified' <=> v \in verified
    OBVIOUS
  <2>3. \A s \in Session : session'[s] # NoUser =>
          session'[s] = session[s] /\ session[s] # u /\ (s \in older' => s \in older)
    OBVIOUS
  <2>4. \A k \in Key : key'[k] # NoUser => key'[k] = key[k] /\ key[k] # u
    OBVIOUS
  <2>5. OneCodeEach' /\ VerifiedExist'
    BY <2>2 DEF OneCodeEach, VerifiedExist
  <2>6. OldSessionSetPassword'
    BY <2>3 DEF OldSessionSetPassword
  <2>7. RowsOfOpenAccounts'
    BY <2>2, <2>3, <2>4 DEF RowsOfOpenAccounts
  <2> QED BY <2>1, <2>5, <2>6, <2>7
<1>2. ASSUME NEW r \in waiting, NEW disabled \in BOOLEAN, SetDisabled(r, u, disabled)
      PROVE  IInv'
  <2> USE <1>2 DEF SetDisabled, SetUserDisabled, EndSessions, SessionsOf, Answer
  <2>1. TypeOK'
    OBVIOUS
  <2>2. /\ account'[u] = IF disabled THEN "disabled" ELSE "enabled"
        /\ Exists(u)
        /\ \A v \in User \ {u} : account'[v] = account[v]
    OBVIOUS
  <2>3. \A s \in Session : session'[s] # NoUser =>
          /\ session'[s] = session[s] /\ (s \in older' => s \in older)
          /\ disabled => session[s] # u
    OBVIOUS
  <2>4. OneCodeEach' /\ VerifiedExist'
    BY <2>2 DEF OneCodeEach, VerifiedExist
  <2>5. OldSessionSetPassword'
    BY <2>3 DEF OldSessionSetPassword
  <2>6. RowsOfOpenAccounts'
    BY <2>2, <2>3 DEF RowsOfOpenAccounts
  <2> QED BY <2>1, <2>4, <2>5, <2>6
<1> QED BY <1>1, <1>2

\* The other steps of administrators and owners, a request's arrival and the
\* death of the process.
LEMMA OtherStep ==
  ASSUME IInv,
         \/ Restart
         \/ (\E s \in Session : Arrive(s))
         \/ (\E k \in Key : RevokeKey(k))
         \/ (\E u \in User : VerifyByAdmin(u) \/ ResetTotpByAdmin(u))
  PROVE  IInv'
<1> USE AccountsAssumption DEF IInv, TypeOK, UsersTypeOK, AccountState, usersVars, totpVars, credVars,
        Exists, Enabled
<1>1. /\ account' = account /\ admins' = admins /\ links' = links /\ session' = session
      /\ checking' = checking /\ older' = older /\ changer' = changer
  BY DEF Restart, Arrive, RevokeKey, VerifyByAdmin, ResetTotpByAdmin
<1>2. waiting' \in SUBSET Request
  <2>1. ASSUME NEW s \in Session, Arrive(s) PROVE waiting' \in SUBSET Request
    <3>1. session[s] \in User /\ (session[s] \in admins) \in BOOLEAN
      BY <2>1 DEF Arrive
    <3>2. [user |-> session[s], token |-> s, admin |-> session[s] \in admins] \in Request
      BY <3>1, Zenon DEF Request
    <3> QED BY <2>1, <3>2 DEF Arrive
  <2> QED BY <2>1 DEF Restart, Dies, RevokeKey, VerifyByAdmin, ResetTotpByAdmin
<1>3. /\ verified' \in SUBSET User /\ codes' \in [User -> Nat]
      /\ verified \subseteq verified'
      /\ \A u \in User :
           /\ codes'[u] <= codes[u]
           /\ u \in verified' /\ u \notin verified => codes'[u] = 0 /\ Exists(u)
  BY DEF Restart, Arrive, RevokeKey, VerifyByAdmin, ResetTotpByAdmin, MarkVerified
<1>4. /\ secret' \in SUBSET User /\ setup' \in SUBSET User
      /\ key' \in [Key -> User \union {NoUser}]
      /\ \A k \in Key : key'[k] # NoUser => key'[k] = key[k]
  BY DEF Restart, Arrive, RevokeKey, VerifyByAdmin, ResetTotpByAdmin
<1>5. OneCodeEach' /\ VerifiedExist'
  BY <1>1, <1>3 DEF OneCodeEach, VerifiedExist
<1>6. OldSessionSetPassword'
  BY <1>1 DEF OldSessionSetPassword
<1>7. RowsOfOpenAccounts'
  BY <1>1, <1>3, <1>4 DEF RowsOfOpenAccounts
<1> QED BY <1>1, <1>2, <1>3, <1>4, <1>5, <1>6, <1>7

LEMMA Inductive == IInv /\ [Next]_vars => IInv'
<1> SUFFICES ASSUME IInv, [Next]_vars PROVE IInv'
  OBVIOUS
<1>1. CASE UNCHANGED vars
  BY <1>1 DEF vars, IInv, TypeOK, UsersTypeOK, RowsOfOpenAccounts, OneCodeEach,
     OldSessionSetPassword, VerifiedExist, Exists, Enabled
<1>2. ASSUME NEW u \in User,
             \/ Register(u) \/ Login(u) \/ ResendCode(u) \/ VerifyEmail(u) \/ ForgotPassword(u)
             \/ ResetPassword(u) \/ Delete(u) \/ VerifyByAdmin(u) \/ ResetTotpByAdmin(u)
      PROVE  IInv'
  BY <1>2, EnterStep, CredentialStep, AccountStep, OtherStep
<1>3. ASSUME NEW r \in waiting, Handled(r) PROVE IInv'
  BY <1>3, OwnRequestStep, AccountStep DEF Handled
<1>4. ASSUME NEW s \in Session, Logout(s) PROVE IInv'
  <2>1. session[s] \in User
    BY <1>4 DEF Logout, IInv, TypeOK
  <2> QED BY <1>4, <2>1, CredentialStep
<1> QED BY <1>1, <1>2, <1>3, <1>4, OtherStep DEF Next

-----------------------------------------------------------------------------
(* Theorems                                                                *)

\* Every variable keeps its type.
THEOREM AccountsTypeCorrect == Spec => []TypeOK
<1>1. IInv => TypeOK
  BY DEF IInv
<1> QED BY <1>1, Initial, Inductive, PTL DEF Spec

\* Only accounts that are open have sessions, whoever is disabled or deleted
\* while requests are under way (auth_store.set_user_disabled, delete_user).
THEOREM SessionsAreOfOpenAccounts == Spec => []RowsOfOpenAccounts
<1>1. IInv => RowsOfOpenAccounts
  BY DEF IInv
<1> QED BY <1>1, Initial, Inductive, PTL DEF Spec

\* Never two codes or two links that work (create_email_verification_otp,
\* create_password_reset_token).
THEOREM CodesAreSingle == Spec => []OneCodeEach
<1>1. IInv => OneCodeEach
  BY DEF IInv
<1> QED BY <1>1, Initial, Inductive, PTL DEF Spec

\* A changed password ends every session but the one that changed it
\* (change_password, reset_password_with_token).
THEOREM PasswordEndsSessions == Spec => []OldSessionSetPassword
<1>1. IInv => OldSessionSetPassword
  BY DEF IInv
<1> QED BY <1>1, Initial, Inductive, PTL DEF Spec
=============================================================================
