------------------------------ MODULE Accounts ------------------------------
(***************************************************************************)
(* Registration, sign-in, e-mail verification, password reset, two-factor  *)
(* set-up, API keys and the administration of accounts: the account part   *)
(* of AuthStore and the handlers of main.py that call it.                  *)
(*                                                                         *)
(* Every AuthStore method is one SQLite transaction and runs without an    *)
(* await, and so does a handler once it has read its body.  What           *)
(* interleaves:                                                            *)
(*   - the middleware looks the session up, then the handler awaits the    *)
(*     request's body: the identity it acts with may be out of date;       *)
(*   - the process may die between two transactions of one handler.        *)
(*                                                                         *)
(* A handler that needs a password, code or link either is given the right *)
(* one or fails and changes nothing.  A code presented is compared with    *)
(* the newest row that is not consumed, so only the number of such rows    *)
(* matters.  Whether it has expired, whether a resend comes too early and  *)
(* whether mail can be sent is left open: such a failure changes nothing.  *)
(* Registration may be switched off, which is not to register.             *)
(***************************************************************************)
EXTENDS PortalUsers, FiniteSets, Naturals

CONSTANTS
  Session,      \* session tokens
  Key,          \* API keys
  NoUser,       \* no row
  NoSession,    \* no token
  MaxWaiting    \* bound on the requests that wait for their body

ASSUME AccountsAssumption ==
  /\ NoUser \notin User
  /\ NoSession \notin Session
  /\ MaxWaiting \in Nat

VARIABLES
  verified,     \* email_verified_at
  codes,        \* unconsumed rows of email_verification_otps
  links,        \* unconsumed rows of password_reset_tokens
  secret,       \* users with totp_enabled_at
  setup,        \* users with a pending TOTP secret
  session,      \* the sessions table: the owner of each token
  key,          \* the api_keys table without the revoked ones: their owners
  waiting,      \* requests past the middleware: identity and cookie
  checking,     \* the setting initial_email_validation_enabled
  older,        \* history: sessions opened before their user's present password
  changer       \* history: the session that set it, unless a link did

credVars == <<verified, codes, links>>
totpVars == <<secret, setup>>
vars == <<account, admins, verified, codes, links, secret, setup, session, key,
          waiting, checking, older, changer>>

Request == [user : User, token : Session, admin : BOOLEAN]

TypeOK ==
  /\ UsersTypeOK
  /\ verified \in SUBSET User
  /\ codes \in [User -> Nat]
  /\ links \in [User -> Nat]
  /\ secret \in SUBSET User
  /\ setup \in SUBSET User
  /\ session \in [Session -> User \union {NoUser}]
  /\ key \in [Key -> User \union {NoUser}]
  /\ waiting \in SUBSET Request
  /\ checking \in BOOLEAN
  /\ older \in SUBSET Session
  /\ changer \in [User -> Session \union {NoSession}]

Init ==
  /\ UsersInit
  /\ verified = {}
  /\ codes = [u \in User |-> 0]
  /\ links = [u \in User |-> 0]
  /\ secret = {}
  /\ setup = {}
  /\ session = [s \in Session |-> NoUser]
  /\ key = [k \in Key |-> NoUser]
  /\ waiting = {}
  /\ checking = TRUE
  /\ older = {}
  /\ changer = [u \in User |-> NoSession]

SessionsOf(u) == {s \in Session : session[s] = u}

-----------------------------------------------------------------------------
(* Rows                                                                    *)

\* Tokens are random: a new one is in no row and in no request's cookie.
Fresh(s) == session[s] = NoUser /\ \A r \in waiting : r.token # s

CreateSession(u) ==
  \E s \in Session :
    /\ Fresh(s)
    /\ Enabled(u)' /\ u \in verified'
    /\ session' = [session EXCEPT ![s] = u]
    /\ older' = older \ {s}
    /\ UNCHANGED changer

NoNewSession == UNCHANGED <<session, older, changer>>

\* The sessions of u end, save the kept ones.
EndSessions(u, kept) ==
  /\ session' = [s \in Session |-> IF session[s] = u /\ s \notin kept THEN NoUser ELSE session[s]]
  /\ older' = older \ (SessionsOf(u) \ kept)

\* A new code consumes the earlier ones.
NewCode(u) == codes' = [codes EXCEPT ![u] = 1]

NewLink(u) == links' = [links EXCEPT ![u] = 1]

\* mark_user_email_verified: no code is left to verify with.
MarkVerified(u) ==
  /\ codes' = [codes EXCEPT ![u] = 0]
  /\ verified' = verified \union {u}

\* Mutant: the row of a code is consumed without looking whether there is one.
ConsumeCode_Mutant(u) ==
  /\ codes' = [codes EXCEPT ![u] = @ - 1]
  /\ verified' = verified \union {u}

ConsumeCode(u) ==
  /\ codes[u] > 0
  /\ codes' = [codes EXCEPT ![u] = @ - 1]
  /\ verified' = verified \union {u}

\* A handler ends, or the process dies between its transactions and forgets
\* every request.
Ends == UNCHANGED waiting
Dies == waiting' = {}

-----------------------------------------------------------------------------
(* Getting in                                                              *)

\* The user's row, then the code or the verification, then a session.
Register(u) ==
  /\ CreateUser(u)
  /\ \/ checking /\ Ends /\ NewCode(u) /\ NoNewSession /\ UNCHANGED verified
     \/ ~checking /\ Ends /\ MarkVerified(u) /\ CreateSession(u)
     \/ Dies /\ NoNewSession /\ UNCHANGED <<verified, codes>>
     \/ ~checking /\ Dies /\ MarkVerified(u) /\ NoNewSession
  /\ UNCHANGED <<links, secret, setup, key, checking>>

\* The password is right, and so is the authenticator's code where one is needed.
Login(u) ==
  /\ Enabled(u)
  /\ UNCHANGED <<usersVars, links, secret, setup, key, checking>>
  /\ \/ u \in verified /\ Ends /\ UNCHANGED <<verified, codes>> /\ CreateSession(u)
     \/ u \notin verified /\ ~checking /\ Ends /\ MarkVerified(u) /\ CreateSession(u)
     \/ u \notin verified /\ ~checking /\ Dies /\ MarkVerified(u) /\ NoNewSession
     \/ u \notin verified /\ checking /\ Ends /\ NewCode(u) /\ NoNewSession /\ UNCHANGED verified

ResendCode(u) ==
  /\ Enabled(u)
  /\ u \notin verified
  /\ NewCode(u)
  /\ NoNewSession
  /\ UNCHANGED <<usersVars, verified, links, secret, setup, key, waiting, checking>>

\* A user who is verified already is only signed in.
VerifyEmail(u) ==
  /\ Enabled(u)
  /\ UNCHANGED <<usersVars, links, secret, setup, key, checking>>
  /\ \/ u \in verified /\ Ends /\ UNCHANGED <<verified, codes>> /\ CreateSession(u)
     \/ u \notin verified /\ Ends /\ ConsumeCode(u) /\ CreateSession(u)
     \/ u \notin verified /\ Dies /\ ConsumeCode(u) /\ NoNewSession

Logout(s) ==
  /\ session[s] # NoUser
  /\ session' = [session EXCEPT ![s] = NoUser]
  /\ older' = older \ {s}
  /\ UNCHANGED <<usersVars, credVars, totpVars, key, waiting, checking, changer>>

ForgotPassword(u) ==
  /\ Enabled(u)
  /\ NewLink(u)
  /\ NoNewSession
  /\ UNCHANGED <<usersVars, verified, codes, secret, setup, key, waiting, checking>>

\* Mutant: the sessions of the old password go on.
ResetPassword_Mutant(u) ==
  /\ links[u] > 0
  /\ links' = [links EXCEPT ![u] = @ - 1]
  /\ older' = older \union SessionsOf(u)
  /\ changer' = [changer EXCEPT ![u] = NoSession]
  /\ UNCHANGED <<usersVars, verified, codes, totpVars, session, key, waiting, checking>>

\* Also for a disabled user: the link is all that is asked for.
ResetPassword(u) ==
  /\ links[u] > 0
  /\ links' = [links EXCEPT ![u] = @ - 1]
  /\ EndSessions(u, {})
  /\ changer' = [changer EXCEPT ![u] = NoSession]
  /\ UNCHANGED <<usersVars, verified, codes, totpVars, key, waiting, checking>>

-----------------------------------------------------------------------------
(* Requests that wait for their body                                       *)

\* auth_middleware has found the user of the cookie; request.json() suspends.
Arrive(s) ==
  LET u == session[s] IN
  /\ Cardinality(waiting) < MaxWaiting
  /\ u # NoUser
  /\ Enabled(u)
  /\ waiting' = waiting \union {[user |-> u, token |-> s, admin |-> u \in admins]}
  /\ UNCHANGED <<usersVars, credVars, totpVars, session, key, checking, older, changer>>

Answer(r) == waiting' = waiting \ {r}

\* A wrong password or code, or a row that has gone.
Refuse(r) ==
  /\ Answer(r)
  /\ UNCHANGED <<usersVars, credVars, totpVars, session, key, checking, older, changer>>

\* Only the session that asks for it goes on; links to reset it stay valid.
ChangePassword(r) ==
  /\ Exists(r.user)
  /\ Answer(r)
  /\ session' = [s \in Session |->
       IF session[s] = r.user /\ s # r.token THEN NoUser ELSE session[s]]
  /\ older' = {s \in older \union SessionsOf(r.user) : session'[s] # NoUser}
  /\ changer' = [changer EXCEPT ![r.user] = r.token]
  /\ UNCHANGED <<usersVars, credVars, totpVars, key, checking>>

SetUpTotp(r) ==
  /\ Exists(r.user)
  /\ Answer(r)
  /\ setup' = setup \union {r.user}
  /\ UNCHANGED <<usersVars, credVars, secret, session, key, checking, older, changer>>

EnableTotp(r) ==
  /\ r.user \in setup
  /\ Answer(r)
  /\ secret' = secret \union {r.user}
  /\ setup' = setup \ {r.user}
  /\ UNCHANGED <<usersVars, credVars, session, key, checking, older, changer>>

DisableTotp(r) ==
  /\ Exists(r.user)
  /\ Answer(r)
  /\ secret' = secret \ {r.user}
  /\ setup' = setup \ {r.user}
  /\ UNCHANGED <<usersVars, credVars, session, key, checking, older, changer>>

CreateKey(r) ==
  /\ Enabled(r.user)
  /\ Answer(r)
  /\ \E k \in Key : key[k] = NoUser /\ key' = [key EXCEPT ![k] = r.user]
  /\ UNCHANGED <<usersVars, credVars, totpVars, session, checking, older, changer>>

\* Mutant: a disabled user's sessions are left to the check of each request.
SetDisabled_Mutant(r, u, disabled) ==
  /\ r.admin /\ u # r.user
  /\ Answer(r)
  /\ SetUserDisabled(u, disabled)
  /\ UNCHANGED <<credVars, totpVars, session, key, checking, older, changer>>

\* By an administrator, whatever has become of that administrator meanwhile.
SetDisabled(r, u, disabled) ==
  /\ r.admin /\ u # r.user
  /\ Answer(r)
  /\ SetUserDisabled(u, disabled)
  /\ IF disabled THEN EndSessions(u, {}) ELSE UNCHANGED <<session, older>>
  /\ UNCHANGED <<credVars, totpVars, key, checking, changer>>

SetChecking(r, enabled) ==
  /\ r.admin
  /\ Answer(r)
  /\ checking' = enabled
  /\ UNCHANGED <<usersVars, credVars, totpVars, session, key, older, changer>>

-----------------------------------------------------------------------------
(* Requests without a body: the lookup and the change are one step         *)

SignedIn(u) == Enabled(u) /\ SessionsOf(u) # {}

RevokeKey(k) ==
  /\ key[k] # NoUser
  /\ SignedIn(key[k])
  /\ key' = [key EXCEPT ![k] = NoUser]
  /\ UNCHANGED <<usersVars, credVars, totpVars, session, waiting, checking, older, changer>>

\* Of oneself, or by an administrator; every row that refers to the user goes.
Delete(u) ==
  /\ \/ SignedIn(u)
     \/ \E a \in admins \ {u} : SignedIn(a)
  /\ DeleteUser(u)
  /\ verified' = verified \ {u}
  /\ codes' = [codes EXCEPT ![u] = 0]
  /\ links' = [links EXCEPT ![u] = 0]
  /\ secret' = secret \ {u}
  /\ setup' = setup \ {u}
  /\ EndSessions(u, {})
  /\ key' = [k \in Key |-> IF key[k] = u THEN NoUser ELSE key[k]]
  /\ UNCHANGED <<waiting, checking, changer>>

VerifyByAdmin(u) ==
  /\ \E a \in admins : SignedIn(a)
  /\ Exists(u)
  /\ MarkVerified(u)
  /\ UNCHANGED <<usersVars, links, totpVars, session, key, waiting, checking, older, changer>>

ResetTotpByAdmin(u) ==
  /\ \E a \in admins \ {u} : SignedIn(a)
  /\ Exists(u)
  /\ secret' = secret \ {u}
  /\ setup' = setup \ {u}
  /\ UNCHANGED <<usersVars, credVars, session, key, waiting, checking, older, changer>>

Restart ==
  /\ waiting # {}
  /\ Dies
  /\ UNCHANGED <<usersVars, credVars, totpVars, session, key, checking, older, changer>>

-----------------------------------------------------------------------------
Handled(r) ==
  \/ Refuse(r)
  \/ ChangePassword(r)
  \/ SetUpTotp(r)
  \/ EnableTotp(r)
  \/ DisableTotp(r)
  \/ CreateKey(r)
  \/ \E u \in User, disabled \in BOOLEAN : SetDisabled(r, u, disabled)
  \/ \E enabled \in BOOLEAN : SetChecking(r, enabled)

Next ==
  \/ \E u \in User :
       \/ Register(u)
       \/ Login(u)
       \/ ResendCode(u)
       \/ VerifyEmail(u)
       \/ ForgotPassword(u)
       \/ ResetPassword(u)
       \/ Delete(u)
       \/ VerifyByAdmin(u)
       \/ ResetTotpByAdmin(u)
  \/ \E s \in Session : Logout(s) \/ Arrive(s)
  \/ \E r \in waiting : Handled(r)
  \/ \E k \in Key : RevokeKey(k)
  \/ Restart

Spec == Init /\ [][Next]_vars

-----------------------------------------------------------------------------
(* Properties                                                              *)

\* "Disabled accounts must not be able to log in, create sessions": whatever
\* requests were under way when a user was disabled or deleted, every session
\* in the table belongs to a verified user who may use it, and no key, code or
\* link to one who has gone (auth_store.set_user_disabled, delete_user).
RowsOfOpenAccounts ==
  /\ \A s \in Session : session[s] # NoUser => Enabled(session[s]) /\ session[s] \in verified
  /\ \A k \in Key : key[k] # NoUser => Exists(key[k])
  /\ \A u \in User : codes[u] + links[u] > 0 => Exists(u)

\* A session opened under an earlier password goes on only if it set the present
\* one; none survives a reset by link (change_password,
\* reset_password_with_token).
OldSessionSetPassword ==
  \A s \in Session : session[s] # NoUser /\ s \in older => changer[session[s]] = s
=============================================================================
