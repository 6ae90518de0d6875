------------------------------- MODULE Login --------------------------------
(***************************************************************************)
(* How an account gets a session: the password login, the forced change of *)
(* a provisional password, the second factor, the login of a service       *)
(* account and the one with a passkey; the temporary tokens of a login cut *)
(* short, at their own endpoints and at /oidc/authorize; and what an       *)
(* administrator and the script that forces a change do meanwhile.         *)
(*                                                                         *)
(* A request is cut at its database statements.  Any of them may throw, so *)
(* a request may stop between two of them (Abandon): an administrator's    *)
(* operation is then done by half.                                         *)
(*                                                                         *)
(* Abstractions: a password is right or wrong, and a login may be refused  *)
(* for a lock, as the environment likes; an assertion is accepted or not   *)
(* (Passkeys says which); totpEnabled does not change; the five minutes of *)
(* a temporary token may run out at any moment, and until then the token   *)
(* may be presented any number of times.  A session that another session's *)
(* tokens open through /oidc/authorize is AuthorizationCode's.             *)
(***************************************************************************)
EXTENDS SessionStore

CONSTANTS
  ServiceAccounts,    \* SERVICE_LOGIN_USERNAMES
  Requests,           \* requests that may be in flight at once
  MaxResets,          \* bound: password resets of one account
  MaxDeactivations    \* bound: deactivations of one account

ASSUME LoginAssumption ==
  /\ Users # {}
  /\ ServiceAccounts \subseteq Users
  /\ MaxResets \in Nat
  /\ MaxDeactivations \in Nat

VARIABLES
  account,      \* the `users` table
  tempTokens,   \* the temporary tokens signed and not expired
  req,          \* the requests
  opening,      \* history: how each session was opened
  unswept       \* history: accounts reset or deactivated, sessions not yet revoked

vars == <<sessions, issued, account, tempTokens, req, opening, unswept>>

-----------------------------------------------------------------------------
\* resets and offs are history: how often the mark was set, and isActive cleared.
Account == [active : BOOLEAN, mustChange : BOOLEAN, totpEnabled : BOOLEAN,
            resets : Nat, offs : Nat]

\* What a chain of requests knew of the account: its resets and deactivations
\* when the account was last found unmarked, when it was last found active,
\* and when the password was checked.  History.
Knowledge == [resets : Nat, offs : Nat, password : Nat]

\* A token of a login cut short, signed with the key and issuer of the access
\* tokens.  Only its own endpoint looks at its type.
TempToken == [type : {"2fa_pending", "cambio_clave"}, user : Users, knows : Knowledge]

Kind  == {"login", "cambio", "twoFactor", "service", "passkey", "sso",
          "self", "reset", "deactivate"}
Phase == {"idle", "validated", "checked", "issuing", "written"}

Request == [kind : Kind, phase : Phase, user : Users, knows : Knowledge]

\* How a session was opened, and the account's resets and deactivations then
Opening == [via : Kind, knows : Knowledge, resets : Nat, offs : Nat]

TypeOK ==
  /\ StoreTypeOK
  /\ account \in [Users -> Account]
  /\ tempTokens \subseteq TempToken
  /\ req \in [Requests -> Request]
  /\ opening \in [SessionIds -> Opening]
  /\ unswept \subseteq Users

Nothing == [resets |-> 0, offs |-> 0, password |-> 0]

Idle == [kind |-> "login", phase |-> "idle", user |-> CHOOSE u \in Users : TRUE,
         knows |-> Nothing]

Init ==
  /\ StoreInit
  /\ \E totp \in [Users -> BOOLEAN] :
       account = [u \in Users |-> [active |-> TRUE, mustChange |-> FALSE,
                                   totpEnabled |-> totp[u], resets |-> 0, offs |-> 0]]
  /\ tempTokens = {}
  /\ req = [r \in Requests |-> Idle]
  /\ opening = [s \in SessionIds |->
       [via |-> "login", knows |-> Nothing, resets |-> 0, offs |-> 0]]
  /\ unswept = {}

-----------------------------------------------------------------------------
At(r, kind, phase) == req[r].kind = kind /\ req[r].phase = phase

\* A request of this kind about u goes to this phase, knowing this.
Goes(r, kind, phase, u, knows) ==
  req' = [req EXCEPT ![r] = [kind |-> kind, phase |-> phase, user |-> u, knows |-> knows]]

Finish(r) == req' = [req EXCEPT ![r] = Idle]

SignTempToken(type, u, knows) ==
  tempTokens' = tempTokens \cup {[type |-> type, user |-> u, knows |-> knows]}

\* What is known of an account that is seen active and unmarked now
KnowsAll(u) == [resets |-> account[u].resets, offs |-> account[u].offs,
                password |-> account[u].resets]

-----------------------------------------------------------------------------
\* validateCredentials without the test of isActive
ValidateInactiveToo(r, u) ==
  /\ req[r].phase = "idle"
  /\ Goes(r, "login", "validated", u, KnowsAll(u))
  /\ UNCHANGED <<storeVars, account, tempTokens, opening, unswept>>

\* validateCredentials, with the right password.  (A wrong one opens nothing.)
ValidateCredentials(r, u) ==
  /\ req[r].phase = "idle"
  /\ account[u].active
  /\ Goes(r, "login", "validated", u, KnowsAll(u))
  /\ UNCHANGED <<storeVars, account, tempTokens, opening, unswept>>

\* login: the flags are read again, after the password was checked.
LoginStep(r) ==
  LET u == req[r].user
      knows == [req[r].knows EXCEPT !.resets = account[u].resets]
  IN
  /\ At(r, "login", "validated")
  /\ \/ /\ account[u].mustChange
        /\ SignTempToken("cambio_clave", u, req[r].knows)
        /\ Finish(r)
     \/ /\ ~account[u].mustChange /\ account[u].totpEnabled
        /\ SignTempToken("2fa_pending", u, knows)
        /\ Finish(r)
     \/ /\ ~account[u].mustChange /\ ~account[u].totpEnabled
        /\ Goes(r, "login", "issuing", u, knows)
        /\ UNCHANGED tempTokens
  /\ UNCHANGED <<storeVars, account, opening, unswept>>

\* completarCambioClave, up to the comparison with the provisional password
CheckChange(r, t) ==
  /\ req[r].phase = "idle"
  /\ t.type = "cambio_clave"
  /\ account[t.user].active /\ account[t.user].mustChange
  /\ Goes(r, "cambio", "checked", t.user, [t.knows EXCEPT !.offs = account[t.user].offs])
  /\ UNCHANGED <<storeVars, account, tempTokens, opening, unswept>>

\* completarCambioClave of a code that forgets the second factor
CompleteWithoutTotp(r) ==
  LET u == req[r].user IN
  /\ At(r, "cambio", "checked")
  /\ account' = [account EXCEPT ![u].mustChange = FALSE]
  /\ Goes(r, "cambio", "issuing", u, [req[r].knows EXCEPT !.resets = account[u].resets])
  /\ UNCHANGED <<storeVars, tempTokens, opening, unswept>>

\* completarCambioClave, from changePassword on: the password is the owner's
\* and the mark goes, whoever set it in the meantime.
CompleteChange(r) ==
  LET u == req[r].user
      knows == [req[r].knows EXCEPT !.resets = account[u].resets,
                                    !.password = account[u].resets]
  IN
  /\ At(r, "cambio", "checked")
  /\ account' = [account EXCEPT ![u].mustChange = FALSE]
  /\ \/ account[u].totpEnabled /\ SignTempToken("2fa_pending", u, knows) /\ Finish(r)
     \/ ~account[u].totpEnabled /\ Goes(r, "cambio", "issuing", u, knows) /\ UNCHANGED tempTokens
  /\ UNCHANGED <<storeVars, opening, unswept>>

\* verify2FA that trusts the first step
Verify2FAUnmarked(r, t) ==
  /\ req[r].phase = "idle"
  /\ t.type = "2fa_pending" /\ account[t.user].totpEnabled
  /\ Goes(r, "twoFactor", "issuing", t.user,
          [t.knows EXCEPT !.resets = account[t.user].resets])
  /\ UNCHANGED <<storeVars, account, tempTokens, opening, unswept>>

\* verify2FA with a good code: the mark is read again, isActive is not.  It
\* takes no token of another type.
Verify2FA(r, t) ==
  /\ req[r].phase = "idle"
  /\ t.type = "2fa_pending" /\ account[t.user].totpEnabled
  /\ ~account[t.user].mustChange
  /\ Goes(r, "twoFactor", "issuing", t.user,
          [t.knows EXCEPT !.resets = account[t.user].resets])
  /\ UNCHANGED <<storeVars, account, tempTokens, opening, unswept>>

\* A temporary token in the access_token cookie of /oidc/authorize: for
\* verifyAccessToken it is an access token, and resolveSsoContext looks at the
\* account alone.  The code this gives and its exchange are the rest of this
\* request (AuthorizationCode takes them apart).
AuthorizeByTempToken(r, t) ==
  /\ req[r].phase = "idle"
  /\ account[t.user].active /\ ~account[t.user].mustChange
  /\ Goes(r, "sso", "issuing", t.user,
          [t.knows EXCEPT !.resets = account[t.user].resets, !.offs = account[t.user].offs])
  /\ UNCHANGED <<storeVars, account, tempTokens, opening, unswept>>

\* serviceLogin: an allowed account, active; the mark is not looked at.
ServiceLogin(r, u) ==
  /\ req[r].phase = "idle"
  /\ u \in ServiceAccounts
  /\ account[u].active
  /\ Goes(r, "service", "issuing", u, KnowsAll(u))
  /\ UNCHANGED <<storeVars, account, tempTokens, opening, unswept>>

\* verifyAuthentication of an assertion that verifies: the flags are those read
\* with the key, and the key stands for both factors.
VerifyAuthentication(r, u) ==
  /\ req[r].phase = "idle"
  /\ account[u].active /\ ~account[u].mustChange
  /\ Goes(r, "passkey", "issuing", u, KnowsAll(u))
  /\ UNCHANGED <<storeVars, account, tempTokens, opening, unswept>>

\* issueTokenPair, and the answer with the cookies
IssueTokenPair(r) ==
  LET u == req[r].user IN
  /\ req[r].phase = "issuing"
  /\ \E s \in SessionIds :
       /\ InsertSession(s, u)
       /\ opening' = [opening EXCEPT ![s] =
            [via |-> req[r].kind, knows |-> req[r].knows,
             resets |-> account[u].resets, offs |-> account[u].offs]]
  /\ Finish(r)
  /\ UNCHANGED <<account, tempTokens, unswept>>

ExpireTempToken(t) ==
  /\ tempTokens' = tempTokens \ {t}
  /\ UNCHANGED <<storeVars, account, req, opening, unswept>>

-----------------------------------------------------------------------------
\* PATCH me/password: the current password is checked against the row read ...
CheckOwnPassword(r, u) ==
  /\ req[r].phase = "idle"
  /\ account[u].active
  /\ Goes(r, "self", "checked", u, Nothing)
  /\ UNCHANGED <<storeVars, account, tempTokens, opening, unswept>>

\* ... and the new one is written over whatever the row holds by then.
ChangeOwnPassword(r) ==
  /\ At(r, "self", "checked")
  /\ account' = [account EXCEPT ![req[r].user].mustChange = FALSE]
  /\ Finish(r)
  /\ UNCHANGED <<storeVars, tempTokens, opening, unswept>>

\* AdminService.resetPassword, first statement: a provisional password
ResetPassword(r, u) ==
  /\ req[r].phase = "idle"
  /\ account[u].resets < MaxResets
  /\ account' = [account EXCEPT ![u].mustChange = TRUE, ![u].resets = @ + 1]
  /\ unswept' = unswept \cup {u}
  /\ Goes(r, "reset", "written", u, Nothing)
  /\ UNCHANGED <<storeVars, tempTokens, opening>>

\* scripts/forzar-cambio-clave.cjs: the temporary password, the mark and the
\* revocation of all sessions in one transaction
ForceChange(u) ==
  /\ account[u].resets < MaxResets
  /\ account' = [account EXCEPT ![u].mustChange = TRUE, ![u].resets = @ + 1]
  /\ RevokeAll(u)
  /\ unswept' = unswept \ {u}
  /\ UNCHANGED <<tempTokens, req, opening>>

\* AdminService.deactivateUser, first statement
DeactivateUser(r, u) ==
  /\ req[r].phase = "idle"
  /\ account[u].offs < MaxDeactivations
  /\ account' = [account EXCEPT ![u].active = FALSE, ![u].offs = @ + 1]
  /\ unswept' = unswept \cup {u}
  /\ Goes(r, "deactivate", "written", u, Nothing)
  /\ UNCHANGED <<storeVars, tempTokens, opening>>

\* Both, second statement: revokeAll
RevokeSessions(r) ==
  /\ req[r].phase = "written"
  /\ RevokeAll(req[r].user)
  /\ unswept' = unswept \ {req[r].user}
  /\ Finish(r)
  /\ UNCHANGED <<account, tempTokens, opening>>

\* AdminService.updateUser of isActive: no session is revoked.
UpdateActive(u, flag) ==
  /\ account[u].active # flag
  /\ flag \/ account[u].offs < MaxDeactivations
  /\ account' = [account EXCEPT ![u].active = flag, ![u].offs = IF flag THEN @ ELSE @ + 1]
  /\ unswept' = IF flag THEN unswept ELSE unswept \cup {u}
  /\ UNCHANGED <<storeVars, tempTokens, req, opening>>

\* A statement throws: the request goes no further.
Abandon(r) ==
  /\ req[r].phase # "idle"
  /\ Finish(r)
  /\ UNCHANGED <<storeVars, account, tempTokens, opening, unswept>>

-----------------------------------------------------------------------------
Next ==
  \/ \E r \in Requests, u \in Users :
       \/ ValidateCredentials(r, u) \/ ServiceLogin(r, u) \/ VerifyAuthentication(r, u)
       \/ CheckOwnPassword(r, u) \/ ResetPassword(r, u) \/ DeactivateUser(r, u)
  \/ \E u \in Users : ForceChange(u)
  \/ \E r \in Requests, t \in tempTokens :
       CheckChange(r, t) \/ Verify2FA(r, t) \/ AuthorizeByTempToken(r, t)
  \/ \E r \in Requests :
       \/ LoginStep(r) \/ CompleteChange(r) \/ IssueTokenPair(r)
       \/ ChangeOwnPassword(r) \/ RevokeSessions(r) \/ Abandon(r)
  \/ \E t \in tempTokens : ExpireTempToken(t)
  \/ \E u \in Users, flag \in BOOLEAN : UpdateActive(u, flag)

Spec == Init /\ [][Next]_vars

-----------------------------------------------------------------------------
(***************************************************************************)
(* Properties.                                                             *)
(***************************************************************************)

\* While an account must change its password and its sessions were swept
\* (admin.service resetPassword, forzar-cambio-clave.cjs), the sessions it has
\* were all opened after the reset, by a request that had seen it unmarked
\* before the reset or by a service login, the one way in that does not read
\* the mark.
MarkedAccountsHoldEarlySessions ==
  \A s \in SessionIds :
    LET u == sessions[s].user IN
    Live(s) /\ account[u].mustChange /\ u \notin unswept =>
      /\ opening[s].resets = account[u].resets
      /\ opening[s].knows.resets < account[u].resets \/ opening[s].via = "service"

\* The same for an account that was deactivated: a session that would come
\* back to life with the account (findValidSession only tests isActive) was
\* opened by a chain of requests that had seen it active before.
InactiveAccountsHoldEarlySessions ==
  \A s \in SessionIds :
    LET u == sessions[s].user IN
    Live(s) /\ ~account[u].active /\ u \notin unswept =>
      opening[s].offs = account[u].offs /\ opening[s].knows.offs < account[u].offs

\* Whatever sequence of steps led to it, no session of an account with a
\* second factor was opened by the login or by the forced change themselves
\* (auth.service login, completarCambioClave): it took verify2FA, a passkey, a
\* service login, or a temporary token shown at /oidc/authorize, which is the
\* way round the second factor that SecondStepIsTaken speaks of.
FirstFactorOpensNothing ==
  \A s \in SessionIds :
    Stored(s) /\ account[sessions[s].user].totpEnabled =>
      opening[s].via \in {"twoFactor", "service", "passkey", "sso"}

\* signTempToken, "'2fa_pending': falta el segundo factor. [...] Quien lo
\* verifica debe comprobar `type`: uno no sirve por el otro": a temporary token
\* stands for no session, so an account with a second factor gets one from
\* verify2FA, a passkey or a service login only.
SecondStepIsTaken ==
  \A s \in SessionIds :
    Stored(s) /\ account[sessions[s].user].totpEnabled =>
      opening[s].via \in {"twoFactor", "service", "passkey"}

\* verify2FA, "Un admin pudo resetear la contraseña entre el primer y el
\* segundo paso": a second factor opens no session for a first factor given
\* with a password that a reset has replaced since.
ChallengeDiesWithPassword ==
  \A s \in SessionIds :
    Stored(s) /\ opening[s].via = "twoFactor" =>
      opening[s].knows.password = opening[s].knows.resets
=============================================================================
