------------------------- MODULE AuthorizationCode --------------------------
(***************************************************************************)
(* Single sign-on: GET /oidc/authorize turns a session of the portal into  *)
(* an authorization code, POST /oidc/token exchanges the code, once, for a *)
(* session of its own (the derived session), and renews that session; a    *)
(* code presented again revokes what it gave.  Around it, the              *)
(* administrator who resets the password of the account.                   *)
(*                                                                         *)
(* A request is cut at its database statements, and may stop at any of     *)
(* them: a check fails, or the statement throws.                           *)
(*                                                                         *)
(* Abstractions: client, secret, redirect_uri, scope and PKCE are right or *)
(* wrong as the environment likes (wrong ones end the request, Abandon);   *)
(* whoever presents a token that verifyAccessToken takes may do so at any  *)
(* moment: an access token of the portal, or a temporary token of a first  *)
(* factor, which Login follows to the session it opens; a code's 60        *)
(* seconds may run out at any moment.                                      *)
(***************************************************************************)
EXTENDS SessionStore

CONSTANTS
  CodeIds,      \* ids the table of codes may give to rows
  Requests,     \* requests that may be in flight at once
  NoCode,       \* the code of a session opened on the portal
  NoSession,    \* the session of a code not exchanged yet
  MaxResets,    \* bound: password resets of one account
  MaxTokens     \* bound: how many refresh tokens are generated

ASSUME CodeAssumption ==
  /\ Users # {} /\ CodeIds # {}
  /\ NoCode \notin CodeIds
  /\ NoSession \notin SessionIds
  /\ MaxResets \in Nat
  /\ MaxTokens \in Nat

VARIABLES
  account,      \* the `users` table
  codes,        \* the `authorization_codes` table
  req,          \* the requests
  source,       \* history: the code each session was opened with
  unswept,      \* history: accounts reset whose sessions were not revoked yet
  detected,     \* history: codes whose reuse was answered
  excused       \* history: codes whose reuse was answered but revoking threw, or
                \* found no session to revoke

vars == <<sessions, issued, account, codes, req, source, unswept, detected, excused>>

-----------------------------------------------------------------------------
\* resets is history: how often the mark was set.
Account == [active : BOOLEAN, mustChange : BOOLEAN, resets : Nat]

\* seen is history: the account's resets when it was last found unmarked.
Code == [ state    : {"unused", "open", "consumed"},   \* consumedAt
          user     : Users \cup {Nobody},
          expired  : BOOLEAN,
          session  : SessionIds \cup {NoSession},      \* sessionId
          seen     : Nat ]

Kind  == {"authorize", "exchange", "refresh", "reset"}
Phase == {"idle", "found", "resolved", "read", "checked", "consumed", "created", "written"}

Request == [ kind    : Kind,
             phase   : Phase,
             user    : Users,
             code    : CodeIds \cup {NoCode},
             row     : Code,                           \* the code as it was read
             session : SessionIds \cup {NoSession},
             seen    : Nat ]

\* How a session was opened: with which code, and the account's resets when it
\* was found unmarked and when the session was inserted
Source == [code : CodeIds \cup {NoCode}, seen : Nat, resets : Nat]

TypeOK ==
  /\ StoreTypeOK
  /\ account \in [Users -> Account]
  /\ codes \in [CodeIds -> Code]
  /\ req \in [Requests -> Request]
  /\ source \in [SessionIds -> Source]
  /\ unswept \subseteq Users
  /\ detected \subseteq CodeIds
  /\ excused \subseteq detected

UnusedCode == [state |-> "unused", user |-> Nobody, expired |-> FALSE,
               session |-> NoSession, seen |-> 0]

Idle == [kind |-> "authorize", phase |-> "idle", user |-> CHOOSE u \in Users : TRUE,
         code |-> NoCode, row |-> UnusedCode, session |-> NoSession, seen |-> 0]

Init ==
  /\ StoreInit
  /\ account = [u \in Users |-> [active |-> TRUE, mustChange |-> FALSE, resets |-> 0]]
  /\ codes = [c \in CodeIds |-> UnusedCode]
  /\ req = [r \in Requests |-> Idle]
  /\ source = [s \in SessionIds |-> [code |-> NoCode, seen |-> 0, resets |-> 0]]
  /\ unswept = {} /\ detected = {} /\ excused = {}

-----------------------------------------------------------------------------
At(r, kind, phase) == req[r].kind = kind /\ req[r].phase = phase

Goes(r, q) == req' = [req EXCEPT ![r] = q]

Finish(r) == Goes(r, Idle)

IsActive == [u \in Users |-> account[u].active]

\* A request found the session of a refresh token valid.
SessionFound(r, kind) ==
  /\ req[r].phase = "idle"
  /\ \E s \in SessionIds, t \in 1 .. issued :
       /\ FindValidSession(t, s, IsActive)
       /\ Goes(r, [Idle EXCEPT !.kind = kind, !.phase = "found",
                               !.user = sessions[s].user, !.session = s])
  /\ UNCHANGED <<storeVars, account, codes, source, unswept, detected, excused>>

-----------------------------------------------------------------------------
\* A completed login on the portal (the module Login opens it up)
PortalLogin(u) ==
  /\ account[u].active /\ ~account[u].mustChange
  /\ issued < MaxTokens
  /\ \E s \in SessionIds :
       /\ InsertSession(s, u)
       /\ source' = [source EXCEPT ![s] = [code |-> NoCode, seen |-> account[u].resets,
                                           resets |-> account[u].resets]]
  /\ UNCHANGED <<account, codes, req, unswept, detected, excused>>

\* resolveSsoContext by the cookie access_token: any token signed with the key
\* and issuer of the IAM passes, temporary and id tokens too, so the owner of an
\* account can always present one.  The account is read once.
ResolveByAccessToken(r, u) ==
  /\ req[r].phase = "idle"
  /\ account[u].active /\ ~account[u].mustChange
  /\ Goes(r, [Idle EXCEPT !.phase = "resolved", !.user = u, !.seen = account[u].resets])
  /\ UNCHANGED <<storeVars, account, codes, source, unswept, detected, excused>>

\* resolveSsoContext by the refresh token, without the test of the mark
ResolveMarkedToo(r) ==
  /\ At(r, "authorize", "found")
  /\ Goes(r, [req[r] EXCEPT !.phase = "resolved", !.seen = account[req[r].user].resets])
  /\ UNCHANGED <<storeVars, account, codes, source, unswept, detected, excused>>

\* resolveSsoContext by the refresh token: findValidSession, and then the
\* account, of which only the mark is looked at.
ResolveByRefreshToken(r) ==
  /\ At(r, "authorize", "found")
  /\ ~account[req[r].user].mustChange
  /\ Goes(r, [req[r] EXCEPT !.phase = "resolved", !.seen = account[req[r].user].resets])
  /\ UNCHANGED <<storeVars, account, codes, source, unswept, detected, excused>>

\* issueAuthorizationCode
IssueAuthorizationCode(r, c) ==
  /\ At(r, "authorize", "resolved")
  /\ codes[c].state = "unused"
  /\ codes' = [codes EXCEPT ![c] =
       [state |-> "open", user |-> req[r].user, expired |-> FALSE,
        session |-> NoSession, seen |-> req[r].seen]]
  /\ Finish(r)
  /\ UNCHANGED <<storeVars, account, source, unswept, detected, excused>>

ExpireCode(c) ==
  /\ codes[c].state # "unused" /\ ~codes[c].expired
  /\ codes' = [codes EXCEPT ![c].expired = TRUE]
  /\ UNCHANGED <<storeVars, account, req, source, unswept, detected, excused>>

-----------------------------------------------------------------------------
\* exchangeAuthorizationCode: the row is read, and then the client is
\* authenticated.
ReadCode(r, c) ==
  /\ req[r].phase = "idle"
  /\ codes[c].state # "unused"
  /\ Goes(r, [Idle EXCEPT !.kind = "exchange", !.phase = "read", !.user = codes[c].user,
                          !.code = c, !.row = codes[c], !.seen = codes[c].seen])
  /\ UNCHANGED <<storeVars, account, codes, source, unswept, detected, excused>>

\* The reuse is audited, and nothing is revoked.
DetectReuseOnly(r) ==
  LET q == req[r] IN
  /\ At(r, "exchange", "read")
  /\ q.row.state = "consumed"
  /\ detected' = detected \cup {q.code}
  /\ excused' = IF q.row.session = NoSession THEN excused \cup {q.code} ELSE excused
  /\ Finish(r)
  /\ UNCHANGED <<storeVars, account, codes, source, unswept>>

\* The row read was consumed: the session it names, if it names one, is
\* revoked.  An error of revokeById is swallowed.
DetectReuse(r) ==
  LET q == req[r] IN
  /\ At(r, "exchange", "read")
  /\ q.row.state = "consumed"
  /\ detected' = detected \cup {q.code}
  /\ \/ q.row.session # NoSession /\ RevokeById(q.row.session) /\ UNCHANGED excused
     \/ excused' = excused \cup {q.code} /\ UNCHANGED storeVars
  /\ Finish(r)
  /\ UNCHANGED <<account, codes, source, unswept>>

\* The row read was open and has not expired; redirect_uri and the code
\* verifier match.
CheckCode(r) ==
  LET q == req[r] IN
  /\ At(r, "exchange", "read")
  /\ q.row.state = "open" /\ ~codes[q.code].expired
  /\ Goes(r, [q EXCEPT !.phase = "checked"])
  /\ UNCHANGED <<storeVars, account, codes, source, unswept, detected, excused>>

\* updateMany without `consumedAt: null`: the count is never 0.
ConsumeAnyway(r) ==
  LET q == req[r] IN
  /\ At(r, "exchange", "checked")
  /\ codes' = [codes EXCEPT ![q.code].state = "consumed"]
  /\ Goes(r, [q EXCEPT !.phase = "consumed"])
  /\ UNCHANGED <<storeVars, account, source, unswept, detected, excused>>

\* The code is marked consumed, unless another exchange has done so since.
Consume(r) ==
  LET q == req[r] IN
  /\ At(r, "exchange", "checked")
  /\ IF codes[q.code].state = "open"
       THEN /\ codes' = [codes EXCEPT ![q.code].state = "consumed"]
            /\ Goes(r, [q EXCEPT !.phase = "consumed"])
       ELSE Finish(r) /\ UNCHANGED codes
  /\ UNCHANGED <<storeVars, account, source, unswept, detected, excused>>

\* findById, which throws for nobody here, and createWithId
OpenDerivedSession(r) ==
  LET q == req[r] IN
  /\ At(r, "exchange", "consumed")
  /\ issued < MaxTokens
  /\ \E s \in SessionIds :
       /\ InsertSession(s, q.user)
       /\ source' = [source EXCEPT ![s] =
            [code |-> q.code, seen |-> q.seen, resets |-> account[q.user].resets]]
       /\ Goes(r, [q EXCEPT !.phase = "created", !.session = s])
  /\ UNCHANGED <<account, codes, unswept, detected, excused>>

\* The code learns which session it gave; the tokens go to the client.
RecordSession(r) ==
  /\ At(r, "exchange", "created")
  /\ codes' = [codes EXCEPT ![req[r].code].session = req[r].session]
  /\ Finish(r)
  /\ UNCHANGED <<storeVars, account, source, unswept, detected, excused>>

\* OidcService.refresh, second statement
RotateDerived(r) ==
  /\ At(r, "refresh", "found")
  /\ issued < MaxTokens
  /\ RotateSession(req[r].session)
  /\ Finish(r)
  /\ UNCHANGED <<account, codes, source, unswept, detected, excused>>

\* OidcService.resolveLogout: whatever session the cookie opens.
OidcLogout(t) ==
  /\ RevokeByToken(t)
  /\ UNCHANGED <<account, codes, req, source, unswept, detected, excused>>

-----------------------------------------------------------------------------
\* AdminService.resetPassword, in its two statements
ResetPassword(r, u) ==
  /\ req[r].phase = "idle"
  /\ account[u].resets < MaxResets
  /\ account' = [account EXCEPT ![u].mustChange = TRUE, ![u].resets = @ + 1]
  /\ unswept' = unswept \cup {u}
  /\ Goes(r, [Idle EXCEPT !.kind = "reset", !.phase = "written", !.user = u])
  /\ UNCHANGED <<storeVars, codes, source, detected, excused>>

RevokeSessions(r) ==
  /\ At(r, "reset", "written")
  /\ RevokeAll(req[r].user)
  /\ unswept' = unswept \ {req[r].user}
  /\ Finish(r)
  /\ UNCHANGED <<account, codes, source, detected, excused>>

\* completarCambioClave: the owner chooses a password.
ClearMark(u) ==
  /\ account[u].active /\ account[u].mustChange
  /\ account' = [account EXCEPT ![u].mustChange = FALSE]
  /\ UNCHANGED <<storeVars, codes, req, source, unswept, detected, excused>>

UpdateActive(u, flag) ==
  /\ account[u].active # flag
  /\ account' = [account EXCEPT ![u].active = flag]
  /\ UNCHANGED <<storeVars, codes, req, source, unswept, detected, excused>>

\* A check refuses the request, or a statement throws.
Abandon(r) ==
  /\ req[r].phase # "idle"
  /\ Finish(r)
  /\ UNCHANGED <<storeVars, account, codes, source, unswept, detected, excused>>

-----------------------------------------------------------------------------
Next ==
  \/ \E u \in Users : PortalLogin(u) \/ ClearMark(u)
  \/ \E u \in Users, flag \in BOOLEAN : UpdateActive(u, flag)
  \/ \E r \in Requests, u \in Users : ResolveByAccessToken(r, u) \/ ResetPassword(r, u)
  \/ \E r \in Requests, kind \in {"authorize", "refresh"} : SessionFound(r, kind)
  \/ \E r \in Requests, c \in CodeIds : IssueAuthorizationCode(r, c) \/ ReadCode(r, c)
  \/ \E r \in Requests :
       \/ ResolveByRefreshToken(r)
       \/ DetectReuse(r) \/ CheckCode(r) \/ Consume(r) \/ OpenDerivedSession(r) \/ RecordSession(r)
       \/ RotateDerived(r) \/ RevokeSessions(r) \/ Abandon(r)
  \/ \E c \in CodeIds : ExpireCode(c)
  \/ \E t \in 1 .. issued : OidcLogout(t)

Spec == Init /\ [][Next]_vars

-----------------------------------------------------------------------------
(***************************************************************************)
(* Properties.                                                             *)
(***************************************************************************)

\* A code gives one session at most, however many exchanges race
\* (exchangeAuthorizationCode, "bloquea doble canje en carrera").
OneSessionPerCode ==
  \A s, t \in SessionIds :
    source[s].code # NoCode /\ source[s].code = source[t].code => s = t

\* A reuse answered after the exchange had recorded its session leaves that
\* session dead for good: rotations in flight do not bring it back.
ReuseKillsRecordedSession ==
  \A c \in detected \ excused, s \in SessionIds :
    source[s].code = c => ~Live(s)

\* While an account must change its password and its sessions were swept,
\* its sessions come from codes whose owner had been seen unmarked before
\* the reset: neither a session still alive between the two statements of
\* the reset nor anything later yields a code that opens one
\* (resolveSsoContext, "sin SSO hasta que elija una propia").
MarkedAccountsHoldEarlyCodes ==
  \A s \in SessionIds :
    LET u == sessions[s].user IN
    Live(s) /\ account[u].mustChange /\ u \notin unswept =>
      source[s].resets = account[u].resets /\ source[s].seen < account[u].resets

\* schema.prisma, AuthorizationCode: "Sesión emitida en el canje — para
\* revocar tokens derivados si hay reuso".  Once a reuse was answered, no
\* session derived from the code is live.
ReuseRevokesDerivedSession ==
  \A c \in detected, s \in SessionIds : source[s].code = c => ~Live(s)

\* schema.prisma, mustChangePassword: "Mientras esté activa no se emiten
\* sesiones: ni por passkey ni por SSO de servicios".
NoSessionWhileMustChange ==
  [][\A s \in SessionIds :
       sessions[s].state = "unused" /\ Live(s)' =>
         ~account[sessions'[s].user].mustChange]_vars
=============================================================================
