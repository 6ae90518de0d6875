------------------------------ MODULE Sessions ------------------------------
(***************************************************************************)
(* The life of a refresh token: browsers that keep one in a cookie, the    *)
(* requests they send with it (POST /auth/refresh, POST /auth/logout,      *)
(* DELETE /auth/sessions/all), an administrator's forced logout, the daily *)
(* clean-up and the clock.                                                 *)
(*                                                                         *)
(* A request is cut at every `await` that reads or writes the database, so *)
(* any two requests interleave there.  The answer travels apart from the   *)
(* work: it may be lost, and two answers may arrive in the other order.    *)
(***************************************************************************)
EXTENDS SessionStore, FiniteSets

CONSTANTS
  Clients,           \* browsers, each used by one account
  Owner,             \* the account of each browser
  Requests,          \* requests that may be in flight at once
  NoSession,         \* the session of a request that has found none yet
  AccessExpiry,      \* JWT_ACCESS_EXPIRY, in ticks
  MaxRequestTicks,   \* bound: the longest a request stays in flight
  MaxTokens          \* bound: how many refresh tokens are generated

ASSUME SessionsAssumption ==
  /\ Clients # {}
  /\ Owner \in [Clients -> Users]
  /\ NoSession \notin SessionIds
  /\ AccessExpiry \in Nat
  /\ MaxRequestTicks \in Nat
  /\ MaxTokens \in Nat
  /\ RefreshExpiry >= AccessExpiry + MaxRequestTicks
  /\ RevokedRetention >= AccessExpiry + MaxRequestTicks

VARIABLES
  active,    \* User.isActive
  jar,       \* the refresh_token cookie of each browser
  access,    \* time left on the newest access token signed for each browser
  orderly,   \* history: the browser never had two requests in flight at once
             \* and got every answer
  req        \* the requests

vars == <<sessions, issued, active, jar, access, orderly, req>>

-----------------------------------------------------------------------------
Kind  == {"refresh", "logout", "logoutAll"}
Phase == {"idle", "sent", "found", "rotated", "signed", "revoked"}

Request == [ kind    : Kind,
             phase   : Phase,
             client  : Clients,
             token   : Nat,                          \* the cookie it carries
             session : SessionIds \cup {NoSession},  \* what findValidSession gave;
                                                     \* history in a logout: the
                                                     \* session it means to close
             answer  : Nat,                          \* what rotate gave
             age     : 0 .. MaxRequestTicks ]

\* A refresh that got past findValidSession
Working(q) == q.phase \in {"found", "rotated", "signed"}

TypeOK ==
  /\ StoreTypeOK
  /\ active \in [Users -> BOOLEAN]
  /\ jar \in [Clients -> Nat]
  /\ access \in [Clients -> 0 .. AccessExpiry]
  /\ orderly \in [Clients -> BOOLEAN]
  /\ req \in [Requests -> Request]
  /\ \A r \in Requests : Working(req[r]) => req[r].session # NoSession

Idle == [kind |-> "refresh", phase |-> "idle", client |-> CHOOSE c \in Clients : TRUE,
         token |-> NoToken, session |-> NoSession, answer |-> NoToken, age |-> 0]

Init ==
  /\ StoreInit
  /\ active  = [u \in Users |-> TRUE]
  /\ jar     = [c \in Clients |-> NoToken]
  /\ access  = [c \in Clients |-> 0]
  /\ orderly = [c \in Clients |-> TRUE]
  /\ req     = [r \in Requests |-> Idle]

InFlight(c) == {r \in Requests : req[r].phase # "idle" /\ req[r].client = c}

\* A request that may still ask for a token: the bound on tokens counts it.
Pending == {r \in Requests : req[r].kind = "refresh" /\ req[r].phase \in {"sent", "found"}}

At(r, kinds, phase) == req[r].kind \in kinds /\ req[r].phase = phase

-----------------------------------------------------------------------------
\* A completed login of any kind: issueTokenPair signs an access token and
\* inserts a session, and the answer sets both cookies.
Login(c) ==
  /\ active[Owner[c]]
  /\ issued + Cardinality(Pending) < MaxTokens
  /\ \E s \in SessionIds : InsertSession(s, Owner[c])
  /\ jar' = [jar EXCEPT ![c] = FreshToken]
  /\ access' = [access EXCEPT ![c] = AccessExpiry]
  /\ orderly' = [orderly EXCEPT ![c] = @ /\ InFlight(c) = {}]
  /\ UNCHANGED <<active, req>>

\* The session the cookie of c opens at this instant
CurrentSession(c) ==
  IF \E s \in SessionIds : HasToken(s, jar[c])
    THEN CHOOSE s \in SessionIds : HasToken(s, jar[c])
    ELSE NoSession

\* The browser sends a request with the cookie it has now.
Send(r, c, kind) ==
  /\ req[r].phase = "idle"
  /\ jar[c] # NoToken
  /\ kind = "refresh" => issued + Cardinality(Pending) < MaxTokens
  /\ req' = [req EXCEPT ![r] =
       [kind |-> kind, phase |-> "sent", client |-> c, token |-> jar[c],
        session |-> IF kind = "refresh" THEN NoSession ELSE CurrentSession(c),
        answer |-> NoToken, age |-> 0]]
  /\ orderly' = [orderly EXCEPT ![c] = @ /\ InFlight(c) = {}]
  /\ UNCHANGED <<storeVars, active, jar, access>>

\* refresh, first read: the session of the token, if it is valid now.
Find(r) ==
  /\ At(r, {"refresh"}, "sent")
  /\ \E s \in SessionIds :
       /\ FindValidSession(req[r].token, s, active)
       /\ req' = [req EXCEPT ![r] = [@ EXCEPT !.phase = "found", !.session = s]]
  /\ UNCHANGED <<storeVars, active, jar, access, orderly>>

\* 401: no valid session has this token.  The cookies stay as they are.
FindFails(r) ==
  /\ At(r, {"refresh"}, "sent")
  /\ ~ \E s \in SessionIds : FindValidSession(req[r].token, s, active)
  /\ req' = [req EXCEPT ![r] = Idle]
  /\ UNCHANGED <<storeVars, active, jar, access, orderly>>

\* refresh, the write: whatever became of the session since it was found.
Rotate(r) ==
  /\ At(r, {"refresh"}, "found")
  /\ RotateSession(req[r].session)
  /\ req' = [req EXCEPT ![r] = [@ EXCEPT !.phase = "rotated", !.answer = FreshToken]]
  /\ UNCHANGED <<active, jar, access, orderly>>

\* The clean-up deleted the row in between: `update` throws, 500.
RotateFails(r) ==
  /\ At(r, {"refresh"}, "found")
  /\ ~ Stored(req[r].session)
  /\ req' = [req EXCEPT ![r] = Idle]
  /\ UNCHANGED <<storeVars, active, jar, access, orderly>>

\* After reading the account's services, the access token is signed, from
\* the user read together with the session.
SignAccess(r) ==
  /\ At(r, {"refresh"}, "rotated")
  /\ req' = [req EXCEPT ![r].phase = "signed"]
  /\ access' = [access EXCEPT ![req[r].client] = AccessExpiry]
  /\ UNCHANGED <<storeVars, active, jar, orderly>>

\* logout and revokeAllSessions, behind JwtGuard: the access token must be
\* good and the account active.
Revoke(r) ==
  /\ At(r, {"logout", "logoutAll"}, "sent")
  /\ access[req[r].client] > 0 /\ active[Owner[req[r].client]]
  /\ IF req[r].kind = "logout" THEN RevokeByToken(req[r].token)
                               ELSE RevokeAll(Owner[req[r].client])
  /\ req' = [req EXCEPT ![r].phase = "revoked"]
  /\ UNCHANGED <<active, jar, access, orderly>>

\* JwtGuard refuses: nothing is revoked and no cookie is cleared.
RevokeRefused(r) ==
  /\ At(r, {"logout", "logoutAll"}, "sent")
  /\ ~ (access[req[r].client] > 0 /\ active[Owner[req[r].client]])
  /\ req' = [req EXCEPT ![r] = Idle]
  /\ UNCHANGED <<storeVars, active, jar, access, orderly>>

\* The browser's cookie after the answer: setTokenCookies, clearTokenCookies
CookieAfter(r) == IF req[r].kind = "refresh" THEN req[r].answer ELSE NoToken

\* The answer reaches the browser.
Deliver(r) ==
  /\ req[r].phase \in {"signed", "revoked"}
  /\ jar' = [jar EXCEPT ![req[r].client] = CookieAfter(r)]
  /\ req' = [req EXCEPT ![r] = Idle]
  /\ UNCHANGED <<storeVars, active, access, orderly>>

\* The answer is lost, or a read after the rotation failed and there is none.
Lose(r) ==
  /\ req[r].phase \in {"rotated", "signed", "revoked"}
  /\ orderly' = [orderly EXCEPT ![req[r].client] = FALSE]
  /\ req' = [req EXCEPT ![r] = Idle]
  /\ UNCHANGED <<storeVars, active, jar, access>>

-----------------------------------------------------------------------------
\* AdminService.forceLogout
ForceLogout(u) ==
  /\ RevokeAll(u)
  /\ UNCHANGED <<active, jar, access, orderly, req>>

\* UsersService.update of isActive: it touches no session
SetActive(u, flag) ==
  /\ active[u] # flag
  /\ active' = [active EXCEPT ![u] = flag]
  /\ UNCHANGED <<storeVars, jar, access, orderly, req>>

\* The cron job of 3:00
Cleanup ==
  /\ CleanupExpiredSessions
  /\ UNCHANGED <<active, jar, access, orderly, req>>

AdvanceTime ==
  /\ \A r \in Requests : req[r].phase # "idle" => req[r].age < MaxRequestTicks
  /\ SessionsAge
  /\ access' = [c \in Clients |-> IF access[c] > 0 THEN access[c] - 1 ELSE 0]
  /\ req' = [r \in Requests |->
       IF req[r].phase = "idle" THEN req[r] ELSE [req[r] EXCEPT !.age = @ + 1]]
  /\ UNCHANGED <<active, jar, orderly>>

-----------------------------------------------------------------------------
\* What the server and the network do for a request that was sent
Serve(r) ==
  \/ Find(r) \/ FindFails(r)
  \/ Rotate(r) \/ RotateFails(r)
  \/ SignAccess(r)
  \/ Revoke(r) \/ RevokeRefused(r)
  \/ Deliver(r) \/ Lose(r)

Next ==
  \/ \E c \in Clients : Login(c)
  \/ \E r \in Requests, c \in Clients, k \in Kind : Send(r, c, k)
  \/ \E r \in Requests : Serve(r)
  \/ \E u \in Users : ForceLogout(u)
  \/ \E u \in Users, flag \in BOOLEAN : SetActive(u, flag)
  \/ Cleanup
  \/ AdvanceTime

Spec == Init /\ [][Next]_vars

\* Time passes, the job runs every day, and a request that was sent is served.
Fairness ==
  /\ WF_vars(AdvanceTime)
  /\ WF_vars(Cleanup)
  /\ \A r \in Requests : WF_vars(Serve(r))

FairSpec == Spec /\ Fairness

-----------------------------------------------------------------------------
(***************************************************************************)
(* Properties.                                                             *)
(***************************************************************************)

\* A revoked session is never valid again: it stays revoked until the
\* clean-up deletes it, and a deleted id never comes back, whatever
\* rotation was in flight when it was revoked (sessions.service rotate
\* addresses the row by id and does not look at revokedAt).
RevocationIsFinal ==
  [][\A s \in SessionIds :
       /\ Revoked(s) => sessions'[s].state \in {"revoked", "deleted"}
       /\ sessions[s].state = "deleted" => sessions'[s].state = "deleted"]_vars

\* Holding a session means being about to rotate it or having done so.
Holds(r, s) == Working(req[r]) /\ req[r].session = s

\* Whoever still works on a revoked session was there before it was revoked:
\* the check of findValidSession may be overtaken by a logout or a
\* revokeAll, but nobody gets in after one.
LateWorkersCameEarly ==
  \A r \in Requests, s \in SessionIds :
    Holds(r, s) /\ Revoked(s) => req[r].age >= sessions[s].revokedFor

\* The exposure of a stateless access token: while one is good, a session of
\* its account is still stored and expires no sooner, and if that session was
\* revoked, the token cannot outlive the revocation by more than its own life
\* plus the time one refresh spends in flight.
Backs(s, c) ==
  /\ Stored(s)
  /\ sessions[s].user = Owner[c]
  /\ sessions[s].left >= access[c]
  /\ Revoked(s) => sessions[s].revokedFor + access[c] <= AccessExpiry + MaxRequestTicks

AccessIsBackedBySession ==
  \A c \in Clients : access[c] > 0 => \E s \in SessionIds : Backs(s, c)

\* A browser that sends one request at a time and gets every answer is never
\* left with a superseded token: whenever it is quiet, its cookie is the
\* current token of some row, even if that row is revoked or deleted by now.
CookieFollowsRotation ==
  \A c \in Clients :
    orderly[c] /\ InFlight(c) = {} /\ jar[c] # NoToken =>
      \E s \in SessionIds : sessions[s].tokenHash = HashToken(jar[c])

\* A row that no request may use again is eventually deleted, although
\* rotations in flight may still push its expiry forward.
DeadRowsArePurged ==
  \A s \in SessionIds :
    Revoked(s) \/ (Live(s) /\ Expired(s))
      ~> ~Stored(s) \/ (Live(s) /\ ~Expired(s))

\* Sessions implements the ledger of tokens.
GoodTokens == {t \in 1 .. issued : \E s \in SessionIds : HasToken(s, t) /\ Live(s)}

Ledger == INSTANCE TokenLedger WITH good <- GoodTokens

LedgerSpec == Ledger!Spec

\* POST /auth/logout, "Cierra la sesión actual": when the logout is answered,
\* the session its cookie opened when it was sent is not live.
LogoutClosesTheSession ==
  \A r \in Requests :
    At(r, {"logout"}, "revoked") /\ req[r].session # NoSession => ~Live(req[r].session)
=============================================================================
