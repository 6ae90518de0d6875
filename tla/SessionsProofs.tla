--------------------------- MODULE SessionsProofs ---------------------------
(***************************************************************************)
(* Proofs about Sessions, for every set of accounts, browsers, sessions    *)
(* and requests and every value of the durations.                          *)
(***************************************************************************)
EXTENDS Sessions, SessionStoreProofs

USE StoreAssumption, SessionsAssumption

-----------------------------------------------------------------------------
(* Type correctness. *)

LEMMA IdleType == Idle \in Request /\ ~Working(Idle)
BY DEF Idle, Request, Kind, Phase, NoToken, Working

LEMMA InitType == Init => TypeOK
<1>1. UnusedRow \in SessionRow
  BY DEF UnusedRow, SessionRow, HashToken, NoToken
<1>2. QED
  BY <1>1, IdleType DEF Init, StoreInit, TypeOK, StoreTypeOK, NoToken

\* A request record with a field changed is a request record.
LEMMA RequestFields ==
  ASSUME NEW q \in Request
  PROVE  /\ \A p \in Phase : [q EXCEPT !.phase = p] \in Request
         /\ \A s \in SessionIds : [q EXCEPT !.session = s] \in Request
         /\ \A t \in Nat : [q EXCEPT !.answer = t] \in Request
         /\ \A n \in 0 .. MaxRequestTicks : [q EXCEPT !.age = n] \in Request
BY DEF Request

THEOREM TypeCorrect == Spec => []TypeOK
<1>1. TypeOK /\ [Next]_vars => TypeOK'
  <2> SUFFICES ASSUME TypeOK, [Next]_vars
               PROVE  TypeOK'
    OBVIOUS
  <2> USE IdleType DEF TypeOK
  <2>1. ASSUME NEW c \in Clients, Login(c)
        PROVE  TypeOK'
    <3>1. Owner[c] \in Users /\ FreshToken \in Nat
      BY DEF StoreTypeOK, FreshToken
    <3>2. StoreTypeOK'
      BY <2>1, <3>1, InsertType DEF Login
    <3>3. QED
      BY <2>1, <3>1, <3>2 DEF Login
  <2>2. ASSUME NEW r \in Requests, NEW c \in Clients, NEW k \in Kind, Send(r, c, k)
        PROVE  TypeOK'
    <3>1. CurrentSession(c) \in SessionIds \cup {NoSession}
      BY DEF CurrentSession
    <3>2. StoreTypeOK'
      BY <2>2 DEF Send, StoreTypeOK, storeVars
    <3>3. [kind |-> k, phase |-> "sent", client |-> c, token |-> jar[c],
           session |-> IF k = "refresh" THEN NoSession ELSE CurrentSession(c),
           answer |-> NoToken, age |-> 0] \in Request
      BY <3>1 DEF Request, Phase, NoToken
    <3>4. QED
      BY <2>2, <3>2, <3>3 DEF Send, Working
  <2>3. ASSUME NEW r \in Requests, Serve(r)
        PROVE  TypeOK'
    <3> req[r] \in Request /\ req[r].client \in Clients /\ req[r].answer \in Nat
      BY DEF Request
    <3>1. CASE Find(r)
      <4>1. PICK s \in SessionIds :
              req' = [req EXCEPT ![r] = [@ EXCEPT !.phase = "found", !.session = s]]
        BY <3>1 DEF Find
      <4> DEFINE new == [req[r] EXCEPT !.phase = "found", !.session = s]
      <4>2. new \in Request /\ new.session # NoSession
        <5>1. [req[r] EXCEPT !.phase = "found"] \in Request
          BY RequestFields DEF Phase
        <5>2. new \in Request
          BY <5>1, RequestFields
        <5>3. new.session = s
          BY DEF Request
        <5>4. QED
          BY <5>2, <5>3
      <4>3. req' = [req EXCEPT ![r] = new]
        BY <4>1
      <4> HIDE DEF new
      <4>4. QED
        BY <3>1, <4>2, <4>3 DEF Find, StoreTypeOK, storeVars
    <3>2. CASE Rotate(r)
      <4>1. req[r].session \in SessionIds
        BY <3>2 DEF Rotate, At, Request, Working
      <4>2. StoreTypeOK' /\ FreshToken \in Nat
        BY <3>2, <4>1, RotateType DEF Rotate, StoreTypeOK, FreshToken
      <4> DEFINE new == [req[r] EXCEPT !.phase = "rotated", !.answer = FreshToken]
      <4>3. new \in Request /\ new.session # NoSession
        <5>1. [req[r] EXCEPT !.phase = "rotated"] \in Request
          BY RequestFields DEF Phase
        <5>2. new \in Request
          BY <4>2, <5>1, RequestFields
        <5>3. new.session = req[r].session
          BY DEF Request
        <5>4. QED
          BY <4>1, <5>2, <5>3
      <4>4. req' = [req EXCEPT ![r] = new]
        BY <3>2 DEF Rotate
      <4> HIDE DEF new
      <4>5. QED
        BY <3>2, <4>2, <4>3, <4>4 DEF Rotate
    <3>3. CASE SignAccess(r)
      <4> DEFINE new == [req[r] EXCEPT !.phase = "signed"]
      <4>1. new \in Request /\ new.session # NoSession
        <5>1. new \in Request
          BY RequestFields DEF Phase
        <5>2. req[r].session # NoSession
          BY <3>3 DEF SignAccess, At, Working
        <5>3. QED
          BY <5>1, <5>2
      <4>2. req' = [req EXCEPT ![r] = new]
        BY <3>3 DEF SignAccess
      <4> HIDE DEF new
      <4>3. StoreTypeOK' /\ access' \in [Clients -> 0 .. AccessExpiry]
        BY <3>3 DEF SignAccess, StoreTypeOK, storeVars
      <4>4. QED
        BY <3>3, <4>1, <4>2, <4>3 DEF SignAccess
    <3>4. CASE Revoke(r)
      <4>1. StoreTypeOK'
        BY <3>4, RevokeType DEF Revoke, RevokeByToken, RevokeAll
      <4> DEFINE new == [req[r] EXCEPT !.phase = "revoked"]
      <4>2. new \in Request /\ ~Working(new)
        <5>1. new.phase = "revoked"
          BY DEF Request
        <5>2. QED
          BY <5>1, RequestFields DEF Phase, Working
      <4>3. req' = [req EXCEPT ![r] = new]
        BY <3>4 DEF Revoke
      <4> HIDE DEF new
      <4>4. QED
        BY <3>4, <4>1, <4>2, <4>3 DEF Revoke
    <3>5. CASE FindFails(r) \/ RotateFails(r) \/ RevokeRefused(r)
      BY <3>5 DEF FindFails, RotateFails, RevokeRefused, StoreTypeOK, storeVars
    <3>6. CASE Deliver(r) \/ Lose(r)
      <4>1. CookieAfter(r) \in Nat
        BY DEF CookieAfter, NoToken
      <4>2. QED
        <5>1. CASE Deliver(r)
          BY <4>1, <5>1 DEF Deliver, StoreTypeOK, storeVars
        <5>2. CASE Lose(r)
          BY <5>2 DEF Lose, StoreTypeOK, storeVars
        <5>3. QED
          BY <3>6, <5>1, <5>2
    <3>7. QED
      BY <2>3, <3>1, <3>2, <3>3, <3>4, <3>5, <3>6 DEF Serve
  <2>4. ASSUME NEW u \in Users, ForceLogout(u)
        PROVE  TypeOK'
    BY <2>4, RevokeType DEF ForceLogout, RevokeAll
  <2>5. ASSUME NEW u \in Users, NEW flag \in BOOLEAN, SetActive(u, flag)
        PROVE  TypeOK'
    BY <2>5 DEF SetActive, StoreTypeOK, storeVars
  <2>6. CASE Cleanup
    BY <2>6, CleanupType DEF Cleanup
  <2>7. CASE AdvanceTime
    <3>1. StoreTypeOK'
      BY <2>7, AgeType DEF AdvanceTime
    <3>2. req' \in [Requests -> Request]
      <4>1. ASSUME NEW r \in Requests, req[r].phase # "idle"
            PROVE  [req[r] EXCEPT !.age = @ + 1] \in Request
        <5>1. req[r] \in Request /\ req[r].age + 1 \in 0 .. MaxRequestTicks
          BY <2>7, <4>1 DEF AdvanceTime, Request
        <5>2. QED
          BY <5>1, RequestFields
      <4>2. QED
        BY <2>7, <4>1 DEF AdvanceTime
    <3>3. \A r \in Requests :
            req'[r].phase = req[r].phase /\ req'[r].session = req[r].session
      BY <2>7 DEF AdvanceTime, Request
    <3>4. QED
      BY <2>7, <3>1, <3>2, <3>3 DEF AdvanceTime, Working
  <2>8. CASE UNCHANGED vars
    BY <2>8 DEF vars, StoreTypeOK
  <2>9. QED
    BY <2>1, <2>2, <2>3, <2>4, <2>5, <2>6, <2>7, <2>8 DEF Next
<1>2. QED
  BY <1>1, InitType, PTL DEF Spec

-----------------------------------------------------------------------------
(* What a step of Sessions does to the table. *)

LEMMA TableStep ==
  ASSUME TypeOK, [Next]_vars
  PROVE  \/ UNCHANGED storeVars
         \/ \E s \in SessionIds, u \in Users : InsertSession(s, u)
         \/ \E s \in SessionIds : RotateSession(s)
         \/ \E S \in SUBSET SessionIds : RevokeRows(S)
         \/ CleanupExpiredSessions
         \/ AdvanceTime /\ SessionsAge
<1>1. ASSUME NEW c \in Clients, Login(c)
      PROVE  \E s \in SessionIds, u \in Users : InsertSession(s, u)
  BY <1>1 DEF Login
<1>2. ASSUME NEW r \in Requests, Rotate(r)
      PROVE  \E s \in SessionIds : RotateSession(s)
  <2>1. req[r].session \in SessionIds
    BY <1>2 DEF Rotate, At, TypeOK, Request, Working
  <2>2. QED
    BY <1>2, <2>1 DEF Rotate
<1>3. ASSUME NEW r \in Requests, Revoke(r)
      PROVE  \E S \in SUBSET SessionIds : RevokeRows(S)
  BY <1>3 DEF Revoke, RevokeByToken, RevokeAll
<1>4. ASSUME NEW u \in Users, ForceLogout(u)
      PROVE  \E S \in SUBSET SessionIds : RevokeRows(S)
  BY <1>4 DEF ForceLogout, RevokeAll
<1>5. CASE UNCHANGED vars
  BY <1>5 DEF vars, storeVars
<1>6. ASSUME NEW r \in Requests, Serve(r)
      PROVE  UNCHANGED storeVars \/ Rotate(r) \/ Revoke(r)
  BY <1>6 DEF Serve, Find, FindFails, RotateFails, SignAccess, RevokeRefused, Deliver, Lose
<1>7. QED
  BY <1>1, <1>2, <1>3, <1>4, <1>5, <1>6
  DEF Next, Send, SetActive, Cleanup, AdvanceTime

\* The table's part of RevocationIsFinal
THEOREM RevocationFinal == Spec => RevocationIsFinal
<1>1. ASSUME TypeOK, [Next]_vars, NEW s \in SessionIds
      PROVE  /\ Revoked(s) => sessions'[s].state \in {"revoked", "deleted"}
             /\ sessions[s].state = "deleted" => sessions'[s].state = "deleted"
  <2> sessions \in [SessionIds -> SessionRow] /\ sessions[s] \in SessionRow
    BY <1>1 DEF TypeOK, StoreTypeOK
  <2>1. CASE UNCHANGED storeVars
    BY <2>1 DEF storeVars, Revoked
  <2>2. ASSUME NEW i \in SessionIds, NEW u \in Users, InsertSession(i, u)
        PROVE  sessions[s].state # "unused" => sessions'[s] = sessions[s]
    BY <2>2 DEF InsertSession
  <2>3. ASSUME NEW i \in SessionIds, RotateSession(i)
        PROVE  sessions'[s].state = sessions[s].state
    BY <2>3 DEF RotateSession, SessionRow
  <2>4. ASSUME NEW S \in SUBSET SessionIds, RevokeRows(S)
        PROVE  ~Live(s) => sessions'[s] = sessions[s]
    BY <2>4 DEF RevokeRows
  <2>5. ASSUME CleanupExpiredSessions
        PROVE  sessions'[s].state \in {sessions[s].state, "deleted"}
    BY <2>5 DEF CleanupExpiredSessions, SessionRow
  <2>6. ASSUME SessionsAge
        PROVE  sessions'[s].state = sessions[s].state
    BY <2>6 DEF SessionsAge, SessionRow
  <2>7. QED
    BY <1>1, <2>1, <2>2, <2>3, <2>4, <2>5, <2>6, TableStep DEF Revoked, Live
<1>2. TypeOK /\ [Next]_vars =>
        [\A s \in SessionIds :
           /\ Revoked(s) => sessions'[s].state \in {"revoked", "deleted"}
           /\ sessions[s].state = "deleted" => sessions'[s].state = "deleted"]_vars
  BY <1>1
<1>3. QED
  BY <1>2, TypeCorrect, PTL DEF Spec, RevocationIsFinal

-----------------------------------------------------------------------------
(* Tokens are fresh: every row ever inserted carries a token that was      *)
(* generated, and no two rows carry the same one.                          *)

TokenOf(s) == sessions[s].tokenHash.sha256

TokensAreFresh ==
  /\ \A s \in SessionIds : Used(s) => TokenOf(s) \in 1 .. issued
  /\ \A s, t \in SessionIds : Used(s) /\ Used(t) /\ TokenOf(s) = TokenOf(t) => s = t

\* The statements that generate no token change no row's token, insert no row
\* and bring none back to life.
LEMMA TokensKept ==
  ASSUME TypeOK,
         \/ \E S \in SUBSET SessionIds : RevokeRows(S)
         \/ CleanupExpiredSessions
         \/ SessionsAge
  PROVE  /\ issued' = issued
         /\ \A s \in SessionIds : /\ TokenOf(s)' = TokenOf(s)
                                  /\ Used(s)' <=> Used(s)
                                  /\ Live(s)' => Live(s)
<1> SUFFICES ASSUME NEW s \in SessionIds
             PROVE  /\ sessions'[s].tokenHash = sessions[s].tokenHash
                    /\ sessions'[s].state # "unused" <=> sessions[s].state # "unused"
                    /\ sessions'[s].state = "live" => sessions[s].state = "live"
  BY DEF TokenOf, Used, Live, RevokeRows, CleanupExpiredSessions, SessionsAge
<1>1. sessions[s] \in SessionRow
  BY DEF TypeOK, StoreTypeOK
<1>2. ASSUME NEW S \in SUBSET SessionIds, RevokeRows(S)
      PROVE  \/ sessions'[s] = sessions[s]
             \/ /\ Live(s)
                /\ sessions'[s] = [sessions[s] EXCEPT !.state = "revoked", !.revokedFor = 0]
  BY <1>2 DEF RevokeRows
<1>3. ASSUME CleanupExpiredSessions
      PROVE  \/ sessions'[s] = sessions[s]
             \/ /\ Stored(s)
                /\ sessions'[s] = [sessions[s] EXCEPT !.state = "deleted", !.left = 0,
                                                      !.revokedFor = 0]
  BY <1>3 DEF CleanupExpiredSessions, Stored
<1>4. ASSUME SessionsAge
      PROVE  \E m, n : sessions'[s] = [sessions[s] EXCEPT !.left = m, !.revokedFor = n]
  BY <1>4 DEF SessionsAge
<1>5. QED
  BY <1>1, <1>2, <1>3, <1>4 DEF SessionRow, Stored, Live, Revoked

\* Every step keeps tokens fresh: one row at most gets a token, the next one,
\* and no row becomes used without one.
LEMMA FreshStep ==
  ASSUME TypeOK, TokensAreFresh, [Next]_vars
  PROVE  TokensAreFresh'
<1> sessions \in [SessionIds -> SessionRow] /\ issued \in Nat
  BY DEF TypeOK, StoreTypeOK
<1> USE DEF TokensAreFresh, Used, TokenOf
<1>1. CASE UNCHANGED storeVars
  BY <1>1 DEF storeVars
<1>2. ASSUME NEW i \in SessionIds, issued' = issued + 1,
             TokenOf(i)' = issued + 1,
             \A s \in SessionIds \ {i} : sessions'[s] = sessions[s]
      PROVE  TokensAreFresh'
  BY <1>2
<1>3. ASSUME issued' = issued,
             \A s \in SessionIds : TokenOf(s)' = TokenOf(s) /\ (Used(s)' <=> Used(s))
      PROVE  TokensAreFresh'
  BY <1>3
<1>4. ASSUME NEW i \in SessionIds, NEW u \in Users, InsertSession(i, u)
      PROVE  TokensAreFresh'
  BY <1>2, <1>4 DEF InsertSession, HashToken, FreshToken
<1>5. ASSUME NEW i \in SessionIds, RotateSession(i)
      PROVE  TokensAreFresh'
  <2>1. sessions[i] \in SessionRow
    OBVIOUS
  <2>2. sessions'[i].tokenHash = HashToken(FreshToken)
    BY <1>5, <2>1 DEF RotateSession, SessionRow
  <2>3. QED
    BY <1>2, <1>5, <2>2 DEF RotateSession, HashToken, FreshToken
<1>6. ASSUME \/ \E S \in SUBSET SessionIds : RevokeRows(S)
             \/ CleanupExpiredSessions
             \/ SessionsAge
      PROVE  TokensAreFresh'
  BY <1>3, <1>6, TokensKept
<1>9. QED
  BY <1>1, <1>4, <1>5, <1>6, TableStep

THEOREM FreshTokens == Spec => []TokensAreFresh
<1>1. Init => TokensAreFresh
  BY DEF Init, StoreInit, UnusedRow, TokensAreFresh, Used
<1>2. TypeOK /\ TokensAreFresh /\ [Next]_vars => TokensAreFresh'
  BY FreshStep
<1>3. QED
  BY <1>1, <1>2, TypeCorrect, PTL DEF Spec

-----------------------------------------------------------------------------
(* Sessions implements TokenLedger. *)

LEMMA GoodTokenDef ==
  ASSUME TypeOK, TokensAreFresh
  PROVE  \A t : t \in GoodTokens <=> \E s \in SessionIds : Live(s) /\ TokenOf(s) = t
<1>1. ASSUME NEW s \in SessionIds, Live(s)
      PROVE  TokenOf(s) \in 1 .. issued /\ HasToken(s, TokenOf(s))
  <2>1. sessions[s].tokenHash \in [sha256 : Nat]
    BY DEF TypeOK, StoreTypeOK, SessionRow
  <2>2. sessions[s].tokenHash = HashToken(TokenOf(s))
    BY <2>1 DEF HashToken, TokenOf
  <2>3. QED
    BY <1>1, <2>2 DEF TokensAreFresh, Used, Live, HasToken, Stored
<1>2. ASSUME NEW s \in SessionIds, NEW t, HasToken(s, t)
      PROVE  TokenOf(s) = t
  BY <1>2 DEF HasToken, TokenOf, HashToken
<1>3. QED
  BY <1>1, <1>2 DEF GoodTokens

\* The same in the next state
LEMMA GoodTokenNext ==
  ASSUME TypeOK', TokensAreFresh'
  PROVE  \A t : t \in GoodTokens' <=> \E s \in SessionIds : Live(s)' /\ TokenOf(s)' = t
<1>1. ASSUME NEW s \in SessionIds, Live(s)'
      PROVE  TokenOf(s)' \in 1 .. issued' /\ HasToken(s, TokenOf(s))'
  <2>1. sessions'[s].tokenHash \in [sha256 : Nat]
    BY DEF TypeOK, StoreTypeOK, SessionRow
  <2>2. sessions'[s].tokenHash = HashToken(TokenOf(s))'
    BY <2>1 DEF HashToken, TokenOf
  <2>3. QED
    BY <1>1, <2>2 DEF TokensAreFresh, Used, Live, HasToken, Stored
<1>2. ASSUME NEW s \in SessionIds, NEW t, HasToken(s, t)'
      PROVE  TokenOf(s)' = t
  BY <1>2 DEF HasToken, TokenOf, HashToken
<1>3. QED
  BY <1>1, <1>2 DEF GoodTokens

LEMMA LedgerStep ==
  ASSUME TypeOK, TypeOK', TokensAreFresh, TokensAreFresh', [Next]_vars
  PROVE  [Ledger!Next]_<<issued, GoodTokens>>
<1> sessions \in [SessionIds -> SessionRow] /\ issued \in Nat
  BY DEF TypeOK, StoreTypeOK
<1> USE DEF Used, Live
<1>1. CASE UNCHANGED storeVars
  <2>1. sessions' = sessions /\ issued' = issued
    BY <1>1 DEF storeVars
  <2>2. GoodTokens' = GoodTokens
    BY <2>1, GoodTokenDef, GoodTokenNext DEF TokenOf
  <2>3. QED
    BY <2>1, <2>2
<1>2. ASSUME NEW i \in SessionIds, NEW u \in Users, InsertSession(i, u)
      PROVE  Ledger!Open
  <2>1. /\ sessions[i].state = "unused" /\ sessions'[i].state = "live"
        /\ TokenOf(i)' = issued + 1 /\ issued' = issued + 1
        /\ \A s \in SessionIds \ {i} : sessions'[s] = sessions[s]
    BY <1>2 DEF InsertSession, TokenOf, HashToken, FreshToken
  <2>2. \A t : t \in GoodTokens' <=> t \in GoodTokens \/ t = issued + 1
    BY <2>1, GoodTokenDef, GoodTokenNext DEF TokenOf
  <2>3. QED
    BY <2>1, <2>2 DEF Ledger!Open
<1>3. ASSUME NEW i \in SessionIds, RotateSession(i)
      PROVE  Ledger!Waste \/ \E t \in GoodTokens : Ledger!Replace(t)
  <2>1. /\ Used(i) /\ sessions'[i].state = sessions[i].state
        /\ TokenOf(i)' = issued + 1 /\ issued' = issued + 1
        /\ \A s \in SessionIds \ {i} : sessions'[s] = sessions[s]
    <3>1. sessions[i] \in SessionRow
      OBVIOUS
    <3>2. /\ sessions'[i].state = sessions[i].state
          /\ sessions'[i].tokenHash = HashToken(FreshToken)
      BY <1>3, <3>1 DEF RotateSession, SessionRow
    <3>3. QED
      BY <1>3, <3>2 DEF RotateSession, Stored, Revoked, TokenOf, HashToken, FreshToken
  <2>2. CASE Live(i)
    <3>1. TokenOf(i) \in GoodTokens
      BY <2>2, GoodTokenDef
    <3>2. \A s \in SessionIds \ {i} : Live(s) => TokenOf(s) # TokenOf(i)
      BY <2>1 DEF TokensAreFresh
    <3>3. \A t : t \in GoodTokens' <=>
                 (t \in GoodTokens /\ t # TokenOf(i)) \/ t = issued + 1
      BY <2>1, <2>2, <3>2, GoodTokenDef, GoodTokenNext DEF TokenOf
    <3>4. Ledger!Replace(TokenOf(i))
      BY <2>1, <3>1, <3>3 DEF Ledger!Replace
    <3>5. QED
      BY <3>1, <3>4
  <2>3. CASE ~Live(i)
    <3>1. \A t : t \in GoodTokens' <=> t \in GoodTokens
      BY <2>1, <2>3, GoodTokenDef, GoodTokenNext DEF TokenOf
    <3>2. QED
      BY <2>1, <3>1 DEF Ledger!Waste
  <2>4. QED
    BY <2>2, <2>3
<1>4. ASSUME \/ \E S \in SUBSET SessionIds : RevokeRows(S)
             \/ CleanupExpiredSessions
             \/ SessionsAge
      PROVE  \E T \in SUBSET GoodTokens : Ledger!Retire(T)
  <2>1. issued' = issued /\ GoodTokens' \subseteq GoodTokens
    BY <1>4, TokensKept, GoodTokenDef, GoodTokenNext
  <2>2. Ledger!Retire(GoodTokens \ GoodTokens')
    BY <2>1 DEF Ledger!Retire
  <2>3. QED
    BY <2>2
<1>5. QED
  BY <1>1, <1>2, <1>3, <1>4, TableStep DEF Ledger!Next

\* Sessions implements the ledger: a refresh token is good from its generation
\* or never, has one successor at most, and is never good again once it was
\* superseded, revoked or cleaned up.
THEOREM Refinement == Spec => LedgerSpec
<1>1. Init => Ledger!Init
  BY DEF Init, StoreInit, Ledger!Init, GoodTokens
<1>2. TypeOK /\ TypeOK' /\ TokensAreFresh /\ TokensAreFresh' /\ [Next]_vars =>
        [Ledger!Next]_<<issued, GoodTokens>>
  BY LedgerStep
<1>3. QED
  BY <1>1, <1>2, TypeCorrect, FreshTokens, PTL DEF Spec, LedgerSpec, Ledger!Spec

-----------------------------------------------------------------------------
(* Whose tokens they are: what a browser holds, sends or is sent belongs,  *)
(* wherever the table still knows it, to the account of that browser.      *)

TokenFor(t, c) ==
  /\ t <= issued
  /\ \A s \in SessionIds : Used(s) /\ TokenOf(s) = t => sessions[s].user = Owner[c]

OwnRequest(q) ==
  /\ TokenFor(q.token, q.client)
  /\ TokenFor(q.answer, q.client)
  /\ Working(q) => Used(q.session) /\ sessions[q.session].user = Owner[q.client]

OwnersMatch ==
  /\ \A c \in Clients : TokenFor(jar[c], c)
  /\ \A r \in Requests : OwnRequest(req[r])

\* A used row keeps its owner, and a token it takes is a new one.
LEMMA RowStep ==
  ASSUME TypeOK, [Next]_vars
  PROVE  /\ issued' \in {issued, issued + 1}
         /\ \A s \in SessionIds :
              Used(s) => /\ Used(s)'
                         /\ sessions'[s].user = sessions[s].user
                         /\ \/ TokenOf(s)' = TokenOf(s)
                            \/ TokenOf(s)' = issued + 1 /\ issued' = issued + 1
         /\ \A s \in SessionIds :
              ~Used(s) /\ Used(s)' => TokenOf(s)' = issued + 1 /\ issued' = issued + 1
<1> sessions \in [SessionIds -> SessionRow] /\ issued \in Nat
  BY DEF TypeOK, StoreTypeOK
<1> USE DEF Used, TokenOf
<1>1. CASE UNCHANGED storeVars
  BY <1>1 DEF storeVars
<1>2. ASSUME NEW i \in SessionIds, NEW u \in Users, InsertSession(i, u)
      PROVE  /\ issued' = issued + 1 /\ sessions[i].state = "unused"
             /\ sessions'[i].tokenHash.sha256 = issued + 1
             /\ \A s \in SessionIds \ {i} : sessions'[s] = sessions[s]
  BY <1>2 DEF InsertSession, HashToken, FreshToken
<1>3. ASSUME NEW i \in SessionIds, RotateSession(i)
      PROVE  /\ issued' = issued + 1 /\ sessions'[i].user = sessions[i].user
             /\ sessions'[i].state = sessions[i].state /\ sessions[i].state # "unused"
             /\ sessions'[i].tokenHash.sha256 = issued + 1
             /\ \A s \in SessionIds \ {i} : sessions'[s] = sessions[s]
  <2>1. sessions[i] \in SessionRow
    OBVIOUS
  <2>2. /\ sessions'[i].user = sessions[i].user
        /\ sessions'[i].state = sessions[i].state
        /\ sessions'[i].tokenHash = HashToken(FreshToken)
    BY <1>3, <2>1 DEF RotateSession, SessionRow
  <2>3. QED
    BY <1>3, <2>2 DEF RotateSession, Stored, Live, Revoked, HashToken, FreshToken
<1>4. ASSUME \/ \E S \in SUBSET SessionIds : RevokeRows(S)
             \/ CleanupExpiredSessions
             \/ SessionsAge
      PROVE  \A s \in SessionIds : sessions'[s].user = sessions[s].user
  <2> SUFFICES ASSUME NEW s \in SessionIds PROVE sessions'[s].user = sessions[s].user
    OBVIOUS
  <2>1. sessions[s] \in SessionRow
    OBVIOUS
  <2>2. ASSUME NEW S \in SUBSET SessionIds, RevokeRows(S)
        PROVE  \/ sessions'[s] = sessions[s]
               \/ sessions'[s] = [sessions[s] EXCEPT !.state = "revoked", !.revokedFor = 0]
    BY <2>2 DEF RevokeRows
  <2>3. ASSUME CleanupExpiredSessions
        PROVE  \/ sessions'[s] = sessions[s]
               \/ sessions'[s] = [sessions[s] EXCEPT !.state = "deleted", !.left = 0,
                                                     !.revokedFor = 0]
    BY <2>3 DEF CleanupExpiredSessions
  <2>4. ASSUME SessionsAge
        PROVE  \E m, n : sessions'[s] = [sessions[s] EXCEPT !.left = m, !.revokedFor = n]
    BY <2>4 DEF SessionsAge
  <2>5. QED
    BY <1>4, <2>1, <2>2, <2>3, <2>4 DEF SessionRow
<1>5. CASE \E i \in SessionIds, u \in Users : InsertSession(i, u)
  BY <1>2, <1>5
<1>6. CASE \E i \in SessionIds : RotateSession(i)
  BY <1>3, <1>6
<1>7. CASE \/ \E S \in SUBSET SessionIds : RevokeRows(S)
           \/ CleanupExpiredSessions
           \/ SessionsAge
  BY <1>4, <1>7, TokensKept
<1>8. QED
  BY <1>1, <1>5, <1>6, <1>7, TableStep

LEMMA TokenForStep ==
  ASSUME TypeOK, [Next]_vars, NEW t \in Nat, NEW c \in Clients, TokenFor(t, c)
  PROVE  TokenFor(t, c)'
BY RowStep DEF TokenFor, TypeOK, StoreTypeOK

LEMMA OwnRequestStep ==
  ASSUME TypeOK, [Next]_vars, NEW q \in Request, OwnRequest(q),
         Working(q) => q.session # NoSession
  PROVE  OwnRequest(q)'
<1>1. q.token \in Nat /\ q.answer \in Nat /\ q.client \in Clients
  BY DEF Request
<1>2. Working(q) => q.session \in SessionIds
  BY DEF Request
<1>3. QED
  BY <1>1, <1>2, TokenForStep, RowStep DEF OwnRequest

\* The token a login or a rotation generates belongs to the row's owner.
LEMMA NewTokenOwner ==
  ASSUME TypeOK, TokensAreFresh, NEW s \in SessionIds, NEW c \in Clients,
         \/ InsertSession(s, Owner[c])
         \/ RotateSession(s) /\ sessions[s].user = Owner[c]
  PROVE  /\ issued + 1 <= issued'
         /\ \A i \in SessionIds :
              Used(i)' /\ TokenOf(i)' = issued + 1 => sessions'[i].user = Owner[c]
<1> sessions \in [SessionIds -> SessionRow] /\ sessions[s] \in SessionRow /\ issued \in Nat
  BY DEF TypeOK, StoreTypeOK
<1>1. /\ issued' = issued + 1
      /\ sessions'[s].user = Owner[c]
      /\ \A i \in SessionIds \ {s} : sessions'[i] = sessions[i]
  <2>1. CASE InsertSession(s, Owner[c])
    BY <2>1 DEF InsertSession, FreshToken
  <2>2. CASE RotateSession(s) /\ sessions[s].user = Owner[c]
    BY <2>2 DEF RotateSession, FreshToken, SessionRow
  <2>3. QED
    BY <2>1, <2>2
<1>2. \A i \in SessionIds \ {s} : Used(i)' => TokenOf(i)' # issued + 1
  BY <1>1 DEF TokensAreFresh, Used, TokenOf
<1>3. QED
  BY <1>1, <1>2

\* What gives a browser another cookie
LEMMA JarChange ==
  ASSUME TypeOK, [Next]_vars, NEW c \in Clients
  PROVE  \/ jar'[c] = jar[c]
         \/ Login(c)
         \/ \E r \in Requests : Deliver(r) /\ req[r].client = c
<1>1. ASSUME NEW b \in Clients, Login(b), b # c
      PROVE  jar'[c] = jar[c]
  BY <1>1 DEF Login, TypeOK
<1>2. ASSUME NEW r \in Requests, Serve(r)
      PROVE  jar'[c] = jar[c] \/ (Deliver(r) /\ req[r].client = c)
  BY <1>2 DEF Serve, Find, FindFails, Rotate, RotateFails, SignAccess, Revoke,
              RevokeRefused, Deliver, Lose, TypeOK
<1>3. QED
  BY <1>1, <1>2 DEF Next, Send, ForceLogout, SetActive, Cleanup, AdvanceTime, vars

\* The cookies
LEMMA JarStep ==
  ASSUME TypeOK, TokensAreFresh, OwnersMatch, [Next]_vars, NEW c \in Clients
  PROVE  TokenFor(jar[c], c)'
<1>1. jar[c] \in Nat /\ TokenFor(jar[c], c)
  BY DEF TypeOK, OwnersMatch
<1>2. CASE jar'[c] = jar[c]
  BY <1>1, <1>2, TokenForStep DEF TokenFor, Used, TokenOf
<1>3. CASE Login(c)
  <2>1. PICK s \in SessionIds : InsertSession(s, Owner[c])
    BY <1>3 DEF Login
  <2>2. jar'[c] = issued + 1
    BY <1>3 DEF Login, FreshToken, TypeOK
  <2>3. QED
    BY <2>1, <2>2, NewTokenOwner DEF TokenFor, Used, TokenOf
<1>4. ASSUME NEW r \in Requests, Deliver(r), req[r].client = c
      PROVE  TokenFor(jar[c], c)'
  <2>1. jar'[c] = CookieAfter(r) /\ req[r] \in Request
    BY <1>4 DEF Deliver, TypeOK
  <2>2. TokenFor(req[r].answer, c) /\ TokenFor(NoToken, c)
    BY <1>4 DEF OwnersMatch, OwnRequest, TokenFor, TokensAreFresh, NoToken, TypeOK, StoreTypeOK
  <2>3. CookieAfter(r) \in Nat /\ TokenFor(CookieAfter(r), c)
    BY <2>1, <2>2 DEF CookieAfter, NoToken, Request
  <2>4. QED
    BY <2>1, <2>3, TokenForStep DEF TokenFor, Used, TokenOf
<1>5. QED
  BY <1>2, <1>3, <1>4, JarChange

\* Two request records that differ at most in phase and age
SameClaims(p, q) ==
  /\ p.token = q.token /\ p.client = q.client
  /\ p.answer = q.answer /\ p.session = q.session

\* What a step may do to one request
LEMMA RequestStep ==
  ASSUME TypeOK, [Next]_vars, NEW r \in Requests
  PROVE  \/ req'[r] = req[r]
         \/ req'[r] = Idle
         \/ \E c \in Clients, k \in Kind : Send(r, c, k)
         \/ Find(r)
         \/ Rotate(r)
         \/ SignAccess(r)
         \/ Revoke(r)
         \/ AdvanceTime
<1> req \in [Requests -> Request]
  BY DEF TypeOK
<1>1. ASSUME NEW p \in Requests, Serve(p), p # r
      PROVE  req'[r] = req[r]
  BY <1>1 DEF Serve, Find, FindFails, Rotate, RotateFails, SignAccess, Revoke,
              RevokeRefused, Deliver, Lose
<1>2. ASSUME Serve(r)
      PROVE  req'[r] = Idle \/ Find(r) \/ Rotate(r) \/ SignAccess(r) \/ Revoke(r)
  BY <1>2 DEF Serve, FindFails, RotateFails, RevokeRefused, Deliver, Lose
<1>3. ASSUME NEW p \in Requests, NEW c \in Clients, NEW k \in Kind, Send(p, c, k), p # r
      PROVE  req'[r] = req[r]
  BY <1>3 DEF Send
<1>4. QED
  BY <1>1, <1>2, <1>3 DEF Next, Login, ForceLogout, SetActive, Cleanup, vars

\* The requests
LEMMA OwnStep ==
  ASSUME TypeOK, TokensAreFresh, OwnersMatch, [Next]_vars, NEW r \in Requests
  PROVE  OwnRequest(req[r])'
<1> DEFINE q == req[r]
<1>1. q \in Request /\ OwnRequest(q) /\ (Working(q) => q.session # NoSession)
  BY DEF TypeOK, OwnersMatch
<1>2. \A p \in Request : OwnRequest(p) /\ (Working(p) => p.session # NoSession) =>
        /\ p.token <= issued' /\ p.answer <= issued'
        /\ \A s \in SessionIds :
             /\ Used(s)' /\ TokenOf(s)' = p.token => sessions'[s].user = Owner[p.client]
             /\ Used(s)' /\ TokenOf(s)' = p.answer => sessions'[s].user = Owner[p.client]
        /\ Working(p) => Used(p.session)' /\ sessions'[p.session].user = Owner[p.client]
  BY OwnRequestStep DEF OwnRequest, TokenFor
<1>3. ASSUME SameClaims(req'[r], q), Working(req'[r]) => Working(q)
      PROVE  OwnRequest(req[r])'
  BY <1>1, <1>2, <1>3 DEF OwnRequest, TokenFor, SameClaims, Used, TokenOf
<1>4. CASE req'[r] = q
  BY <1>3, <1>4 DEF SameClaims
<1>5. TokenFor(NoToken, q.client) /\ q.client \in Clients
  BY <1>1 DEF TokenFor, TokensAreFresh, NoToken, TypeOK, StoreTypeOK, Request
<1>6. ASSUME NEW c \in Clients
      PROVE  /\ NoToken <= issued'
             /\ \A s \in SessionIds : Used(s)' => TokenOf(s)' # NoToken
  BY RowStep DEF TokensAreFresh, NoToken, TypeOK, StoreTypeOK
<1>7. CASE req'[r] = Idle
  BY <1>6, <1>7, IdleType DEF OwnRequest, TokenFor, Idle, Used, TokenOf
<1>8. ASSUME NEW c \in Clients, NEW k \in Kind, Send(r, c, k)
      PROVE  OwnRequest(req[r])'
  <2>1. /\ req'[r].token = jar[c] /\ req'[r].client = c /\ req'[r].answer = NoToken
        /\ ~Working(req'[r])
    BY <1>8 DEF Send, TypeOK, Working
  <2>2. jar[c] \in Nat /\ TokenFor(jar[c], c)
    BY DEF TypeOK, OwnersMatch
  <2>3. QED
    BY <1>6, <2>1, <2>2, TokenForStep DEF OwnRequest, TokenFor, Used, TokenOf
<1>9. CASE Find(r)
  <2>1. PICK s \in SessionIds :
          /\ FindValidSession(q.token, s, active)
          /\ req'[r] = [q EXCEPT !.phase = "found", !.session = s]
    BY <1>9 DEF Find, TypeOK
  <2>2. /\ req'[r].token = q.token /\ req'[r].client = q.client
        /\ req'[r].answer = q.answer /\ req'[r].session = s
    BY <1>1, <2>1 DEF Request
  <2>3. Used(s) /\ TokenOf(s) = q.token
    BY <2>1 DEF FindValidSession, HasToken, Stored, Live, Revoked, Used, TokenOf, HashToken
  <2>4. sessions[s].user = Owner[q.client]
    BY <1>1, <2>3 DEF OwnRequest, TokenFor
  <2>5. sessions'[s].user = Owner[q.client] /\ Used(s)'
    BY <2>3, <2>4, RowStep
  <2>6. QED
    BY <1>1, <1>2, <2>2, <2>5 DEF OwnRequest, TokenFor, Used, TokenOf
<1>10. CASE Rotate(r)
  <2>1. /\ Working(q) /\ q.session \in SessionIds /\ RotateSession(q.session)
        /\ req'[r] = [q EXCEPT !.phase = "rotated", !.answer = FreshToken]
    BY <1>1, <1>10 DEF Rotate, At, Working, Request, TypeOK
  <2>2. /\ req'[r].token = q.token /\ req'[r].client = q.client
        /\ req'[r].answer = issued + 1 /\ req'[r].session = q.session
    BY <1>1, <2>1 DEF Request, FreshToken
  <2>3. sessions[q.session].user = Owner[q.client]
    BY <1>1, <2>1 DEF OwnRequest
  <2>4. /\ issued + 1 <= issued'
        /\ \A i \in SessionIds :
             Used(i)' /\ TokenOf(i)' = issued + 1 => sessions'[i].user = Owner[q.client]
    BY <1>5, <2>1, <2>3, NewTokenOwner
  <2>5. QED
    BY <1>1, <1>2, <2>1, <2>2, <2>4 DEF OwnRequest, TokenFor, Used, TokenOf
<1>11. CASE SignAccess(r) \/ Revoke(r) \/ AdvanceTime
  <2>1. SameClaims(req'[r], q)
    BY <1>1, <1>11 DEF SignAccess, Revoke, AdvanceTime, SameClaims, Request, TypeOK
  <2>2. Working(req'[r]) => Working(q)
    BY <1>1, <1>11 DEF SignAccess, Revoke, AdvanceTime, At, Working, Request, TypeOK
  <2>3. QED
    BY <1>3, <2>1, <2>2
<1>12. QED
  BY <1>4, <1>7, <1>8, <1>9, <1>10, <1>11, RequestStep

LEMMA OwnersInvariant == Spec => []OwnersMatch
<1>1. Init => OwnersMatch
  <2> SUFFICES ASSUME Init
               PROVE  OwnersMatch
    OBVIOUS
  <2>1. \A s \in SessionIds : ~Used(s)
    BY DEF Init, StoreInit, UnusedRow, Used
  <2>2. \A c \in Clients : TokenFor(NoToken, c)
    BY <2>1 DEF Init, StoreInit, TokenFor, NoToken
  <2>3. /\ Idle.token = NoToken /\ Idle.answer = NoToken
        /\ Idle.client \in Clients /\ ~Working(Idle)
    BY IdleType DEF Idle
  <2>4. QED
    BY <2>2, <2>3 DEF Init, OwnersMatch, OwnRequest
<1>2. TypeOK /\ TokensAreFresh /\ OwnersMatch /\ [Next]_vars => OwnersMatch'
  BY JarStep, OwnStep DEF OwnersMatch
<1>3. QED
  BY <1>1, <1>2, TypeCorrect, FreshTokens, PTL DEF Spec

-----------------------------------------------------------------------------
(* Time: no request works on a session revoked before it began.            *)

\* What a step does to the two counters of a row
LEMMA ClockStep ==
  ASSUME TypeOK, [Next]_vars, NEW s \in SessionIds
  PROVE  \/ /\ AdvanceTime
            /\ sessions'[s].state = sessions[s].state
            /\ sessions'[s].user = sessions[s].user
            /\ sessions'[s].left = IF Stored(s) /\ sessions[s].left >= 0
                                     THEN sessions[s].left - 1 ELSE sessions[s].left
            /\ sessions'[s].revokedFor \in {sessions[s].revokedFor, sessions[s].revokedFor + 1}
         \/ /\ Revoked(s)' => \/ sessions'[s].revokedFor = 0
                              \/ Revoked(s) /\ sessions'[s].revokedFor = sessions[s].revokedFor
            /\ Stored(s) /\ Stored(s)' => /\ sessions'[s].left >= sessions[s].left
                                          /\ sessions'[s].user = sessions[s].user
            /\ Stored(s) /\ ~Stored(s)' =>
                 \/ Expired(s)
                 \/ Revoked(s) /\ sessions[s].revokedFor > RevokedRetention
            /\ Stored(s) => sessions'[s].state # "unused"
<1> sessions \in [SessionIds -> SessionRow] /\ sessions[s] \in SessionRow /\ issued \in Nat
  BY DEF TypeOK, StoreTypeOK
<1> USE DEF Stored, Live, Revoked, Expired
<1>1. CASE sessions'[s] = sessions[s]
  BY <1>1 DEF SessionRow
<1>2. ASSUME NEW u \in Users, InsertSession(s, u)
      PROVE  ~Stored(s) /\ sessions'[s].state = "live"
  BY <1>2 DEF InsertSession
<1>3. ASSUME RotateSession(s)
      PROVE  /\ sessions'[s].state = sessions[s].state
             /\ sessions'[s].user = sessions[s].user
             /\ sessions'[s].revokedFor = sessions[s].revokedFor
             /\ sessions'[s].left = RefreshExpiry
  BY <1>3 DEF RotateSession, SessionRow, Lifetime
<1>4. ASSUME NEW S \in SUBSET SessionIds, RevokeRows(S), sessions'[s] # sessions[s]
      PROVE  /\ sessions'[s].revokedFor = 0
             /\ sessions'[s].user = sessions[s].user
             /\ sessions'[s].state = "revoked"
             /\ sessions'[s].left = sessions[s].left
  BY <1>4 DEF RevokeRows, SessionRow
<1>5. ASSUME CleanupExpiredSessions, sessions'[s] # sessions[s]
      PROVE  /\ Expired(s) \/ (Revoked(s) /\ sessions[s].revokedFor > RevokedRetention)
             /\ sessions'[s].state = "deleted"
  BY <1>5 DEF CleanupExpiredSessions, SessionRow
<1>6. ASSUME AdvanceTime
      PROVE  /\ sessions'[s].state = sessions[s].state
             /\ sessions'[s].user = sessions[s].user
             /\ sessions'[s].left = IF Stored(s) /\ sessions[s].left >= 0
                                      THEN sessions[s].left - 1 ELSE sessions[s].left
             /\ sessions'[s].revokedFor \in {sessions[s].revokedFor, sessions[s].revokedFor + 1}
  <2> DEFINE left == IF Stored(s) /\ sessions[s].left >= 0
                       THEN sessions[s].left - 1 ELSE sessions[s].left
             for  == IF Revoked(s) /\ sessions[s].revokedFor <= RevokedRetention
                       THEN sessions[s].revokedFor + 1 ELSE sessions[s].revokedFor
  <2>1. sessions'[s] = [sessions[s] EXCEPT !.left = left, !.revokedFor = for]
    BY <1>6 DEF AdvanceTime, SessionsAge
  <2> HIDE DEF left, for
  <2>2. /\ sessions'[s].state = sessions[s].state /\ sessions'[s].user = sessions[s].user
        /\ sessions'[s].left = left /\ sessions'[s].revokedFor = for
    BY <2>1 DEF SessionRow
  <2>3. QED
    BY <2>2 DEF left, for
<1>7. CASE AdvanceTime
  BY <1>6, <1>7
<1>8. CASE \E i \in SessionIds, u \in Users : InsertSession(i, u)
  <2>1. PICK i \in SessionIds, u \in Users : InsertSession(i, u)
    BY <1>8
  <2>2. i # s => sessions'[s] = sessions[s]
    BY <2>1 DEF InsertSession
  <2>3. QED
    BY <1>1, <1>2, <2>1, <2>2
<1>9. CASE \E i \in SessionIds : RotateSession(i)
  <2>1. PICK i \in SessionIds : RotateSession(i)
    BY <1>9
  <2>2. i # s => sessions'[s] = sessions[s]
    BY <2>1 DEF RotateSession
  <2>3. sessions[s].left <= RefreshExpiry
    BY DEF SessionRow
  <2>4. QED
    BY <1>1, <1>3, <2>1, <2>2, <2>3
<1>10. CASE \E S \in SUBSET SessionIds : RevokeRows(S)
  BY <1>1, <1>4, <1>10 DEF SessionRow
<1>11. CASE CleanupExpiredSessions
  BY <1>1, <1>5, <1>11
<1>12. QED
  BY <1>1, <1>7, <1>8, <1>9, <1>10, <1>11, TableStep DEF storeVars

\* What a step does to a request that works on a session after it
LEMMA WorkStep ==
  ASSUME TypeOK, [Next]_vars, NEW r \in Requests, Working(req[r])'
  PROVE  \/ /\ Find(r)
            /\ Live(req'[r].session)
            /\ sessions' = sessions
            /\ req'[r].phase = "found"
         \/ /\ Working(req[r])
            /\ req'[r].session = req[r].session
            /\ IF AdvanceTime THEN req'[r].age = req[r].age + 1
                              ELSE req'[r].age = req[r].age
            /\ req'[r].phase = "rotated" => req[r].phase = "rotated" \/ Rotate(r)
<1> DEFINE q == req[r]
<1>1. q \in Request /\ req \in [Requests -> Request] /\ ~Working(Idle)
  BY IdleType DEF TypeOK
<1>2. CASE AdvanceTime
  <2>1. q.phase # "idle"
    BY <1>1, <1>2 DEF AdvanceTime, Working
  <2>2. req'[r] = [q EXCEPT !.age = @ + 1]
    BY <1>1, <1>2, <2>1 DEF AdvanceTime
  <2>3. QED
    BY <1>1, <1>2, <2>2 DEF Working, Request
<1>3. CASE req'[r] = q /\ ~AdvanceTime
  BY <1>3 DEF Working
<1>4. CASE req'[r] = Idle
  BY <1>1, <1>4
<1>5. ASSUME NEW c \in Clients, NEW k \in Kind, Send(r, c, k)
      PROVE  FALSE
  BY <1>1, <1>5 DEF Send, Working
<1>6. CASE Find(r)
  <2>1. PICK s \in SessionIds :
          /\ FindValidSession(q.token, s, active)
          /\ req'[r] = [q EXCEPT !.phase = "found", !.session = s]
    BY <1>1, <1>6 DEF Find
  <2>2. req'[r].session = s /\ req'[r].phase = "found"
    BY <1>1, <2>1 DEF Request
  <2>3. QED
    BY <1>6, <2>1, <2>2 DEF Find, FindValidSession, storeVars
<1>7. CASE Rotate(r) /\ ~AdvanceTime
  <2>1. req'[r] = [q EXCEPT !.phase = "rotated", !.answer = FreshToken]
    BY <1>1, <1>7 DEF Rotate
  <2>2. req'[r].session = q.session /\ req'[r].age = q.age
    BY <1>1, <2>1 DEF Request
  <2>3. QED
    BY <1>7, <2>2 DEF Rotate, At, Working
<1>8. CASE SignAccess(r) /\ ~AdvanceTime
  BY <1>1, <1>8 DEF SignAccess, At, Working, Request
<1>9. CASE Revoke(r)
  BY <1>1, <1>9 DEF Revoke, Working, Request
<1>10. QED
  BY <1>2, <1>3, <1>4, <1>5, <1>6, <1>7, <1>8, <1>9, RequestStep

\* The check of findValidSession may be overtaken by a revocation, but no
\* request gets in after one.
THEOREM LateWorkers == Spec => []LateWorkersCameEarly
<1>1. Init => LateWorkersCameEarly
  BY IdleType DEF Init, LateWorkersCameEarly, Holds
<1>2. TypeOK /\ TypeOK' /\ LateWorkersCameEarly /\ [Next]_vars => LateWorkersCameEarly'
  <2> SUFFICES ASSUME TypeOK, TypeOK', LateWorkersCameEarly, [Next]_vars,
                      NEW r \in Requests, NEW s \in SessionIds,
                      Holds(r, s)', Revoked(s)'
               PROVE  req'[r].age >= sessions'[s].revokedFor
    BY DEF LateWorkersCameEarly
  <2>1. /\ req'[r].age \in Nat /\ req[r].age \in Nat
        /\ sessions[s].revokedFor \in Nat /\ sessions'[s].revokedFor \in Nat
    BY DEF TypeOK, StoreTypeOK, Request, SessionRow
  <2>2. Working(req[r])' /\ req'[r].session = s
    BY DEF Holds
  <2>3. CASE Find(r) /\ Live(s) /\ sessions' = sessions
    BY <2>3 DEF Live, Revoked
  <2>4. CASE /\ Working(req[r]) /\ req[r].session = s
             /\ IF AdvanceTime THEN req'[r].age = req[r].age + 1
                               ELSE req'[r].age = req[r].age
    <3>1. Revoked(s) => req[r].age >= sessions[s].revokedFor
      BY <2>4 DEF LateWorkersCameEarly, Holds
    <3>2. \/ /\ AdvanceTime /\ Revoked(s)
             /\ sessions'[s].revokedFor \in {sessions[s].revokedFor, sessions[s].revokedFor + 1}
          \/ sessions'[s].revokedFor = 0
          \/ Revoked(s) /\ sessions'[s].revokedFor = sessions[s].revokedFor
      BY ClockStep DEF Revoked
    <3>3. QED
      BY <2>1, <2>4, <3>1, <3>2
  <2>5. QED
    BY <2>2, <2>3, <2>4, WorkStep
<1>3. QED
  BY <1>1, <1>2, TypeCorrect, PTL DEF Spec

-----------------------------------------------------------------------------
(* Access tokens: a session backs each good one.                           *)

\* The session a request has just rotated is stored and nearly fresh.
RotatedIsFresh ==
  \A r \in Requests : req[r].phase = "rotated" =>
    /\ Stored(req[r].session)
    /\ sessions[req[r].session].left + req[r].age >= RefreshExpiry

LEMMA RotatedInvariant == Spec => []RotatedIsFresh
<1>1. Init => RotatedIsFresh
  BY DEF Init, RotatedIsFresh, Idle
<1>2. /\ TypeOK /\ TypeOK' /\ LateWorkersCameEarly /\ RotatedIsFresh /\ [Next]_vars
      => RotatedIsFresh'
  <2> SUFFICES ASSUME TypeOK, TypeOK', LateWorkersCameEarly, RotatedIsFresh, [Next]_vars,
                      NEW r \in Requests, req'[r].phase = "rotated"
               PROVE  /\ Stored(req[r].session)'
                      /\ sessions'[req'[r].session].left + req'[r].age >= RefreshExpiry
    BY DEF RotatedIsFresh
  <2>1. Working(req[r])' /\ req'[r].session \in SessionIds
    BY DEF Working, TypeOK, Request
  <2> PICK s \in SessionIds : s = req'[r].session
    BY <2>1
  <2>2. /\ Working(req[r]) /\ req[r].session = s
        /\ IF AdvanceTime THEN req'[r].age = req[r].age + 1
                          ELSE req'[r].age = req[r].age
        /\ req[r].phase = "rotated" \/ Rotate(r)
    BY <2>1, WorkStep
  <2>3. /\ req[r].age \in 0 .. MaxRequestTicks /\ req'[r].age \in 0 .. MaxRequestTicks
        /\ sessions[s] \in SessionRow /\ sessions'[s] \in SessionRow
    BY <2>1, <2>2 DEF TypeOK, StoreTypeOK, Request
  <2>4. CASE Rotate(r)
    <3>1. Stored(s) /\ sessions' = [sessions EXCEPT ![s] =
            [@ EXCEPT !.tokenHash = HashToken(FreshToken), !.left = Lifetime]]
      BY <2>2, <2>4 DEF Rotate, RotateSession
    <3>2. sessions'[s].left = RefreshExpiry /\ sessions'[s].state = sessions[s].state
      BY <2>3, <3>1 DEF SessionRow, Lifetime, TypeOK, StoreTypeOK
    <3>3. QED
      BY <2>3, <3>1, <3>2 DEF Stored, Live, Revoked
  <2>5. CASE req[r].phase = "rotated"
    <3>1. Stored(s) /\ sessions[s].left + req[r].age >= RefreshExpiry
      BY <2>2, <2>5 DEF RotatedIsFresh
    <3>2. Revoked(s) => req[r].age >= sessions[s].revokedFor
      BY <2>2, <2>3 DEF LateWorkersCameEarly, Holds
    <3>3. ~Expired(s) /\ (Revoked(s) => sessions[s].revokedFor <= RevokedRetention)
      BY <2>3, <3>1, <3>2 DEF Expired, SessionRow
    <3>4. sessions[s].left \in Int /\ sessions'[s].left \in Int
      BY <2>3 DEF SessionRow
    <3>5. CASE AdvanceTime
      <4>1. sessions[s].left >= 0
        BY <3>3, <3>4 DEF Expired
      <4>2. Stored(s)' /\ sessions'[s].left >= sessions[s].left - 1
        BY <2>3, <3>1, <3>3, <3>4, <4>1, ClockStep DEF Stored, Live, Revoked, SessionRow
      <4>3. QED
        BY <2>2, <2>3, <3>1, <3>4, <3>5, <4>2 DEF Stored, Live, Revoked
    <3>6. CASE ~AdvanceTime
      <4>1. Stored(s)'
        BY <2>3, <3>1, <3>3, <3>6, ClockStep DEF SessionRow
      <4>2. sessions'[s].left >= sessions[s].left
        BY <2>3, <3>1, <3>6, <4>1, ClockStep
      <4>3. QED
        BY <2>2, <2>3, <3>1, <3>4, <3>6, <4>1, <4>2 DEF Stored, Live, Revoked
    <3>7. QED
      BY <3>5, <3>6
  <2>6. QED
    BY <2>2, <2>4, <2>5
<1>3. QED
  BY <1>1, <1>2, TypeCorrect, LateWorkers, PTL DEF Spec

\* Where the time left on an access token comes from
LEMMA AccessStep ==
  ASSUME TypeOK, [Next]_vars, NEW c \in Clients
  PROVE  \/ Login(c)
         \/ \E r \in Requests : SignAccess(r) /\ req[r].client = c
         \/ AdvanceTime /\ access'[c] = (IF access[c] > 0 THEN access[c] - 1 ELSE 0)
         \/ ~AdvanceTime /\ access'[c] = access[c]
<1> access \in [Clients -> 0 .. AccessExpiry]
  BY DEF TypeOK
<1>1. ASSUME NEW b \in Clients, Login(b), b # c
      PROVE  access'[c] = access[c]
  BY <1>1 DEF Login
<1>2. ASSUME NEW r \in Requests, Serve(r)
      PROVE  access'[c] = access[c] \/ (SignAccess(r) /\ req[r].client = c)
  BY <1>2 DEF Serve, Find, FindFails, Rotate, RotateFails, SignAccess, Revoke,
              RevokeRefused, Deliver, Lose
<1>3. CASE AdvanceTime
  BY <1>3 DEF AdvanceTime
<1>4. QED
  BY <1>1, <1>2, <1>3 DEF Next, Send, ForceLogout, SetActive, Cleanup, vars

\* A session that backs an access token goes on backing it.
LEMMA BacksStep ==
  ASSUME TypeOK, TypeOK', [Next]_vars, NEW c \in Clients, NEW s \in SessionIds,
         Backs(s, c), access'[c] > 0,
         \/ AdvanceTime /\ access'[c] = access[c] - 1
         \/ ~AdvanceTime /\ access'[c] = access[c]
  PROVE  Backs(s, c)'
<1>1. /\ access[c] \in 0 .. AccessExpiry /\ access'[c] \in 0 .. AccessExpiry
      /\ sessions[s].left \in Int /\ sessions'[s].left \in Int
      /\ sessions[s].revokedFor \in Nat /\ sessions'[s].revokedFor \in Nat
  BY DEF TypeOK, StoreTypeOK, SessionRow
<1>2. /\ Stored(s) /\ sessions[s].user = Owner[c]
      /\ sessions[s].left >= access[c]
      /\ Revoked(s) => sessions[s].revokedFor + access[c] <= AccessExpiry + MaxRequestTicks
  BY DEF Backs
<1>3. ~Expired(s) /\ (Revoked(s) => sessions[s].revokedFor <= RevokedRetention)
  BY <1>1, <1>2 DEF Expired
<1>4. /\ Stored(s)' /\ sessions'[s].user = sessions[s].user
      /\ sessions'[s].left >= IF AdvanceTime THEN sessions[s].left - 1 ELSE sessions[s].left
      /\ Revoked(s)' =>
           \/ sessions'[s].revokedFor = 0
           \/ /\ Revoked(s)
              /\ sessions'[s].revokedFor <=
                   IF AdvanceTime THEN sessions[s].revokedFor + 1 ELSE sessions[s].revokedFor
  <2>1. CASE /\ AdvanceTime
             /\ sessions'[s].state = sessions[s].state
             /\ sessions'[s].user = sessions[s].user
             /\ sessions'[s].left = IF Stored(s) /\ sessions[s].left >= 0
                                      THEN sessions[s].left - 1 ELSE sessions[s].left
             /\ sessions'[s].revokedFor \in {sessions[s].revokedFor, sessions[s].revokedFor + 1}
    BY <1>1, <1>2, <2>1 DEF Stored, Live, Revoked
  <2>2. CASE /\ Revoked(s)' => \/ sessions'[s].revokedFor = 0
                               \/ Revoked(s) /\ sessions'[s].revokedFor = sessions[s].revokedFor
             /\ Stored(s) /\ Stored(s)' => /\ sessions'[s].left >= sessions[s].left
                                           /\ sessions'[s].user = sessions[s].user
             /\ Stored(s) /\ ~Stored(s)' =>
                  \/ Expired(s)
                  \/ Revoked(s) /\ sessions[s].revokedFor > RevokedRetention
    <3>1. Stored(s)'
      BY <1>1, <1>2, <1>3, <2>2
    <3>2. QED
      BY <1>1, <1>2, <2>2, <3>1
  <2>3. QED
    BY <2>1, <2>2, ClockStep
<1>5. QED
  <2>1. Stored(s)' /\ sessions'[s].user = Owner[c]
    BY <1>2, <1>4
  <2>2. sessions'[s].left >= access'[c]
    BY <1>1, <1>2, <1>4
  <2>3. Revoked(s)' =>
          sessions'[s].revokedFor + access'[c] <= AccessExpiry + MaxRequestTicks
    BY <1>1, <1>2, <1>4
  <2>4. QED
    BY <2>1, <2>2, <2>3 DEF Backs, Stored, Live, Revoked

\* The exposure of a stateless access token is bounded: it never outlives the
\* revocation of its session by more than its own life and one request.
THEOREM AccessBacked == Spec => []AccessIsBackedBySession
<1>1. Init => AccessIsBackedBySession
  BY DEF Init, AccessIsBackedBySession
<1>2. /\ TypeOK /\ TypeOK' /\ OwnersMatch /\ LateWorkersCameEarly /\ RotatedIsFresh
      /\ AccessIsBackedBySession /\ [Next]_vars
      => AccessIsBackedBySession'
  <2> SUFFICES ASSUME TypeOK, TypeOK', OwnersMatch, LateWorkersCameEarly, RotatedIsFresh,
                      AccessIsBackedBySession, [Next]_vars,
                      NEW c \in Clients, access'[c] > 0
               PROVE  \E s \in SessionIds : Backs(s, c)'
    BY DEF AccessIsBackedBySession
  <2>1. CASE Login(c)
    <3>1. PICK s \in SessionIds : InsertSession(s, Owner[c])
      BY <2>1 DEF Login
    <3>2. sessions'[s] = [state |-> "live", user |-> Owner[c],
             tokenHash |-> HashToken(FreshToken), left |-> RefreshExpiry, revokedFor |-> 0]
      BY <3>1 DEF InsertSession, Lifetime, TypeOK, StoreTypeOK
    <3>3. access'[c] = AccessExpiry
      BY <2>1 DEF Login, TypeOK
    <3>4. QED
      BY <3>2, <3>3 DEF Backs, Stored, Live, Revoked
  <2>2. ASSUME NEW r \in Requests, SignAccess(r), req[r].client = c
        PROVE  \E s \in SessionIds : Backs(s, c)'
    <3>1. req[r].phase = "rotated" /\ Working(req[r]) /\ sessions' = sessions
      BY <2>2 DEF SignAccess, At, Working, storeVars
    <3>2. access'[c] = AccessExpiry
      BY <2>2 DEF SignAccess, TypeOK
    <3> PICK s \in SessionIds : s = req[r].session
      BY <3>1 DEF TypeOK, Request
    <3>3. /\ req[r].age \in 0 .. MaxRequestTicks
          /\ sessions[s].left \in Int /\ sessions[s].revokedFor \in Nat
      BY DEF TypeOK, StoreTypeOK, Request, SessionRow
    <3>4. sessions[s].user = Owner[c]
      BY <2>2, <3>1 DEF OwnersMatch, OwnRequest
    <3>5. Stored(s) /\ sessions[s].left + req[r].age >= RefreshExpiry
      BY <3>1 DEF RotatedIsFresh
    <3>6. Revoked(s) => sessions[s].revokedFor <= req[r].age
      BY <3>1, <3>3 DEF LateWorkersCameEarly, Holds
    <3>7. /\ sessions[s].left >= AccessExpiry
          /\ Revoked(s) => sessions[s].revokedFor + AccessExpiry <= AccessExpiry + MaxRequestTicks
      BY <3>3, <3>5, <3>6
    <3>8. QED
      BY <3>1, <3>2, <3>4, <3>5, <3>7 DEF Backs, Stored, Live, Revoked
  <2>3. CASE \/ AdvanceTime /\ access'[c] = (IF access[c] > 0 THEN access[c] - 1 ELSE 0)
             \/ ~AdvanceTime /\ access'[c] = access[c]
    <3>1. access[c] > 0 /\ (\/ AdvanceTime /\ access'[c] = access[c] - 1
                            \/ ~AdvanceTime /\ access'[c] = access[c])
      BY <2>3 DEF TypeOK
    <3>2. PICK s \in SessionIds : Backs(s, c)
      BY <3>1 DEF AccessIsBackedBySession
    <3>3. QED
      BY <3>1, <3>2, BacksStep
  <2>4. QED
    BY <2>1, <2>2, <2>3, AccessStep
<1>3. QED
  BY <1>1, <1>2, TypeCorrect, OwnersInvariant, LateWorkers, RotatedInvariant, PTL DEF Spec
-----------------------------------------------------------------------------
(* Cookies: a browser that waits for its answers keeps a current token.    *)

\* The rows a request record has to do with: it carries their token, was
\* given it as its answer, or is about to rotate them.
Claims(q, s) ==
  Used(s) /\ (TokenOf(s) \in {q.token, q.answer} \/ (Working(q) /\ q.session = s))

\* The rows a browser has to do with, through its cookie or its requests
Touches(c, s) ==
  \/ Used(s) /\ TokenOf(s) = jar[c]
  \/ \E r \in Requests : req[r].client = c /\ Claims(req[r], s)

\* Two browsers never share a row, even those of one account.
RowsApart ==
  \A b, c \in Clients, s \in SessionIds : Touches(b, s) /\ Touches(c, s) => b = c

\* A token that no rotation has superseded, or no token at all
Current(t) == t = NoToken \/ \E s \in SessionIds : Used(s) /\ TokenOf(s) = t

\* A refresh whose rotation is done and whose answer is on its way
Answering(q) == q.phase \in {"rotated", "signed"}

\* While a browser is orderly it has one request at a time, and what it will
\* end up with is current: the answer under way, and without one its cookie.
CookieOrder(c) ==
  orderly[c] =>
    /\ \A r, p \in InFlight(c) : r = p
    /\ (\A r \in InFlight(c) : ~Answering(req[r])) => Current(jar[c])
    /\ \A r \in InFlight(c) : Answering(req[r]) => Current(req[r].answer)

CookieInvariant ==
  /\ RowsApart
  /\ \A r \in Requests : req[r].phase = "revoked" => req[r].kind # "refresh"
  /\ \A c \in Clients : CookieOrder(c)

\* What gives a row another token
LEMMA TokenChange ==
  ASSUME TypeOK, [Next]_vars, NEW s \in SessionIds
  PROVE  \/ (Used(s)' <=> Used(s)) /\ TokenOf(s)' = TokenOf(s)
         \/ \E c \in Clients : Login(c) /\ ~Used(s)
         \/ \E r \in Requests : Rotate(r) /\ req[r].session = s /\ Used(s)
<1> USE DEF Used, TokenOf
<1>1. CASE UNCHANGED storeVars
  BY <1>1 DEF storeVars
<1>2. ASSUME NEW c \in Clients, Login(c)
      PROVE  sessions'[s] = sessions[s] \/ ~Used(s)
  BY <1>2 DEF Login, InsertSession, TypeOK, StoreTypeOK
<1>3. ASSUME NEW r \in Requests, Rotate(r)
      PROVE  sessions'[s] = sessions[s] \/ (req[r].session = s /\ Used(s))
  BY <1>3 DEF Rotate, RotateSession, TypeOK, StoreTypeOK, Stored, Live, Revoked
<1>4. ASSUME NEW r \in Requests, Revoke(r)
      PROVE  \E S \in SUBSET SessionIds : RevokeRows(S)
  BY <1>4 DEF Revoke, RevokeByToken, RevokeAll
<1>5. ASSUME NEW u \in Users, ForceLogout(u)
      PROVE  \E S \in SUBSET SessionIds : RevokeRows(S)
  BY <1>5 DEF ForceLogout, RevokeAll
<1>6. CASE \/ \E S \in SUBSET SessionIds : RevokeRows(S)
           \/ CleanupExpiredSessions
           \/ SessionsAge
  BY <1>6, TokensKept
<1>7. ASSUME NEW r \in Requests, Serve(r)
      PROVE  UNCHANGED storeVars \/ Rotate(r) \/ Revoke(r)
  BY <1>7 DEF Serve, Find, FindFails, RotateFails, SignAccess, RevokeRefused, Deliver, Lose
<1>8. CASE UNCHANGED vars
  BY <1>8 DEF vars
<1>9. QED
  BY <1>1, <1>2, <1>3, <1>4, <1>5, <1>6, <1>7, <1>8
  DEF Next, Send, SetActive, Cleanup, AdvanceTime

\* A token already generated is carried only by a row that carried it before.
LEMMA OldToken ==
  ASSUME TypeOK, [Next]_vars, NEW s \in SessionIds, NEW t \in Nat, t <= issued,
         Used(s)', TokenOf(s)' = t
  PROVE  Used(s) /\ TokenOf(s) = t
BY RowStep DEF TypeOK, StoreTypeOK

\* A request has to do with a row only if its browser had before.
LEMMA ClaimStep ==
  ASSUME TypeOK, TokensAreFresh, TokensAreFresh', OwnersMatch, [Next]_vars,
         NEW r \in Requests, NEW s \in SessionIds, Claims(req[r], s)'
  PROVE  Touches(req'[r].client, s)
<1> DEFINE q == req[r]
<1>1. /\ q \in Request /\ OwnRequest(q) /\ q.token <= issued /\ q.answer <= issued
      /\ Working(q) => Used(q.session)
      /\ q.token \in Nat /\ q.answer \in Nat
  BY DEF OwnersMatch, OwnRequest, TokenFor, TypeOK, Request
<1>2. Used(s)' /\ TokenOf(s)' # NoToken
  BY DEF Claims, TokensAreFresh, NoToken
<1>3. \/ TokenOf(s)' = req'[r].token
      \/ TokenOf(s)' = req'[r].answer
      \/ Working(req'[r]) /\ req'[r].session = s
  BY DEF Claims, Working
<1>4. ASSUME SameClaims(req'[r], q), Working(req'[r]) => Working(q)
      PROVE  Touches(req'[r].client, s)
  <2>1. Claims(q, s)
    BY <1>1, <1>2, <1>3, <1>4, OldToken DEF SameClaims, Claims
  <2>2. QED
    BY <1>4, <2>1 DEF SameClaims, Touches
<1>5. CASE req'[r] = q
  BY <1>4, <1>5 DEF SameClaims
<1>6. CASE req'[r] = Idle
  BY <1>2, <1>3, <1>6, IdleType DEF Idle
<1>7. ASSUME NEW c \in Clients, NEW k \in Kind, Send(r, c, k)
      PROVE  Touches(req'[r].client, s)
  <2>1. /\ req'[r].token = jar[c] /\ req'[r].client = c /\ req'[r].answer = NoToken
        /\ ~Working(req'[r])
    BY <1>7 DEF Send, TypeOK, Working
  <2>2. jar[c] \in Nat /\ jar[c] <= issued
    BY DEF TypeOK, OwnersMatch, TokenFor
  <2>3. QED
    BY <1>2, <1>3, <2>1, <2>2, OldToken DEF Touches
<1>8. CASE Find(r)
  <2>1. PICK i \in SessionIds :
          /\ FindValidSession(q.token, i, active)
          /\ req'[r] = [q EXCEPT !.phase = "found", !.session = i]
    BY <1>8 DEF Find, TypeOK
  <2>2. /\ req'[r].token = q.token /\ req'[r].client = q.client
        /\ req'[r].answer = q.answer /\ req'[r].session = i
    BY <1>1, <2>1 DEF Request
  <2>3. Used(i) /\ TokenOf(i) = q.token
    BY <2>1 DEF FindValidSession, HasToken, Stored, Live, Revoked, Used, TokenOf, HashToken
  <2>4. Claims(q, s)
    BY <1>1, <1>2, <1>3, <2>2, <2>3, OldToken DEF Claims
  <2>5. QED
    BY <2>2, <2>4 DEF Touches
<1>9. CASE Rotate(r)
  <2>1. /\ Working(q) /\ q.session \in SessionIds /\ RotateSession(q.session)
        /\ req'[r] = [q EXCEPT !.phase = "rotated", !.answer = FreshToken]
    BY <1>1, <1>9 DEF Rotate, At, Working, Request, TypeOK
  <2>2. /\ req'[r].token = q.token /\ req'[r].client = q.client
        /\ req'[r].answer = issued + 1 /\ req'[r].session = q.session
    BY <1>1, <2>1 DEF Request, FreshToken
  <2>3. ASSUME s # q.session
        PROVE  Used(s) /\ TokenOf(s)' = TokenOf(s) /\ TokenOf(s)' # issued + 1
    <3>1. sessions'[s] = sessions[s]
      BY <2>1, <2>3 DEF RotateSession, TypeOK, StoreTypeOK
    <3>2. QED
      BY <1>2, <3>1 DEF Used, TokenOf, TokensAreFresh, TypeOK, StoreTypeOK
  <2>4. Claims(q, s)
    BY <1>1, <1>2, <1>3, <2>1, <2>2, <2>3 DEF Claims
  <2>5. QED
    BY <2>2, <2>4 DEF Touches
<1>10. CASE SignAccess(r) \/ Revoke(r) \/ AdvanceTime
  <2>1. SameClaims(req'[r], q)
    BY <1>1, <1>10 DEF SignAccess, Revoke, AdvanceTime, SameClaims, Request, TypeOK
  <2>2. Working(req'[r]) => Working(q)
    BY <1>1, <1>10 DEF SignAccess, Revoke, AdvanceTime, At, Working, Request, TypeOK
  <2>3. QED
    BY <1>4, <2>1, <2>2
<1>11. QED
  BY <1>5, <1>6, <1>7, <1>8, <1>9, <1>10, RequestStep

\* A browser comes to a row only by a login that inserts it.
LEMMA TouchStep ==
  ASSUME TypeOK, TokensAreFresh, TokensAreFresh', OwnersMatch, [Next]_vars,
         NEW c \in Clients, NEW s \in SessionIds, Touches(c, s)'
  PROVE  Touches(c, s) \/ (Login(c) /\ ~Used(s))
<1>1. ASSUME NEW r \in Requests, req'[r].client = c, Claims(req[r], s)'
      PROVE  Touches(c, s)
  BY <1>1, ClaimStep
<1>2. ASSUME Used(s)', TokenOf(s)' = jar'[c]
      PROVE  Touches(c, s) \/ (Login(c) /\ ~Used(s))
  <2>1. jar[c] \in Nat /\ jar[c] <= issued
    BY DEF TypeOK, OwnersMatch, TokenFor
  <2>2. CASE jar'[c] = jar[c]
    BY <1>2, <2>1, <2>2, OldToken DEF Touches
  <2>3. CASE Login(c)
    <3>1. PICK i \in SessionIds : InsertSession(i, Owner[c])
      BY <2>3 DEF Login
    <3>2. jar'[c] = issued + 1
      BY <2>3 DEF Login, FreshToken, TypeOK
    <3>3. s # i => sessions'[s] = sessions[s]
      BY <3>1 DEF InsertSession, TypeOK, StoreTypeOK
    <3>4. ~Used(i)
      BY <3>1 DEF InsertSession, Used
    <3>5. QED
      BY <1>2, <2>3, <3>2, <3>3, <3>4 DEF Used, TokenOf, TokensAreFresh, TypeOK, StoreTypeOK
  <2>4. ASSUME NEW r \in Requests, Deliver(r), req[r].client = c
        PROVE  Touches(c, s)
    <3>1. jar'[c] = CookieAfter(r)
      BY <2>4 DEF Deliver, TypeOK
    <3>2. TokenOf(s)' # NoToken
      BY <1>2 DEF TokensAreFresh, NoToken
    <3>3. jar'[c] = req[r].answer
      BY <1>2, <3>1, <3>2 DEF CookieAfter
    <3>4. req[r].answer \in Nat /\ req[r].answer <= issued
      BY DEF OwnersMatch, OwnRequest, TokenFor, TypeOK, Request
    <3>5. QED
      BY <1>2, <2>4, <3>3, <3>4, OldToken DEF Touches, Claims
  <2>5. QED
    BY <2>2, <2>3, <2>4, JarChange
<1>3. QED
  BY <1>1, <1>2 DEF Touches

LEMMA RowsApartStep ==
  ASSUME TypeOK, TokensAreFresh, TokensAreFresh', OwnersMatch, RowsApart, [Next]_vars
  PROVE  RowsApart'
<1> SUFFICES ASSUME NEW b \in Clients, NEW c \in Clients, NEW s \in SessionIds,
                    Touches(b, s)', Touches(c, s)'
             PROVE  b = c
  BY DEF RowsApart
<1>1. \A d \in {b, c} : Touches(d, s) \/ (Login(d) /\ ~Used(s))
  BY TouchStep
<1>2. \A d \in {b, c} : Touches(d, s) => Used(s)
  BY DEF Touches, Claims
<1>3. CASE Touches(b, s) /\ Touches(c, s)
  BY <1>3 DEF RowsApart
<1>4. ASSUME Login(b), Login(c), b # c
      PROVE  FALSE
  <2>1. jar'[c] = issued + 1 /\ jar'[c] = jar[c]
    BY <1>4 DEF Login, FreshToken, TypeOK
  <2>2. QED
    BY <2>1 DEF OwnersMatch, TokenFor, TypeOK, StoreTypeOK
<1>5. QED
  BY <1>1, <1>2, <1>3, <1>4

\* Nobody else's rotation supersedes a token a browser has to do with.
LEMMA CurrentStep ==
  ASSUME TypeOK, RowsApart, [Next]_vars, NEW c \in Clients, NEW t, Current(t),
         t = jar[c] \/ \E r \in Requests : req[r].client = c /\ req[r].answer = t,
         \A r \in Requests : Rotate(r) => req[r].client # c
  PROVE  Current(t)'
<1>1. CASE t = NoToken
  BY <1>1 DEF Current
<1>2. ASSUME NEW s \in SessionIds, Used(s), TokenOf(s) = t
      PROVE  Used(s)' /\ TokenOf(s)' = t
  <2>1. Touches(c, s)
    BY <1>2 DEF Touches, Claims
  <2>2. ASSUME NEW r \in Requests, Rotate(r), req[r].session = s
        PROVE  FALSE
    <3>1. Touches(req[r].client, s) /\ req[r].client \in Clients
      BY <1>2, <2>2 DEF Rotate, At, Working, Touches, Claims, TypeOK, Request
    <3>2. QED
      BY <2>1, <2>2, <3>1 DEF RowsApart
  <2>3. QED
    BY <1>2, <2>2, TokenChange
<1>3. QED
  BY <1>1, <1>2 DEF Current

\* Steps that give a browser nothing: its cookie stays, its requests go on or
\* end without an answer, and none of them rotates.
LEMMA QuietStep ==
  ASSUME TypeOK, RowsApart, [Next]_vars, NEW c \in Clients, CookieOrder(c),
         orderly'[c] => orderly[c] /\ jar'[c] = jar[c],
         \A r \in Requests : Rotate(r) => req[r].client # c,
         \A r \in Requests : req'[r].phase # "idle" /\ req'[r].client = c =>
           /\ req[r].phase # "idle" /\ req[r].client = c
           /\ req'[r].answer = req[r].answer
           /\ Answering(req'[r]) => Answering(req[r]),
         orderly'[c] => \A r \in Requests :
           req[r].client = c /\ Answering(req[r]) =>
             req'[r].client = c /\ Answering(req'[r])
  PROVE  CookieOrder(c)'
<1> SUFFICES ASSUME orderly'[c]
             PROVE  /\ \A r, p \in InFlight(c)' : r = p
                    /\ (\A r \in InFlight(c)' : ~Answering(req'[r])) => Current(jar[c])'
                    /\ \A r \in InFlight(c)' : Answering(req'[r]) => Current(req[r].answer)'
  BY DEF CookieOrder, Answering
<1>1. /\ \A r, p \in InFlight(c) : r = p
      /\ (\A r \in InFlight(c) : ~Answering(req[r])) => Current(jar[c])
      /\ \A r \in InFlight(c) : Answering(req[r]) => Current(req[r].answer)
  BY DEF CookieOrder
<1>2. \A r \in Requests : r \in InFlight(c)' =>
        /\ r \in InFlight(c) /\ req'[r].answer = req[r].answer
        /\ Answering(req'[r]) => Answering(req[r])
  BY DEF InFlight
<1>3. \A r \in Requests : r \in InFlight(c) /\ Answering(req[r]) =>
        r \in InFlight(c)' /\ Answering(req'[r])
  BY DEF InFlight, Answering
<1>4. InFlight(c) \subseteq Requests /\ InFlight(c)' \subseteq Requests
  BY DEF InFlight
<1>5. ASSUME \A r \in InFlight(c)' : ~Answering(req'[r])
      PROVE  Current(jar[c])'
  <2>1. Current(jar[c])
    BY <1>1, <1>3, <1>4, <1>5
  <2>2. PICK t : t = jar[c]
    OBVIOUS
  <2>3. Current(t)'
    BY <2>1, <2>2, CurrentStep
  <2>4. QED
    BY <2>2, <2>3 DEF Current
<1>6. ASSUME NEW r \in InFlight(c)', Answering(req'[r])
      PROVE  Current(req[r].answer)'
  <2>1. r \in Requests /\ req[r].client = c /\ Current(req[r].answer)
    BY <1>1, <1>2, <1>4, <1>6 DEF InFlight
  <2>2. PICK t : t = req[r].answer
    OBVIOUS
  <2>3. Current(t)'
    BY <2>1, <2>2, CurrentStep
  <2>4. QED
    BY <1>2, <1>4, <1>6, <2>2, <2>3 DEF Current
<1>7. QED
  BY <1>1, <1>2, <1>4, <1>5, <1>6

\* A request that is served goes on to another phase, and leaves the others
\* alone.
LEMMA ServeStep ==
  ASSUME TypeOK, NEW r \in Requests, Serve(r)
  PROVE  /\ req'[r].phase # req[r].phase
         /\ req'[r] = Idle \/ req'[r].client = req[r].client
         /\ \A p \in Requests : p # r => req'[p] = req[p]
<1>1. req \in [Requests -> Request] /\ req[r] \in Request /\ Idle.phase = "idle"
  BY DEF TypeOK, Idle
<1>2. \A p \in Requests : p # r => req'[p] = req[p]
  BY <1>1 DEF Serve, Find, FindFails, Rotate, RotateFails, SignAccess, Revoke,
              RevokeRefused, Deliver, Lose
<1>3. CASE Find(r)
  <2>1. PICK i \in SessionIds : req'[r] = [req[r] EXCEPT !.phase = "found", !.session = i]
    BY <1>1, <1>3 DEF Find
  <2>2. req'[r].phase = "found" /\ req'[r].client = req[r].client
    BY <1>1, <2>1 DEF Request
  <2>3. QED
    BY <1>2, <1>3, <2>2 DEF Find, At
<1>4. CASE Rotate(r)
  <2>1. req'[r] = [req[r] EXCEPT !.phase = "rotated", !.answer = FreshToken]
    BY <1>1, <1>4 DEF Rotate
  <2>2. req'[r].phase = "rotated" /\ req'[r].client = req[r].client
    BY <1>1, <2>1 DEF Request
  <2>3. QED
    BY <1>2, <1>4, <2>2 DEF Rotate, At
<1>5. CASE SignAccess(r) \/ Revoke(r)
  <2>1. /\ req[r].phase \in {"rotated", "sent"}
        /\ \E p \in {"signed", "revoked"} : req'[r] = [req[r] EXCEPT !.phase = p]
    BY <1>1, <1>5 DEF SignAccess, Revoke, At
  <2>2. req'[r].phase \in {"signed", "revoked"} /\ req'[r].client = req[r].client
    BY <1>1, <2>1 DEF Request
  <2>3. QED
    BY <1>2, <2>1, <2>2
<1>6. CASE FindFails(r) \/ RotateFails(r) \/ RevokeRefused(r) \/ Deliver(r) \/ Lose(r)
  <2>1. req'[r] = Idle /\ req[r].phase # "idle"
    BY <1>1, <1>6 DEF FindFails, RotateFails, RevokeRefused, Deliver, Lose, At
  <2>2. QED
    BY <1>1, <1>2, <2>1
<1>7. QED
  BY <1>3, <1>4, <1>5, <1>6 DEF Serve

\* What a browser will end up with stays current.
LEMMA CookieStep ==
  ASSUME TypeOK, TypeOK', TokensAreFresh, OwnersMatch, CookieInvariant, [Next]_vars,
         NEW c \in Clients
  PROVE  CookieOrder(c)'
<1>1. /\ req \in [Requests -> Request] /\ orderly \in [Clients -> BOOLEAN]
      /\ jar \in [Clients -> Nat] /\ issued \in Nat
      /\ Idle.phase = "idle" /\ ~Answering(Idle)
  BY DEF TypeOK, StoreTypeOK, Idle, Answering
<1>2. RowsApart /\ CookieOrder(c)
  BY DEF CookieInvariant
\* The same table and the same cookie keep current what was.
<1>3. ASSUME NEW t, Current(t), UNCHANGED storeVars
      PROVE  Current(t)'
  BY <1>3 DEF Current, storeVars, Used, TokenOf
<1>4. CASE Login(c)
  <2>1. PICK s \in SessionIds : InsertSession(s, Owner[c])
    BY <1>4 DEF Login
  <2>2. Used(s)' /\ TokenOf(s)' = issued + 1 /\ jar'[c] = issued + 1
    BY <1>1, <1>4, <2>1 DEF Login, InsertSession, FreshToken, HashToken, Used, TokenOf,
                            TypeOK, StoreTypeOK
  <2>3. Current(jar[c])'
    BY <2>2 DEF Current
  <2>4. orderly'[c] => InFlight(c) = {}
    BY <1>1, <1>4 DEF Login
  <2>5. InFlight(c)' = InFlight(c)
    BY <1>4 DEF Login, InFlight
  <2>6. QED
    BY <2>3, <2>4, <2>5 DEF CookieOrder
<1>5. ASSUME NEW r \in Requests, NEW k \in Kind, Send(r, c, k)
      PROVE  CookieOrder(c)'
  <2>1. orderly'[c] => orderly[c] /\ InFlight(c) = {}
    BY <1>1, <1>5 DEF Send
  <2>2. /\ \A p \in Requests : p # r => req'[p] = req[p]
        /\ req'[r].phase = "sent"
        /\ jar' = jar /\ UNCHANGED storeVars
    BY <1>1, <1>5 DEF Send
  <2>3. orderly'[c] => Current(jar[c])'
    <3>1. orderly'[c] => Current(jar[c])
      BY <1>2, <2>1 DEF CookieOrder
    <3>2. PICK t : t = jar[c]
      OBVIOUS
    <3>3. orderly'[c] => Current(t)'
      BY <1>3, <2>2, <3>1, <3>2
    <3>4. QED
      BY <2>2, <3>2, <3>3 DEF Current
  <2>4. orderly'[c] => \A p \in InFlight(c)' : p = r
    BY <2>1, <2>2 DEF InFlight
  <2>5. \A p \in InFlight(c)' : orderly'[c] => ~Answering(req'[p])
    BY <2>2, <2>4 DEF Answering
  <2>6. QED
    BY <2>3, <2>4, <2>5 DEF CookieOrder, Answering
<1>6. ASSUME NEW r \in Requests, Rotate(r), req[r].client = c
      PROVE  CookieOrder(c)'
  <2>1. /\ req[r] \in Request /\ req[r].phase = "found"
        /\ req[r].session \in SessionIds /\ RotateSession(req[r].session)
    BY <1>1, <1>6 DEF Rotate, At, Working, TypeOK, Request
  <2>2. /\ req'[r] = [req[r] EXCEPT !.phase = "rotated", !.answer = FreshToken]
        /\ \A p \in Requests : p # r => req'[p] = req[p]
        /\ orderly' = orderly
    BY <1>1, <1>6 DEF Rotate
  <2>3. /\ req'[r].phase = "rotated" /\ req'[r].answer = issued + 1
        /\ req'[r].client = c
    BY <1>6, <2>1, <2>2 DEF Request, FreshToken
  <2>4. PICK s \in SessionIds : s = req[r].session
    BY <2>1
  <2>5. Used(s)' /\ TokenOf(s)' = issued + 1
    <3>1. sessions[s] \in SessionRow /\ sessions \in [SessionIds -> SessionRow]
      BY DEF TypeOK, StoreTypeOK
    <3>2. Stored(s) /\ sessions'[s] =
            [sessions[s] EXCEPT !.tokenHash = HashToken(FreshToken), !.left = Lifetime]
      BY <2>1, <2>4, <3>1 DEF RotateSession
    <3>3. sessions'[s].tokenHash = HashToken(FreshToken) /\ sessions'[s].state # "unused"
      BY <3>1, <3>2 DEF SessionRow, Stored, Live, Revoked
    <3>4. QED
      BY <3>3 DEF HashToken, FreshToken, Used, TokenOf
  <2>6. Current(req[r].answer)'
    BY <2>3, <2>5 DEF Current
  <2>7. r \in InFlight(c) /\ r \in InFlight(c)' /\ Answering(req'[r])
    BY <1>6, <2>1, <2>3 DEF InFlight, Answering
  <2>8. InFlight(c)' = InFlight(c)
    BY <1>6, <2>1, <2>2, <2>3 DEF InFlight
  <2>9. orderly'[c] => \A p \in InFlight(c)' : p = r
    BY <1>2, <2>2, <2>7, <2>8 DEF CookieOrder
  <2>10. QED
    BY <2>6, <2>7, <2>9 DEF CookieOrder, Answering
<1>7. ASSUME NEW r \in Requests, Deliver(r), req[r].client = c
      PROVE  CookieOrder(c)'
  <2>1. /\ req[r].phase \in {"signed", "revoked"}
        /\ jar'[c] = CookieAfter(r)
        /\ req'[r] = Idle /\ \A p \in Requests : p # r => req'[p] = req[p]
        /\ UNCHANGED storeVars /\ orderly' = orderly
    BY <1>1, <1>7 DEF Deliver
  <2>2. r \in InFlight(c)
    BY <1>7, <2>1 DEF InFlight
  <2>3. orderly'[c] => InFlight(c)' = {}
    <3>1. orderly'[c] => \A p \in InFlight(c) : p = r
      BY <1>2, <2>1, <2>2 DEF CookieOrder
    <3>2. \A p \in InFlight(c)' : p # r /\ p \in InFlight(c)
      BY <1>1, <2>1 DEF InFlight
    <3>3. QED
      BY <3>1, <3>2
  <2>4. orderly'[c] => Current(CookieAfter(r))
    <3>1. CASE req[r].kind = "refresh"
      <4>1. Answering(req[r])
        BY <2>1, <3>1 DEF CookieInvariant, Answering
      <4>2. QED
        BY <1>2, <2>1, <2>2, <3>1, <4>1 DEF CookieOrder, CookieAfter
    <3>2. CASE req[r].kind # "refresh"
      BY <3>2 DEF CookieAfter, Current
    <3>3. QED
      BY <3>1, <3>2
  <2>5. orderly'[c] => Current(jar[c])'
    <3>1. PICK t : t = CookieAfter(r)
      OBVIOUS
    <3>2. orderly'[c] => Current(t)'
      BY <1>3, <2>1, <2>4, <3>1
    <3>3. QED
      BY <2>1, <3>1, <3>2 DEF Current
  <2>6. QED
    BY <2>3, <2>5 DEF CookieOrder
\* Everything else is quiet for c.
<1>8. ASSUME orderly'[c] => orderly[c] /\ jar'[c] = jar[c],
             \A r \in Requests : Rotate(r) => req[r].client # c,
             \A r \in Requests :
               \/ req'[r] = req[r]
               \/ /\ req'[r] = Idle
                  /\ orderly'[c] /\ req[r].client = c => ~Answering(req[r])
               \/ /\ req'[r].client = req[r].client /\ req'[r].answer = req[r].answer
                  /\ req[r].phase # "idle" /\ (Answering(req'[r]) <=> Answering(req[r]))
               \/ req'[r].client # c /\ req[r].phase = "idle"
               \/ req'[r].client # c /\ req[r].client # c
      PROVE  CookieOrder(c)'
  <2>1. \A r \in Requests : req'[r].phase # "idle" /\ req'[r].client = c =>
           /\ req[r].phase # "idle" /\ req[r].client = c
           /\ req'[r].answer = req[r].answer
           /\ Answering(req'[r]) => Answering(req[r])
    BY <1>1, <1>8
  <2>2. orderly'[c] => \A r \in Requests :
           req[r].client = c /\ Answering(req[r]) =>
             req'[r].client = c /\ Answering(req'[r])
    BY <1>1, <1>8 DEF Answering
  <2>3. QED
    BY <1>2, <1>8, <2>1, <2>2, QuietStep
<1>9. CASE AdvanceTime
  <2>1. \A r \in Requests : req'[r] = req[r] \/
          /\ req'[r].client = req[r].client /\ req'[r].answer = req[r].answer
          /\ req[r].phase # "idle" /\ req'[r].phase = req[r].phase
    BY <1>1, <1>9 DEF AdvanceTime, Request
  <2>2. \A r \in Requests : ~Rotate(r)
    <3>1. \A r \in Requests : At(r, {"refresh"}, "found") => req'[r].phase = "found"
      BY <2>1 DEF At
    <3>2. \A r \in Requests : Rotate(r) => req'[r].phase = "rotated"
      BY <1>1 DEF Rotate, Request
    <3>3. QED
      BY <3>1, <3>2 DEF Rotate
  <2>3. jar' = jar /\ orderly' = orderly
    BY <1>9 DEF AdvanceTime
  <2>4. QED
    BY <1>8, <2>1, <2>2, <2>3 DEF Answering
<1>10. CASE UNCHANGED req
  <2>1. \A r \in Requests : ~Rotate(r)
    BY <1>1, <1>10 DEF Rotate, At, Request
  <2>2. CASE orderly'[c] => orderly[c] /\ jar'[c] = jar[c]
    BY <1>8, <1>10, <2>1, <2>2
  <2>3. ASSUME NEW b \in Clients, Login(b), b # c
        PROVE  orderly'[c] = orderly[c] /\ jar'[c] = jar[c]
    BY <1>1, <2>3 DEF Login
  <2>4. ASSUME NEW r \in Requests, Serve(r)
        PROVE  FALSE
    BY <1>10, <2>4, ServeStep
  <2>5. ASSUME NEW r \in Requests, NEW b \in Clients, NEW k \in Kind, Send(r, b, k)
        PROVE  FALSE
    BY <1>1, <1>10, <2>5 DEF Send, Request
  <2>6. QED
    BY <1>4, <1>9, <2>2, <2>3, <2>4, <2>5
    DEF Next, ForceLogout, SetActive, Cleanup, vars
<1>11. ASSUME NEW r \in Requests, NEW b \in Clients, b # c, NEW k \in Kind, Send(r, b, k)
       PROVE  CookieOrder(c)'
  <2>1. /\ \A p \in Requests : p # r => req'[p] = req[p]
        /\ req'[r].client = b /\ req[r].phase = "idle" /\ req'[r].phase = "sent"
        /\ orderly'[c] = orderly[c] /\ jar' = jar
    BY <1>1, <1>11 DEF Send
  <2>2. \A p \in Requests : ~Rotate(p)
    BY <1>1, <2>1 DEF Rotate, At, Request
  <2>3. QED
    BY <1>8, <1>11, <2>1, <2>2
<1>12. ASSUME NEW r \in Requests, Serve(r),
              req[r].client = c => ~Rotate(r) /\ ~Deliver(r)
       PROVE  CookieOrder(c)'
  <2>1. /\ \A p \in Requests : p # r => req'[p] = req[p]
        /\ req'[r] = Idle \/ req'[r].client = req[r].client
    BY <1>12, ServeStep
  <2>2. \A p \in Requests : p # r => ~Rotate(p)
    BY <1>1, <2>1 DEF Rotate, At, Request
  <2>3. orderly'[c] => orderly[c] /\ jar'[c] = jar[c]
    BY <1>1, <1>12 DEF Serve, Find, FindFails, Rotate, RotateFails, SignAccess, Revoke,
                        RevokeRefused, Deliver, Lose
  <2>4. CASE req[r].client # c
    <3>1. \A p \in Requests : Rotate(p) => req[p].client # c
      BY <2>2, <2>4
    <3>2. \A p \in Requests : \/ req'[p] = req[p]
                              \/ req'[p] = Idle /\ req[p].client # c
                              \/ req'[p].client # c /\ req[p].client # c
      BY <2>1, <2>4
    <3>3. QED
      BY <1>8, <2>3, <3>1, <3>2
  <2>5. CASE req[r].client = c
    <3>1. CASE Find(r) \/ SignAccess(r) \/ Revoke(r)
      <4>1. /\ req'[r].client = req[r].client /\ req'[r].answer = req[r].answer
            /\ req[r].phase # "idle" /\ (Answering(req'[r]) <=> Answering(req[r]))
        <5>1. CASE Find(r)
          <6>1. PICK i \in SessionIds :
                  req'[r] = [req[r] EXCEPT !.phase = "found", !.session = i]
            BY <1>1, <5>1 DEF Find
          <6>2. req'[r].client = req[r].client /\ req'[r].answer = req[r].answer
            BY <1>1, <6>1 DEF Request
          <6>3. req[r].phase = "sent" /\ req'[r].phase = "found"
            BY <1>1, <5>1, <6>1 DEF Find, At, Request
          <6>4. QED
            BY <6>2, <6>3 DEF Answering
        <5>2. CASE SignAccess(r)
          BY <1>1, <5>2 DEF SignAccess, At, Request, Answering
        <5>3. CASE Revoke(r)
          BY <1>1, <5>3 DEF Revoke, At, Request, Answering
        <5>4. QED
          BY <3>1, <5>1, <5>2, <5>3
      <4>2. QED
        BY <1>8, <1>12, <2>1, <2>2, <2>3, <2>5, <4>1
    <3>2. CASE FindFails(r) \/ RotateFails(r) \/ RevokeRefused(r) \/ Lose(r)
      <4>1. req'[r] = Idle /\ (orderly'[c] => ~Answering(req[r]))
        BY <1>1, <2>5, <3>2 DEF FindFails, RotateFails, RevokeRefused, Lose, At, Answering
      <4>2. QED
        BY <1>8, <1>12, <2>1, <2>2, <2>3, <2>5, <4>1
    <3>3. QED
      BY <1>12, <2>5, <3>1, <3>2 DEF Serve
  <2>6. QED
    BY <2>4, <2>5
<1>13. QED
  BY <1>4, <1>5, <1>6, <1>7, <1>9, <1>10, <1>11, <1>12
  DEF Next, Login, ForceLogout, SetActive, Cleanup, vars, Serve

\* A browser that sends one request at a time and gets every answer is never
\* left with a superseded token, whatever every other browser, the clean-up
\* and the administrators do in between.
THEOREM CookieFollows == Spec => []CookieFollowsRotation
<1>1. Init => CookieInvariant
  <2> SUFFICES ASSUME Init
               PROVE  CookieInvariant
    OBVIOUS
  <2>1. \A s \in SessionIds : ~Used(s)
    BY DEF Init, StoreInit, UnusedRow, Used
  <2>2. \A c \in Clients : InFlight(c) = {} /\ Current(jar[c])
    BY DEF Init, Idle, InFlight, Current
  <2>3. \A r \in Requests : req[r].phase = "idle"
    BY DEF Init, Idle
  <2>4. QED
    BY <2>1, <2>2, <2>3 DEF CookieInvariant, RowsApart, Touches, Claims, CookieOrder
<1>2. /\ TypeOK /\ TypeOK' /\ TokensAreFresh /\ TokensAreFresh' /\ OwnersMatch
      /\ CookieInvariant /\ [Next]_vars
      => CookieInvariant'
  <2> SUFFICES ASSUME TypeOK, TypeOK', TokensAreFresh, TokensAreFresh', OwnersMatch,
                      CookieInvariant, [Next]_vars
               PROVE  CookieInvariant'
    OBVIOUS
  <2>1. RowsApart'
    BY RowsApartStep DEF CookieInvariant
  <2>2. \A r \in Requests : req'[r].phase = "revoked" => req'[r].kind # "refresh"
    <3> SUFFICES ASSUME NEW r \in Requests, req'[r].phase = "revoked"
                 PROVE  req'[r].kind # "refresh"
      OBVIOUS
    <3>1. /\ req \in [Requests -> Request]
          /\ req[r].phase = "revoked" => req[r].kind # "refresh"
      BY DEF TypeOK, CookieInvariant
    <3>2. CASE Find(r) \/ Rotate(r)
      BY <3>1, <3>2 DEF Find, Rotate, Request
    <3>3. CASE SignAccess(r) \/ Revoke(r) \/ AdvanceTime
      BY <3>1, <3>3 DEF SignAccess, Revoke, AdvanceTime, At, Request
    <3>4. CASE \E c \in Clients, k \in Kind : Send(r, c, k)
      BY <3>1, <3>4 DEF Send
    <3>5. QED
      <4>1. req'[r] = Idle => req'[r].phase = "idle"
        BY DEF Idle
      <4>2. QED
        BY <3>1, <3>2, <3>3, <3>4, <4>1, RequestStep
  <2>3. \A c \in Clients : CookieOrder(c)'
    BY CookieStep
  <2>4. QED
    BY <2>1, <2>2, <2>3 DEF CookieInvariant
<1>3. TypeOK /\ CookieInvariant => CookieFollowsRotation
  <2> SUFFICES ASSUME TypeOK, CookieInvariant,
                      NEW c \in Clients, orderly[c], InFlight(c) = {}, jar[c] # NoToken
               PROVE  \E s \in SessionIds : sessions[s].tokenHash = HashToken(jar[c])
    BY DEF CookieFollowsRotation
  <2>1. PICK s \in SessionIds : TokenOf(s) = jar[c]
    BY DEF CookieInvariant, CookieOrder, Current
  <2>2. sessions[s].tokenHash \in [sha256 : Nat]
    BY DEF TypeOK, StoreTypeOK, SessionRow
  <2>3. QED
    BY <2>1, <2>2 DEF HashToken, TokenOf
<1>4. QED
  BY <1>1, <1>2, <1>3, TypeCorrect, FreshTokens, OwnersInvariant, PTL DEF Spec
=============================================================================
