----------------------- MODULE AuthorizationCodeProofs -----------------------
(***************************************************************************)
(* Proofs about AuthorizationCode, for every set of accounts, codes,       *)
(* sessions and requests and any number of resets.                         *)
(***************************************************************************)
EXTENDS AuthorizationCode, SessionStoreProofs

USE StoreAssumption, CodeAssumption

-----------------------------------------------------------------------------
(* Type correctness. *)

\* A row that exists, and a code that was issued, have an owner; a request
\* past the reading of a code has the code, past the finding or the opening
\* of a session the session.  The types alone do not say so.
Owned ==
  /\ \A s \in SessionIds : Used(s) => sessions[s].user \in Users
  /\ \A c \in CodeIds : codes[c].state # "unused" => codes[c].user \in Users
  /\ \A r \in Requests :
       /\ req[r].phase \in {"read", "checked", "consumed", "created"} => req[r].code \in CodeIds
       /\ req[r].phase \in {"found", "created"} => req[r].session \in SessionIds

TypeInv == TypeOK /\ Owned

LEMMA IdleType == Idle \in Request /\ Idle.kind = "authorize" /\ Idle.phase = "idle"
BY DEF Idle, Request, Kind, Phase, Code, UnusedCode

LEMMA InitType == Init => TypeInv
<1>1. UnusedRow \in SessionRow
  BY DEF UnusedRow, SessionRow, HashToken, NoToken
<1>2. QED
  BY <1>1, IdleType DEF Init, StoreInit, TypeInv, TypeOK, StoreTypeOK, Owned, Used, UnusedRow,
    Account, Code, UnusedCode, Source

\* A request record with a field changed is a request record.
LEMMA RequestFields ==
  ASSUME NEW q \in Request
  PROVE  /\ \A k \in Kind : [q EXCEPT !.kind = k] \in Request
         /\ \A p \in Phase : [q EXCEPT !.phase = p] \in Request
         /\ \A u \in Users : [q EXCEPT !.user = u] \in Request
         /\ \A c \in CodeIds : [q EXCEPT !.code = c] \in Request
         /\ \A d \in Code : [q EXCEPT !.row = d] \in Request
         /\ \A s \in SessionIds : [q EXCEPT !.session = s] \in Request
         /\ \A n \in Nat : [q EXCEPT !.seen = n] \in Request
BY DEF Request


\* A request that starts is a request record.
LEMMA StartedRequest ==
  ASSUME NEW k \in Kind, NEW p \in Phase, NEW u \in Users
  PROVE  [Idle EXCEPT !.kind = k, !.phase = p, !.user = u] \in Request
<1>1. [Idle EXCEPT !.kind = k] \in Request
  BY IdleType, RequestFields
<1>2. [Idle EXCEPT !.kind = k, !.phase = p] \in Request
  BY <1>1, RequestFields
<1>3. QED
  BY <1>2, RequestFields

LEMMA TypeStep ==
  ASSUME TypeInv, [Next]_vars
  PROVE  TypeInv'
<1> USE IdleType DEF TypeInv, TypeOK, Owned
<1>1. ASSUME NEW u \in Users, PortalLogin(u)
      PROVE  TypeInv'
  <2>1. StoreTypeOK' /\ \A s \in SessionIds : Used(s)' => sessions'[s].user \in Users
    BY <1>1, OwnersKept DEF PortalLogin
  <2>2. source' \in [SessionIds -> Source]
    BY <1>1 DEF PortalLogin, Source, Account
  <2>3. QED
    BY <1>1, <2>1, <2>2 DEF PortalLogin
<1>2. ASSUME NEW r \in Requests, NEW k \in {"authorize", "refresh"}, SessionFound(r, k)
      PROVE  TypeInv'
  <2>1. PICK s \in SessionIds :
          /\ Used(s)
          /\ Goes(r, [Idle EXCEPT !.kind = k, !.phase = "found",
                                  !.user = sessions[s].user, !.session = s])
    BY <1>2 DEF SessionFound, FindValidSession, Live, Used
  <2>2. req'[r] \in Request /\ req'[r].phase = "found" /\ req'[r].session = s
    <3>1. sessions[s].user \in Users
      BY <2>1
    <3>2. [Idle EXCEPT !.kind = k, !.phase = "found", !.user = sessions[s].user] \in Request
      BY <3>1, StartedRequest DEF Kind, Phase
    <3>3. [Idle EXCEPT !.kind = k, !.phase = "found", !.user = sessions[s].user, !.session = s]
            \in Request
      BY <3>2, RequestFields
    <3>4. QED
      BY <2>1, <3>3 DEF Goes, Request
  <2>3. QED
    BY <1>2, <2>1, <2>2 DEF SessionFound, storeVars, Goes, Used, StoreTypeOK
<1>3. ASSUME NEW r \in Requests, NEW u \in Users, ResolveByAccessToken(r, u)
      PROVE  TypeInv'
  <2>1. req'[r] \in Request /\ req'[r].phase = "resolved"
    <3> DEFINE q == [Idle EXCEPT !.phase = "resolved", !.user = u, !.seen = account[u].resets]
    <3>1. [Idle EXCEPT !.phase = "resolved"] \in Request
      BY RequestFields DEF Phase
    <3>2. [Idle EXCEPT !.phase = "resolved", !.user = u] \in Request
      BY <3>1, RequestFields
    <3>3. account[u].resets \in Nat
      BY DEF Account
    <3>4. q \in Request /\ q.phase = "resolved"
      BY <3>2, <3>3, RequestFields DEF Request
    <3>5. QED
      BY <1>3, <3>4 DEF ResolveByAccessToken, Goes
  <2>2. QED
    BY <1>3, <2>1 DEF ResolveByAccessToken, Goes, storeVars, Used, StoreTypeOK
<1>4. ASSUME NEW r \in Requests, ResolveByRefreshToken(r)
      PROVE  TypeInv'
  <2>1. req[r] \in Request /\ account[req[r].user].resets \in Nat
    BY DEF Request, Account
  <2>2. req'[r] \in Request /\ req'[r].phase = "resolved"
    <3>1. [req[r] EXCEPT !.phase = "resolved"] \in Request
      BY <2>1, RequestFields DEF Phase
    <3>2. [req[r] EXCEPT !.phase = "resolved", !.seen = account[req[r].user].resets] \in Request
      BY <2>1, <3>1, RequestFields
    <3>3. QED
      BY <1>4, <2>1, <3>2 DEF ResolveByRefreshToken, Goes, Request
  <2>3. QED
    BY <1>4, <2>2 DEF ResolveByRefreshToken, Goes, storeVars, Used, StoreTypeOK
<1>5. ASSUME NEW r \in Requests, NEW c \in CodeIds, IssueAuthorizationCode(r, c)
      PROVE  TypeInv'
  <2>1. codes' \in [CodeIds -> Code] /\ codes'[c].user \in Users
    BY <1>5 DEF IssueAuthorizationCode, Code, Request
  <2>2. QED
    BY <1>5, <2>1 DEF IssueAuthorizationCode, Finish, Goes, storeVars, Used, StoreTypeOK
<1>6. ASSUME NEW r \in Requests, NEW c \in CodeIds, ReadCode(r, c)
      PROVE  TypeInv'
  <2>1. codes[c] \in Code /\ codes[c].user \in Users
    BY <1>6 DEF ReadCode
  <2>2. req'[r] \in Request /\ req'[r].phase = "read" /\ req'[r].code = c
    BY <1>6, <2>1 DEF ReadCode, Goes, Request, Idle, Kind, Phase, Code
  <2>3. QED
    BY <1>6, <2>2 DEF ReadCode, Goes, storeVars, Used, StoreTypeOK
<1>7. ASSUME NEW r \in Requests, DetectReuse(r)
      PROVE  TypeInv'
  <2>1. req[r].code \in CodeIds
    BY <1>7 DEF DetectReuse, At
  <2>2. StoreTypeOK' /\ \A s \in SessionIds : Used(s)' => sessions'[s].user \in Users
    BY <1>7, OwnersKept DEF DetectReuse, RevokeById
  <2>3. QED
    BY <1>7, <2>1, <2>2 DEF DetectReuse, Finish, Goes
<1>8. ASSUME NEW r \in Requests, CheckCode(r)
      PROVE  TypeInv'
  <2>1. req'[r] \in Request /\ req'[r].phase = "checked" /\ req'[r].code = req[r].code
    <3>1. req'[r] = [req[r] EXCEPT !.phase = "checked"]
      BY <1>8 DEF CheckCode, Goes
    <3>2. req[r] \in Request
      OBVIOUS
    <3>3. [req[r] EXCEPT !.phase = "checked"] \in Request
      BY <3>2, RequestFields DEF Phase
    <3>4. QED
      BY <3>1, <3>2, <3>3 DEF Request
  <2>2. QED
    BY <1>8, <2>1 DEF CheckCode, Goes, At, storeVars, Used, StoreTypeOK
<1>9. ASSUME NEW r \in Requests, Consume(r)
      PROVE  TypeInv'
  <2>1. CASE codes[req[r].code].state = "open"
    <3>1. req[r].code \in CodeIds
      BY <1>9 DEF Consume, At
    <3>2. codes' = [codes EXCEPT ![req[r].code].state = "consumed"]
      BY <1>9, <2>1 DEF Consume
    <3>3. codes' \in [CodeIds -> Code] /\ \A c \in CodeIds : codes'[c].user = codes[c].user
      BY <3>1, <3>2 DEF Code
    <3>4. req'[r] \in Request /\ req'[r].phase = "consumed" /\ req'[r].code = req[r].code
      <4>1. req'[r] = [req[r] EXCEPT !.phase = "consumed"]
        BY <1>9, <2>1 DEF Consume, Goes
      <4>2. req[r] \in Request
        OBVIOUS
      <4>3. [req[r] EXCEPT !.phase = "consumed"] \in Request
        BY <4>2, RequestFields DEF Phase
      <4>4. QED
        BY <4>1, <4>2, <4>3 DEF Request
    <3>5. \A c \in CodeIds : codes'[c].state # "unused" => codes[c].state # "unused"
      BY <2>1, <3>1, <3>2
    <3>6. QED
      BY <1>9, <2>1, <3>1, <3>3, <3>4, <3>5 DEF Consume, Goes, storeVars, Used, StoreTypeOK
  <2>2. CASE codes[req[r].code].state # "open"
    BY <1>9, <2>2 DEF Consume, Finish, Goes, storeVars, Used, StoreTypeOK
  <2>3. QED
    BY <2>1, <2>2
<1>10. ASSUME NEW r \in Requests, OpenDerivedSession(r)
       PROVE  TypeInv'
  <2> DEFINE q == req[r]
  <2>1. q \in Request /\ q.code \in CodeIds /\ q.user \in Users /\ q.seen \in Nat
    BY <1>10 DEF OpenDerivedSession, At, Request
  <2>2. PICK s \in SessionIds :
          /\ InsertSession(s, q.user)
          /\ source' = [source EXCEPT ![s] =
               [code |-> q.code, seen |-> q.seen, resets |-> account[q.user].resets]]
          /\ Goes(r, [q EXCEPT !.phase = "created", !.session = s])
    BY <1>10 DEF OpenDerivedSession
  <2>3. StoreTypeOK' /\ \A i \in SessionIds : Used(i)' => sessions'[i].user \in Users
    BY <2>1, <2>2, OwnersKept
  <2>4. [q EXCEPT !.phase = "created"] \in Request
    BY <2>1, RequestFields DEF Phase
  <2>5. [q EXCEPT !.phase = "created", !.session = s] \in Request
    BY <2>1, <2>4, RequestFields
  <2>6. req'[r] \in Request /\ req'[r].code = q.code /\ req'[r].session = s
    BY <2>1, <2>2, <2>5 DEF Goes, Request
  <2>7. source' \in [SessionIds -> Source]
    BY <2>1, <2>2 DEF Source, Account
  <2>8. QED
    BY <1>10, <2>1, <2>2, <2>3, <2>6, <2>7 DEF OpenDerivedSession, Goes
<1>11. ASSUME NEW r \in Requests, RecordSession(r)
       PROVE  TypeInv'
  <2>1. req[r].code \in CodeIds /\ req[r].session \in SessionIds
    BY <1>11 DEF RecordSession, At
  <2>2. /\ codes' \in [CodeIds -> Code]
        /\ \A c \in CodeIds : codes'[c].user = codes[c].user /\ codes'[c].state = codes[c].state
    BY <1>11, <2>1 DEF RecordSession, Code
  <2>3. QED
    BY <1>11, <2>2 DEF RecordSession, Finish, Goes, storeVars, Used, StoreTypeOK
<1>12. ASSUME NEW r \in Requests, RotateDerived(r)
       PROVE  TypeInv'
  <2>1. req[r].session \in SessionIds
    BY <1>12 DEF RotateDerived, At
  <2>2. StoreTypeOK' /\ \A s \in SessionIds : Used(s)' => sessions'[s].user \in Users
    BY <1>12, <2>1, OwnersKept DEF RotateDerived
  <2>3. QED
    BY <1>12, <2>2 DEF RotateDerived, Finish, Goes
<1>13. ASSUME NEW t \in 1 .. issued, OidcLogout(t)
       PROVE  TypeInv'
  <2>1. StoreTypeOK' /\ \A s \in SessionIds : Used(s)' => sessions'[s].user \in Users
    BY <1>13, OwnersKept DEF OidcLogout, RevokeByToken
  <2>2. QED
    BY <1>13, <2>1 DEF OidcLogout
<1>14. ASSUME NEW r \in Requests, NEW u \in Users, ResetPassword(r, u)
       PROVE  TypeInv'
  <2>1. account' \in [Users -> Account]
    BY <1>14 DEF ResetPassword, Account
  <2>2. req'[r] \in Request /\ req'[r].phase = "written"
    <3>1. [Idle EXCEPT !.kind = "reset", !.phase = "written", !.user = u] \in Request
      BY StartedRequest DEF Kind, Phase
    <3>2. QED
      BY <1>14, <3>1 DEF ResetPassword, Goes, Request
  <2>3. QED
    BY <1>14, <2>1, <2>2 DEF ResetPassword, Goes, storeVars, Used, StoreTypeOK
<1>15. ASSUME NEW r \in Requests, RevokeSessions(r)
       PROVE  TypeInv'
  <2>1. StoreTypeOK' /\ \A s \in SessionIds : Used(s)' => sessions'[s].user \in Users
    BY <1>15, OwnersKept DEF RevokeSessions, RevokeAll
  <2>2. QED
    BY <1>15, <2>1 DEF RevokeSessions, Finish, Goes
<1>16. ASSUME NEW u \in Users, ClearMark(u)
       PROVE  TypeInv'
  BY <1>16 DEF ClearMark, Account, storeVars, Used, StoreTypeOK
<1>17. ASSUME NEW u \in Users, NEW flag \in BOOLEAN, UpdateActive(u, flag)
       PROVE  TypeInv'
  BY <1>17 DEF UpdateActive, Account, storeVars, Used, StoreTypeOK
<1>18. ASSUME NEW r \in Requests, Abandon(r)
       PROVE  TypeInv'
  BY <1>18 DEF Abandon, Finish, Goes, storeVars, Used, StoreTypeOK
<1>19. ASSUME NEW c \in CodeIds, ExpireCode(c)
       PROVE  TypeInv'
  <2>1. codes' \in [CodeIds -> Code]
    <3>1. \A d \in Code : [d EXCEPT !.expired = TRUE] \in Code
      BY Zenon DEF Code
    <3>2. QED
      BY <1>19, <3>1 DEF ExpireCode
  <2>2. \A d \in CodeIds : codes'[d].user = codes[d].user /\ codes'[d].state = codes[d].state
    BY <1>19 DEF ExpireCode, Code
  <2>3. QED
    BY <1>19, <2>1, <2>2 DEF ExpireCode, storeVars, Used, StoreTypeOK
<1>20. CASE UNCHANGED vars
  BY <1>20 DEF vars, Used, StoreTypeOK
<1>21. QED
  BY <1>1, <1>2, <1>3, <1>4, <1>5, <1>6, <1>7, <1>8, <1>9, <1>10, <1>11, <1>12, <1>13, <1>14,
    <1>15, <1>16, <1>17, <1>18, <1>19, <1>20 DEF Next

LEMMA TypeInvariant == Spec => []TypeInv
<1>1. TypeInv /\ [Next]_vars => TypeInv'
  BY TypeStep
<1>2. QED
  BY <1>1, InitType, PTL DEF Spec

\* The tables, the requests and the histories keep their types.
THEOREM TypeCorrect == Spec => []TypeOK
BY TypeInvariant, PTL DEF TypeInv

-----------------------------------------------------------------------------
(* What a step does to the rows. *)

\* Only two actions insert a row and give it a source.
LEMMA TableStep ==
  ASSUME TypeInv, [Next]_vars
  PROVE  \/ \E u \in Users : PortalLogin(u)
         \/ \E r \in Requests : OpenDerivedSession(r)
         \/ /\ source' = source
            /\ \/ \E s \in SessionIds : RotateSession(s)
               \/ \E S : RevokeRows(S)
               \/ UNCHANGED storeVars
<1>1. ASSUME NEW r \in Requests, RotateDerived(r)
      PROVE  source' = source /\ \E s \in SessionIds : RotateSession(s)
  BY <1>1 DEF RotateDerived, At, TypeInv, Owned
<1>2. ASSUME NEW r \in Requests, DetectReuse(r) \/ RevokeSessions(r)
      PROVE  source' = source /\ (UNCHANGED storeVars \/ \E S : RevokeRows(S))
  BY <1>2 DEF DetectReuse, RevokeById, RevokeSessions, RevokeAll
<1>3. ASSUME NEW t \in 1 .. issued, OidcLogout(t)
      PROVE  source' = source /\ \E S : RevokeRows(S)
  BY <1>3 DEF OidcLogout, RevokeByToken
<1>4. ASSUME NEW r \in Requests,
             \/ \E k \in {"authorize", "refresh"} : SessionFound(r, k)
             \/ \E u \in Users : ResolveByAccessToken(r, u) \/ ResetPassword(r, u)
             \/ \E c \in CodeIds : IssueAuthorizationCode(r, c) \/ ReadCode(r, c)
             \/ ResolveByRefreshToken(r) \/ CheckCode(r) \/ Consume(r) \/ RecordSession(r)
             \/ Abandon(r)
      PROVE  source' = source /\ UNCHANGED storeVars
  BY <1>4 DEF SessionFound, ResolveByAccessToken, ResetPassword, IssueAuthorizationCode, ReadCode,
    ResolveByRefreshToken, CheckCode, Consume, RecordSession, Abandon
<1>5. ASSUME \/ \E u \in Users : ClearMark(u)
             \/ \E u \in Users, flag \in BOOLEAN : UpdateActive(u, flag)
             \/ \E c \in CodeIds : ExpireCode(c)
             \/ UNCHANGED vars
      PROVE  source' = source /\ UNCHANGED storeVars
  BY <1>5 DEF ClearMark, UpdateActive, ExpireCode, vars, storeVars
<1>6. QED
  BY <1>1, <1>2, <1>3, <1>4, <1>5 DEF Next

\* A row that exists keeps its owner and its source, and does not come back
\* to life.
LEMMA RowStep ==
  ASSUME TypeInv, [Next]_vars, NEW s \in SessionIds
  PROVE  /\ Used(s) => /\ Used(s)'
                       /\ sessions'[s].user = sessions[s].user
                       /\ source'[s] = source[s]
         /\ Live(s)' => Live(s) \/ ~Used(s)
<1> /\ sessions \in [SessionIds -> SessionRow] /\ source \in [SessionIds -> Source]
    /\ sessions[s] \in SessionRow
  BY DEF TypeInv, TypeOK, StoreTypeOK
<1> USE DEF Used, Live
<1>1. ASSUME NEW u \in Users, PortalLogin(u)
      PROVE  Used(s) => sessions'[s] = sessions[s] /\ source'[s] = source[s]
  BY <1>1 DEF PortalLogin, InsertSession
<1>2. ASSUME NEW r \in Requests, OpenDerivedSession(r)
      PROVE  Used(s) => sessions'[s] = sessions[s] /\ source'[s] = source[s]
  BY <1>2 DEF OpenDerivedSession, InsertSession
<1>3. ASSUME NEW i \in SessionIds, RotateSession(i)
      PROVE  sessions'[s].user = sessions[s].user /\ sessions'[s].state = sessions[s].state
  BY <1>3, RotatedRow DEF TypeInv, TypeOK
<1>4. ASSUME NEW S, RevokeRows(S)
      PROVE  /\ sessions'[s].user = sessions[s].user
             /\ \/ sessions'[s].state = sessions[s].state
                \/ sessions[s].state = "live" /\ sessions'[s].state = "revoked"
  BY <1>4, RevokedRow DEF TypeInv, TypeOK
<1>5. QED
  BY <1>1, <1>2, <1>3, <1>4, TableStep DEF storeVars

-----------------------------------------------------------------------------
(* A code gives one session at most. *)

Past(r) == req[r].phase \in {"consumed", "created"}

\* A consumed code has one request that goes on to open its session, or one
\* session already opened, never both and never two.
SingleUse ==
  /\ \A s \in SessionIds : source[s].code # NoCode =>
       /\ Used(s)
       /\ codes[source[s].code].state = "consumed"
  /\ \A r \in Requests : Past(r) => codes[req[r].code].state = "consumed"
  /\ \A r, q \in Requests :
       req[r].phase = "consumed" /\ req[q].phase = "consumed" /\ req[r].code = req[q].code => r = q
  /\ \A r \in Requests, s \in SessionIds :
       req[r].phase = "consumed" => source[s].code # req[r].code
  /\ OneSessionPerCode

\* A step that neither issues nor consumes a code, nor opens or records a
\* session
Quiet ==
  /\ source' = source
  /\ \A c \in CodeIds : /\ codes'[c].state = codes[c].state
                        /\ codes'[c].session = codes[c].session
  /\ \A r \in Requests :
       /\ Past(r)' => req'[r] = req[r]
       /\ req'[r].phase = "read" =>
            \/ req'[r] = req[r]
            \/ \E c \in CodeIds : req'[r].code = c /\ req'[r].row = codes[c]

LEMMA QuietStep ==
  ASSUME TypeInv, [Next]_vars
  PROVE  \/ Quiet
         \/ \E u \in Users : PortalLogin(u)
         \/ \E r \in Requests, c \in CodeIds : IssueAuthorizationCode(r, c)
         \/ \E r \in Requests : Consume(r) \/ OpenDerivedSession(r) \/ RecordSession(r)
<1> codes \in [CodeIds -> Code] /\ req \in [Requests -> Request] /\ Idle \in Request
  BY IdleType DEF TypeInv, TypeOK
<1> USE DEF Quiet, Past
<1>1. ASSUME UNCHANGED <<codes, req, source>>
      PROVE  Quiet
  BY <1>1
<1>2. ASSUME NEW r \in Requests, UNCHANGED <<codes, source>>, Finish(r)
      PROVE  Quiet
  BY <1>2, IdleType DEF Finish, Goes
<1>3. ASSUME NEW r \in Requests, UNCHANGED <<codes, source>>, NEW q, Goes(r, q),
             q.phase \in {"found", "resolved", "checked", "written"}
      PROVE  Quiet
  BY <1>3 DEF Goes
<1>4. ASSUME NEW c \in CodeIds, ExpireCode(c)
      PROVE  Quiet
  BY <1>4 DEF ExpireCode, Code
<1>5. ASSUME NEW r \in Requests, NEW k \in {"authorize", "refresh"}, SessionFound(r, k)
      PROVE  Quiet
  <2>1. PICK s \in SessionIds :
          Goes(r, [Idle EXCEPT !.kind = k, !.phase = "found",
                               !.user = sessions[s].user, !.session = s])
    BY <1>5 DEF SessionFound
  <2>2. QED
    BY <1>3, <1>5, <2>1 DEF SessionFound, Request
<1>6. ASSUME NEW r \in Requests, NEW u \in Users, ResolveByAccessToken(r, u) \/ ResetPassword(r, u)
      PROVE  Quiet
  BY <1>3, <1>6 DEF ResolveByAccessToken, ResetPassword, Request
<1>7. ASSUME NEW r \in Requests, ResolveByRefreshToken(r) \/ CheckCode(r)
      PROVE  Quiet
  <2>1. req[r] \in Request
    OBVIOUS
  <2>2. QED
    BY <1>3, <1>7, <2>1 DEF ResolveByRefreshToken, CheckCode, Request
<1>8. ASSUME NEW r \in Requests, NEW c \in CodeIds, ReadCode(r, c)
      PROVE  Quiet
  <2> DEFINE q == [Idle EXCEPT !.kind = "exchange", !.phase = "read", !.user = codes[c].user,
                               !.code = c, !.row = codes[c], !.seen = codes[c].seen]
  <2>1. q.phase = "read" /\ q.code = c /\ q.row = codes[c]
    BY DEF Request
  <2>2. req' = [req EXCEPT ![r] = q] /\ UNCHANGED <<codes, source>>
    BY <1>8 DEF ReadCode, Goes
  <2> HIDE DEF q
  <2>3. QED
    BY <2>1, <2>2
<1>9. ASSUME NEW r \in Requests,
             DetectReuse(r) \/ RotateDerived(r) \/ RevokeSessions(r) \/ Abandon(r)
      PROVE  Quiet
  BY <1>2, <1>9 DEF DetectReuse, RotateDerived, RevokeSessions, Abandon
<1>10. ASSUME \/ \E u \in Users : ClearMark(u)
              \/ \E u \in Users, flag \in BOOLEAN : UpdateActive(u, flag)
              \/ \E t \in 1 .. issued : OidcLogout(t)
              \/ UNCHANGED vars
       PROVE  Quiet
  BY <1>1, <1>10 DEF ClearMark, UpdateActive, OidcLogout, vars
<1>11. QED
  BY <1>4, <1>5, <1>6, <1>7, <1>8, <1>9, <1>10 DEF Next

LEMMA SingleUseStep ==
  ASSUME TypeInv, SingleUse, [Next]_vars
  PROVE  SingleUse'
<1> /\ codes \in [CodeIds -> Code] /\ req \in [Requests -> Request]
    /\ source \in [SessionIds -> Source] /\ Idle.phase = "idle"
    /\ \A r \in Requests : Past(r) => req[r].code \in CodeIds
    /\ \A r \in Requests : req[r].code \in CodeIds \cup {NoCode}
    /\ \A s \in SessionIds : source[s].code \in CodeIds \cup {NoCode}
  BY IdleType DEF TypeInv, TypeOK, Owned, Past, Request, Source
<1> \A s \in SessionIds : Used(s) => Used(s)' /\ source'[s] = source[s]
  BY RowStep
<1> USE DEF SingleUse, OneSessionPerCode, Past
<1>1. CASE Quiet
  BY <1>1 DEF Quiet
<1>2. ASSUME NEW u \in Users, PortalLogin(u)
      PROVE  SingleUse'
  <2>1. PICK i \in SessionIds : source'[i].code = NoCode /\ \A s \in SessionIds \ {i} : source'[s] = source[s]
    BY <1>2 DEF PortalLogin
  <2>2. codes' = codes /\ req' = req
    BY <1>2 DEF PortalLogin
  <2>3. QED
    BY <2>1, <2>2
<1>3. ASSUME NEW r \in Requests, NEW c \in CodeIds, IssueAuthorizationCode(r, c)
      PROVE  SingleUse'
  <2>1. codes[c].state = "unused" /\ \A d \in CodeIds \ {c} : codes'[d] = codes[d]
    BY <1>3 DEF IssueAuthorizationCode
  <2>2. source' = source /\ req' = [req EXCEPT ![r] = Idle]
    BY <1>3 DEF IssueAuthorizationCode, Finish, Goes
  <2>3. QED
    BY <2>1, <2>2
<1>4. ASSUME NEW r \in Requests, Consume(r)
      PROVE  SingleUse'
  <2>1. source' = source /\ req[r] \in Request /\ req[r].code \in CodeIds
    BY <1>4 DEF Consume, At, TypeInv, Owned
  <2>2. CASE codes[req[r].code].state = "open"
    <3>1. /\ codes'[req[r].code].state = "consumed"
          /\ \A d \in CodeIds \ {req[r].code} : codes'[d] = codes[d]
      BY <1>4, <2>1, <2>2 DEF Consume, Code
    <3>2. req' = [req EXCEPT ![r] = [req[r] EXCEPT !.phase = "consumed"]]
      BY <1>4, <2>2 DEF Consume, Goes
    <3>3. req'[r].code = req[r].code /\ \A q \in Requests \ {r} : req'[q] = req[q]
      BY <2>1, <3>2 DEF Request
    <3>4. \A q \in Requests : Past(q) => req[q].code # req[r].code
      BY <2>2
    <3>5. \A s \in SessionIds : source[s].code # req[r].code
      BY <2>1, <2>2
    <3>6. QED
      BY <2>1, <3>1, <3>3, <3>4, <3>5
  <2>3. CASE codes[req[r].code].state # "open"
    BY <1>4, <2>1, <2>3 DEF Consume, Finish, Goes
  <2>4. QED
    BY <2>2, <2>3
<1>5. ASSUME NEW r \in Requests, OpenDerivedSession(r)
      PROVE  SingleUse'
  <2>1. req[r] \in Request /\ req[r].phase = "consumed" /\ codes' = codes
    BY <1>5 DEF OpenDerivedSession, At
  <2>2. PICK i \in SessionIds :
          /\ InsertSession(i, req[r].user)
          /\ source' = [source EXCEPT ![i] =
               [code |-> req[r].code, seen |-> req[r].seen, resets |-> account[req[r].user].resets]]
          /\ Goes(r, [req[r] EXCEPT !.phase = "created", !.session = i])
    BY <1>5 DEF OpenDerivedSession
  <2>3. Used(i)'
    BY <2>2 DEF Used, InsertSession, TypeInv, TypeOK, StoreTypeOK
  <2>4. source'[i].code = req[r].code /\ \A s \in SessionIds \ {i} : source'[s] = source[s]
    BY <2>2
  <2>5. /\ req'[r].code = req[r].code /\ req'[r].phase = "created"
        /\ \A q \in Requests \ {r} : req'[q] = req[q]
    BY <2>1, <2>2 DEF Goes, Request
  <2>6. QED
    BY <2>1, <2>3, <2>4, <2>5
<1>6. ASSUME NEW r \in Requests, RecordSession(r)
      PROVE  SingleUse'
  <2>1. source' = source /\ req' = [req EXCEPT ![r] = Idle]
    BY <1>6 DEF RecordSession, Finish, Goes
  <2>2. \A c \in CodeIds : codes'[c].state = codes[c].state
    BY <1>6 DEF RecordSession, Code
  <2>3. QED
    BY <2>1, <2>2
<1>7. QED
  BY <1>1, <1>2, <1>3, <1>4, <1>5, <1>6, QuietStep

LEMMA SingleUseInvariant == Spec => []SingleUse
<1>1. Init => SingleUse
  <2> SUFFICES ASSUME Init
               PROVE  SingleUse
    OBVIOUS
  <2>1. \A s \in SessionIds : source[s].code = NoCode
    BY DEF Init
  <2>2. \A r \in Requests : req[r].phase = "idle"
    BY IdleType DEF Init
  <2>3. QED
    BY <2>1, <2>2 DEF SingleUse, OneSessionPerCode, Past
<1>2. TypeInv /\ SingleUse /\ [Next]_vars => SingleUse'
  BY SingleUseStep
<1>3. QED
  BY <1>1, <1>2, TypeInvariant, PTL DEF Spec

\* However many exchanges of a code race, it gives one session at most.
THEOREM OneSession == Spec => []OneSessionPerCode
BY SingleUseInvariant, PTL DEF SingleUse

-----------------------------------------------------------------------------
(* A reuse kills the session recorded. *)

\* A session recorded for a code, kept by a request that opened it or read
\* with the code by one that presents it, is the session the code gave.
Recorded ==
  /\ \A c \in CodeIds : codes[c].session # NoSession => source[codes[c].session].code = c
  /\ \A r \in Requests :
       /\ req[r].phase = "created" => source[req[r].session].code = req[r].code
       /\ req[r].phase = "read" /\ req[r].row.session # NoSession =>
            source[req[r].row.session].code = req[r].code

LEMMA RecordedStep ==
  ASSUME TypeInv, SingleUse, Recorded, [Next]_vars
  PROVE  Recorded'
<1> /\ codes \in [CodeIds -> Code] /\ req \in [Requests -> Request]
    /\ Idle.phase = "idle" /\ NoCode \notin CodeIds
    /\ \A c \in CodeIds : codes[c].session \in SessionIds \cup {NoSession}
    /\ \A r \in Requests : /\ req[r].row.session \in SessionIds \cup {NoSession}
                           /\ req[r].phase \in {"read", "created"} => req[r].code \in CodeIds
                           /\ req[r].phase = "created" => req[r].session \in SessionIds
  BY IdleType DEF TypeInv, TypeOK, Owned, Request, Code
<1>0. \A s \in SessionIds : source[s].code \in CodeIds => source'[s] = source[s]
  BY RowStep DEF SingleUse
<1> USE DEF Recorded
<1>1. CASE Quiet
  BY <1>1 DEF Quiet, Past
<1>2. ASSUME NEW u \in Users, PortalLogin(u)
      PROVE  Recorded'
  BY <1>0, <1>2 DEF PortalLogin
<1>3. ASSUME NEW r \in Requests, NEW c \in CodeIds, IssueAuthorizationCode(r, c)
      PROVE  Recorded'
  <2>1. codes'[c].session = NoSession /\ \A d \in CodeIds \ {c} : codes'[d] = codes[d]
    BY <1>3 DEF IssueAuthorizationCode
  <2>2. source' = source /\ req' = [req EXCEPT ![r] = Idle]
    BY <1>3 DEF IssueAuthorizationCode, Finish, Goes
  <2>3. QED
    BY <2>1, <2>2
<1>4. ASSUME NEW r \in Requests, Consume(r)
      PROVE  Recorded'
  <2>1. source' = source /\ \A c \in CodeIds : codes'[c].session = codes[c].session
    BY <1>4 DEF Consume, Code
  <2>2. \A q \in Requests : req'[q].phase \in {"read", "created"} => req'[q] = req[q]
    <3>1. req[r] \in Request
      OBVIOUS
    <3>2. QED
      BY <1>4, <3>1 DEF Consume, Finish, Goes, Request
  <2>3. QED
    BY <2>1, <2>2
<1>5. ASSUME NEW r \in Requests, OpenDerivedSession(r)
      PROVE  Recorded'
  <2>1. req[r] \in Request /\ codes' = codes
    BY <1>5 DEF OpenDerivedSession
  <2>2. PICK i \in SessionIds :
          /\ source' = [source EXCEPT ![i] =
               [code |-> req[r].code, seen |-> req[r].seen, resets |-> account[req[r].user].resets]]
          /\ Goes(r, [req[r] EXCEPT !.phase = "created", !.session = i])
    BY <1>5 DEF OpenDerivedSession
  <2>3. source'[i].code = req[r].code
    BY <2>2 DEF TypeInv, TypeOK
  <2>4. /\ req'[r].code = req[r].code /\ req'[r].phase = "created" /\ req'[r].session = i
        /\ \A q \in Requests \ {r} : req'[q] = req[q]
    BY <2>1, <2>2 DEF Goes, Request
  <2>5. QED
    BY <1>0, <2>1, <2>3, <2>4
<1>6. ASSUME NEW r \in Requests, RecordSession(r)
      PROVE  Recorded'
  <2>1. /\ source' = source /\ req' = [req EXCEPT ![r] = Idle]
        /\ codes' = [codes EXCEPT ![req[r].code].session = req[r].session]
        /\ req[r].phase = "created"
    BY <1>6 DEF RecordSession, Finish, Goes, At
  <2>2. \A c \in CodeIds :
          codes'[c].session = IF c = req[r].code THEN req[r].session ELSE codes[c].session
    BY <2>1 DEF Code
  <2>3. QED
    BY <2>1, <2>2
<1>7. QED
  BY <1>1, <1>2, <1>3, <1>4, <1>5, <1>6, QuietStep

LEMMA RecordedInvariant == Spec => []Recorded
<1>1. Init => Recorded
  BY IdleType DEF Init, Recorded, UnusedCode
<1>2. TypeInv /\ SingleUse /\ Recorded /\ [Next]_vars => Recorded'
  BY RecordedStep
<1>3. QED
  BY <1>1, <1>2, TypeInvariant, SingleUseInvariant, PTL DEF Spec

\* A code whose reuse was answered with a revocation has opened its session.
Killed ==
  /\ \A c \in detected \ excused : \E s \in SessionIds : source[s].code = c
  /\ ReuseKillsRecordedSession

LEMMA KilledStep ==
  ASSUME TypeInv, SingleUse, Recorded, Killed, [Next]_vars
  PROVE  Killed'
<1> /\ detected \subseteq CodeIds /\ NoCode \notin CodeIds
    /\ req \in [Requests -> Request] /\ source \in [SessionIds -> Source]
  BY DEF TypeInv, TypeOK
<1>0. \A s \in SessionIds : /\ source[s].code # NoCode => Used(s) /\ source'[s] = source[s]
                            /\ Live(s)' => Live(s) \/ ~Used(s)
  BY RowStep DEF SingleUse
<1>1. ASSUME source' = source, detected' \ excused' \subseteq detected \ excused
      PROVE  Killed'
  BY <1>0, <1>1 DEF Killed, ReuseKillsRecordedSession
<1>2. ASSUME NEW r \in Requests, DetectReuse(r)
      PROVE  Killed'
  <2> DEFINE q == req[r]
  <2>1. q.phase = "read" /\ q.code \in CodeIds /\ source' = source /\ q.row \in Code
    BY <1>2 DEF DetectReuse, At, TypeInv, Owned, Request
  <2>2. CASE q.row.session # NoSession /\ RevokeById(q.row.session) /\ UNCHANGED excused
    <3>1. PICK k \in SessionIds : k = q.row.session /\ source[k].code = q.code
      BY <2>1, <2>2 DEF Recorded, Code
    <3>2. ~Live(k)'
      <4>1. sessions[k] \in SessionRow
        BY DEF TypeInv, TypeOK, StoreTypeOK
      <4>2. sessions'[k] = IF Live(k) THEN [sessions[k] EXCEPT !.state = "revoked", !.revokedFor = 0]
                                      ELSE sessions[k]
        BY <2>2, <3>1 DEF RevokeById, RevokeRows
      <4>3. QED
        BY <4>1, <4>2 DEF Live, SessionRow
    <3>3. \A s \in SessionIds : source[s].code = q.code => s = k
      BY <2>1, <3>1 DEF SingleUse, OneSessionPerCode
    <3>4. detected' \ excused' \subseteq (detected \ excused) \cup {q.code}
      BY <1>2, <2>2 DEF DetectReuse
    <3>5. \A s \in SessionIds : source'[s].code = q.code => ~Live(s)'
      BY <2>1, <3>2, <3>3
    <3>6. \A c \in detected \ excused, s \in SessionIds : source'[s].code = c => ~Live(s)'
      BY <1>0, <2>1 DEF Killed, ReuseKillsRecordedSession
    <3>7. \A c \in detected' \ excused' : \E s \in SessionIds : source'[s].code = c
      BY <2>1, <3>1, <3>4 DEF Killed
    <3> HIDE DEF q
    <3>8. QED
      BY <3>4, <3>5, <3>6, <3>7 DEF Killed, ReuseKillsRecordedSession
  <2>3. CASE excused' = excused \cup {q.code}
    <3>1. detected' \ excused' \subseteq detected \ excused
      BY <1>2, <2>3 DEF DetectReuse
    <3>2. QED
      BY <1>1, <2>1, <3>1
  <2>4. QED
    BY <1>2, <2>2, <2>3 DEF DetectReuse
<1>3. ASSUME NEW u \in Users, PortalLogin(u)
      PROVE  Killed'
  <2>1. \E i \in SessionIds : source'[i].code = NoCode /\ \A s \in SessionIds \ {i} : source'[s] = source[s]
    BY <1>3 DEF PortalLogin
  <2>2. detected' = detected /\ excused' = excused
    BY <1>3 DEF PortalLogin
  <2>3. QED
    BY <1>0, <2>1, <2>2 DEF Killed, ReuseKillsRecordedSession
<1>4. ASSUME NEW r \in Requests, OpenDerivedSession(r)
      PROVE  Killed'
  <2>1. req[r].phase = "consumed" /\ detected' = detected /\ excused' = excused
    BY <1>4 DEF OpenDerivedSession, At
  <2>2. PICK i \in SessionIds :
          source'[i].code = req[r].code /\ \A s \in SessionIds \ {i} : source'[s] = source[s]
    BY <1>4 DEF OpenDerivedSession
  <2>3. req[r].code \notin detected \ excused
    BY <2>1 DEF SingleUse, Killed
  <2>4. QED
    BY <1>0, <2>1, <2>2, <2>3 DEF Killed, ReuseKillsRecordedSession
<1>5. \/ \E u \in Users : PortalLogin(u)
      \/ \E r \in Requests : OpenDerivedSession(r) \/ DetectReuse(r)
      \/ source' = source /\ detected' = detected /\ excused' = excused
  <2>1. source' = source \/ \E u \in Users : PortalLogin(u) \/ \E r \in Requests : OpenDerivedSession(r)
    BY TableStep
  <2>2. (detected' = detected /\ excused' = excused) \/ \E r \in Requests : DetectReuse(r)
    BY DEF Next, SessionFound, ResolveByAccessToken, ResetPassword, IssueAuthorizationCode, ReadCode,
      ResolveByRefreshToken, CheckCode, Consume, RecordSession, Abandon, PortalLogin, ClearMark,
      UpdateActive, ExpireCode, OidcLogout, RotateDerived, RevokeSessions, OpenDerivedSession, vars
  <2>3. QED
    BY <2>1, <2>2
<1>6. QED
  BY <1>1, <1>2, <1>3, <1>4, <1>5

\* Once a reuse was answered after the exchange recorded its session, that
\* session is dead for good.
THEOREM ReuseKills == Spec => []ReuseKillsRecordedSession
<1>1. Init => Killed
  BY DEF Init, Killed, ReuseKillsRecordedSession
<1>2. TypeInv /\ SingleUse /\ Recorded /\ Killed /\ [Next]_vars => Killed'
  BY KilledStep
<1>3. Killed => ReuseKillsRecordedSession
  BY DEF Killed
<1>4. QED
  BY <1>1, <1>2, <1>3, TypeInvariant, SingleUseInvariant, RecordedInvariant, PTL DEF Spec

-----------------------------------------------------------------------------
(* An account to be changed holds early codes only. *)

\* u was seen unmarked, at a time when it had had n resets: a mark it bears now
\* is from a later one.
SeenUnmarked(u, n) ==
  n <= account[u].resets /\ (account[u].mustChange => n < account[u].resets)

OnTheWay(r) == req[r].phase \in {"resolved", "read", "checked", "consumed"}

\* What codes and requests carry was seen; sessions of a marked and swept
\* account are early.
EarlyCodes ==
  /\ \A c \in CodeIds : codes[c].state # "unused" => SeenUnmarked(codes[c].user, codes[c].seen)
  /\ \A r \in Requests : OnTheWay(r) => SeenUnmarked(req[r].user, req[r].seen)
  /\ MarkedAccountsHoldEarlyCodes

\* What a step does to an account: a reset is the only way to the mark.
LEMMA AccountStep ==
  ASSUME TypeInv, [Next]_vars, NEW u \in Users
  PROVE  \/ /\ account'[u].resets = account[u].resets
            /\ account'[u].mustChange => account[u].mustChange
         \/ /\ account'[u].resets = account[u].resets + 1
            /\ u \in unswept'
<1> account \in [Users -> Account] /\ account[u] \in Account
  BY DEF TypeInv, TypeOK
<1>1. ASSUME NEW r \in Requests, NEW v \in Users, ResetPassword(r, v)
      PROVE  \/ account'[u] = account[u]
             \/ account'[u].resets = account[u].resets + 1 /\ u \in unswept'
  BY <1>1 DEF ResetPassword, Account
<1>2. ASSUME NEW v \in Users, ClearMark(v)
      PROVE  account'[u] = account[u] \/ account'[u] = [account[u] EXCEPT !.mustChange = FALSE]
  BY <1>2 DEF ClearMark
<1>3. ASSUME NEW v \in Users, NEW flag \in BOOLEAN, UpdateActive(v, flag)
      PROVE  account'[u] = account[u] \/ account'[u] = [account[u] EXCEPT !.active = flag]
  BY <1>3 DEF UpdateActive
<1>4. \/ account' = account
      \/ \E r \in Requests, v \in Users : ResetPassword(r, v)
      \/ \E v \in Users : ClearMark(v)
      \/ \E v \in Users, flag \in BOOLEAN : UpdateActive(v, flag)
  BY DEF Next, SessionFound, ResolveByAccessToken, IssueAuthorizationCode, ReadCode, DetectReuse,
    ResolveByRefreshToken, CheckCode, Consume, RecordSession, Abandon, PortalLogin, ExpireCode,
    OidcLogout, RotateDerived, RevokeSessions, OpenDerivedSession, vars
<1>5. QED
  BY <1>1, <1>2, <1>3, <1>4 DEF Account

LEMMA SeenStep ==
  ASSUME TypeInv, [Next]_vars, NEW u \in Users, NEW n \in Nat, SeenUnmarked(u, n)
  PROVE  SeenUnmarked(u, n)'
<1>1. account[u].resets \in Nat
  BY DEF TypeInv, TypeOK, Account
<1>2. QED
  BY <1>1, AccountStep DEF SeenUnmarked

\* Where the user and the resets of a request on its way come from
LEMMA CarriedStep ==
  ASSUME TypeInv, [Next]_vars, NEW r \in Requests, OnTheWay(r)'
  PROVE  \/ /\ OnTheWay(r)
            /\ req'[r].user = req[r].user /\ req'[r].seen = req[r].seen
         \/ \E c \in CodeIds :
              /\ codes[c].state # "unused"
              /\ req'[r].user = codes[c].user /\ req'[r].seen = codes[c].seen
         \/ /\ ~account[req'[r].user].mustChange /\ account' = account
            /\ req'[r].seen = account[req'[r].user].resets
<1> DEFINE Goal == \/ /\ OnTheWay(r)
                      /\ req'[r].user = req[r].user /\ req'[r].seen = req[r].seen
                   \/ \E c \in CodeIds :
                        /\ codes[c].state # "unused"
                        /\ req'[r].user = codes[c].user /\ req'[r].seen = codes[c].seen
                   \/ /\ ~account[req'[r].user].mustChange /\ account' = account
                      /\ req'[r].seen = account[req'[r].user].resets
<1> req \in [Requests -> Request] /\ req[r] \in Request /\ Idle \in Request /\ Idle.phase = "idle"
  BY IdleType DEF TypeInv, TypeOK
<1>1. ASSUME req'[r] = req[r]
      PROVE  Goal
  BY <1>1 DEF OnTheWay
<1>2. ASSUME NEW i \in Requests, NEW q, Goes(i, q), q.phase \in {"idle", "found", "created", "written"}
      PROVE  Goal
  BY <1>1, <1>2 DEF Goes, OnTheWay
<1>3. ASSUME NEW i \in Requests, NEW k \in {"authorize", "refresh"}, SessionFound(i, k)
      PROVE  Goal
  <2>1. PICK s \in SessionIds :
          Goes(i, [Idle EXCEPT !.kind = k, !.phase = "found",
                               !.user = sessions[s].user, !.session = s])
    BY <1>3 DEF SessionFound
  <2>2. QED
    BY <1>2, <2>1 DEF Request
<1>4. ASSUME NEW i \in Requests, NEW u \in Users, ResolveByAccessToken(i, u)
      PROVE  Goal
  <2>1. CASE i = r
    <3>1. req'[r].user = u /\ req'[r].seen = account[u].resets
      BY <1>4, <2>1 DEF ResolveByAccessToken, Goes, Request
    <3>2. QED
      BY <1>4, <3>1 DEF ResolveByAccessToken
  <2>2. CASE i # r
    BY <1>1, <1>4, <2>2 DEF ResolveByAccessToken, Goes
  <2>3. QED
    BY <2>1, <2>2
<1>5. ASSUME NEW i \in Requests, ResolveByRefreshToken(i)
      PROVE  Goal
  <2>1. CASE i = r
    <3>1. req'[r].user = req[r].user /\ req'[r].seen = account[req[r].user].resets
      BY <1>5, <2>1 DEF ResolveByRefreshToken, Goes, Request
    <3>2. QED
      BY <1>5, <2>1, <3>1 DEF ResolveByRefreshToken
  <2>2. CASE i # r
    BY <1>1, <1>5, <2>2 DEF ResolveByRefreshToken, Goes
  <2>3. QED
    BY <2>1, <2>2
<1>6. ASSUME NEW i \in Requests, NEW c \in CodeIds, ReadCode(i, c)
      PROVE  Goal
  <2>1. CASE i = r
    <3>1. req'[r].user = codes[c].user /\ req'[r].seen = codes[c].seen
      BY <1>6, <2>1 DEF ReadCode, Goes, Request
    <3>2. QED
      BY <1>6, <3>1 DEF ReadCode
  <2>2. CASE i # r
    BY <1>1, <1>6, <2>2 DEF ReadCode, Goes
  <2>3. QED
    BY <2>1, <2>2
<1>7. ASSUME NEW i \in Requests, CheckCode(i) \/ (Consume(i) /\ ~Finish(i))
      PROVE  Goal
  <2>1. CASE i = r
    <3>1. req[r].phase \in {"read", "checked"}
      BY <1>7, <2>1 DEF CheckCode, Consume, At
    <3>2. req'[r].user = req[r].user /\ req'[r].seen = req[r].seen
      BY <1>7, <2>1 DEF CheckCode, Consume, Goes, Request
    <3>3. QED
      BY <3>1, <3>2 DEF OnTheWay
  <2>2. CASE i # r
    BY <1>1, <1>7, <2>2 DEF CheckCode, Consume, Goes
  <2>3. QED
    BY <2>1, <2>2
<1>8. ASSUME NEW i \in Requests, OpenDerivedSession(i)
      PROVE  Goal
  <2>1. PICK s \in SessionIds : Goes(i, [req[i] EXCEPT !.phase = "created", !.session = s])
    BY <1>8 DEF OpenDerivedSession
  <2>2. req[i] \in Request
    OBVIOUS
  <2>3. QED
    BY <1>2, <2>1, <2>2 DEF Request
<1>9. ASSUME NEW i \in Requests, NEW u \in Users, ResetPassword(i, u)
      PROVE  Goal
  BY <1>2, <1>9 DEF ResetPassword, Request
<1>10. ASSUME NEW i \in Requests,
              \/ \E c \in CodeIds : IssueAuthorizationCode(i, c)
              \/ DetectReuse(i) \/ RotateDerived(i) \/ RevokeSessions(i) \/ RecordSession(i)
              \/ Abandon(i) \/ Finish(i)
       PROVE  Goal
  BY <1>2, <1>10 DEF IssueAuthorizationCode, DetectReuse, RotateDerived, RevokeSessions,
    RecordSession, Abandon, Finish
<1>11. ASSUME \/ \E u \in Users : PortalLogin(u) \/ ClearMark(u)
              \/ \E u \in Users, flag \in BOOLEAN : UpdateActive(u, flag)
              \/ \E c \in CodeIds : ExpireCode(c)
              \/ \E t \in 1 .. issued : OidcLogout(t)
              \/ UNCHANGED vars
       PROVE  Goal
  BY <1>1, <1>11 DEF PortalLogin, ClearMark, UpdateActive, ExpireCode, OidcLogout, vars
<1> HIDE DEF Goal
<1>12. Goal
  BY <1>3, <1>4, <1>5, <1>6, <1>7, <1>8, <1>9, <1>10, <1>11 DEF Next
<1>13. QED
  BY <1>12 DEF Goal

\* Codes change their owner and what was seen of it only when they are issued.
LEMMA CodesStep ==
  ASSUME TypeInv, [Next]_vars, NEW c \in CodeIds
  PROVE  \/ /\ codes'[c].state # "unused" => codes[c].state # "unused"
            /\ codes'[c].user = codes[c].user /\ codes'[c].seen = codes[c].seen
         \/ \E r \in Requests : /\ OnTheWay(r)
                                /\ codes'[c].user = req[r].user /\ codes'[c].seen = req[r].seen
<1> codes \in [CodeIds -> Code] /\ codes[c] \in Code
  BY DEF TypeInv, TypeOK
<1>1. ASSUME NEW r \in Requests, NEW d \in CodeIds, IssueAuthorizationCode(r, d)
      PROVE  \/ codes'[c] = codes[c]
             \/ OnTheWay(r) /\ codes'[c].user = req[r].user /\ codes'[c].seen = req[r].seen
  BY <1>1 DEF IssueAuthorizationCode, At, OnTheWay
<1>2. ASSUME NEW d \in CodeIds, ExpireCode(d)
      PROVE  codes'[c] = codes[c] \/ codes'[c] = [codes[c] EXCEPT !.expired = TRUE]
  BY <1>2 DEF ExpireCode
<1>3. ASSUME NEW r \in Requests, Consume(r)
      PROVE  \/ codes'[c] = codes[c]
             \/ codes[c].state # "unused" /\ codes'[c] = [codes[c] EXCEPT !.state = "consumed"]
  BY <1>3 DEF Consume
<1>4. ASSUME NEW r \in Requests, RecordSession(r)
      PROVE  \/ codes'[c] = codes[c]
             \/ codes'[c] = [codes[c] EXCEPT !.session = req[r].session]
  BY <1>4 DEF RecordSession
<1>5. \/ codes' = codes
      \/ \E r \in Requests, d \in CodeIds : IssueAuthorizationCode(r, d)
      \/ \E d \in CodeIds : ExpireCode(d)
      \/ \E r \in Requests : Consume(r) \/ RecordSession(r)
  BY DEF Next, SessionFound, ResolveByAccessToken, ResetPassword, ReadCode, DetectReuse,
    ResolveByRefreshToken, CheckCode, Abandon, PortalLogin, ClearMark, UpdateActive, OidcLogout,
    RotateDerived, RevokeSessions, OpenDerivedSession, vars
<1>6. QED
  BY <1>1, <1>2, <1>3, <1>4, <1>5 DEF Code

LEMMA EarlyStep ==
  ASSUME TypeInv, EarlyCodes, [Next]_vars
  PROVE  EarlyCodes'
<1> USE DEF EarlyCodes
<1>0. TypeInv'
  BY TypeStep
<1>1. \A u \in Users, n \in Nat : SeenUnmarked(u, n) => SeenUnmarked(u, n)'
  BY SeenStep
<1>2. ASSUME NEW r \in Requests, OnTheWay(r)'
      PROVE  SeenUnmarked(req[r].user, req[r].seen)'
  <2>1. PICK u \in Users, n \in Nat : u = req'[r].user /\ n = req'[r].seen
    BY <1>0 DEF TypeInv, TypeOK, Request
  <2>2. account[u].resets \in Nat
    BY DEF TypeInv, TypeOK, Account
  <2>3. CASE ~account[u].mustChange /\ account' = account /\ n = account[u].resets
    BY <2>1, <2>2, <2>3 DEF SeenUnmarked
  <2>4. CASE SeenUnmarked(u, n)
    BY <1>1, <2>1, <2>4 DEF SeenUnmarked
  <2>5. QED
    BY <1>2, <2>1, <2>3, <2>4, CarriedStep
<1>3. ASSUME NEW c \in CodeIds, codes'[c].state # "unused"
      PROVE  SeenUnmarked(codes[c].user, codes[c].seen)'
  <2>1. PICK u \in Users, n \in Nat : u = codes'[c].user /\ n = codes'[c].seen
    BY <1>0, <1>3 DEF TypeInv, TypeOK, Owned, Code
  <2>2. SeenUnmarked(u, n)
    BY <1>3, <2>1, CodesStep
  <2>3. QED
    BY <1>1, <2>1, <2>2 DEF SeenUnmarked
<1>4. ASSUME NEW s \in SessionIds, Live(s)',
             NEW u \in Users, u = sessions'[s].user, account'[u].mustChange, u \notin unswept'
      PROVE  source'[s].resets = account'[u].resets /\ source'[s].seen < account'[u].resets
  <2>1. CASE Used(s)
    <3>1. Live(s) /\ sessions[s].user = u /\ source'[s] = source[s]
      BY <1>4, <2>1, RowStep
    <3>2. account'[u].resets = account[u].resets /\ account[u].mustChange
      BY <1>4, AccountStep
    <3>3. CASE u \notin unswept
      BY <3>1, <3>2, <3>3 DEF MarkedAccountsHoldEarlyCodes
    <3>4. CASE u \in unswept
      <4>1. PICK r \in Requests : RevokeSessions(r) /\ req[r].user = u
        BY <1>4, <3>4 DEF Next, SessionFound, ResolveByAccessToken, ResetPassword, ReadCode,
          IssueAuthorizationCode, DetectReuse, ResolveByRefreshToken, CheckCode, Consume,
          RecordSession, Abandon, PortalLogin, ClearMark, UpdateActive, ExpireCode, OidcLogout,
          RotateDerived, RevokeSessions, OpenDerivedSession, vars
      <4>2. sessions'[s] = [sessions[s] EXCEPT !.state = "revoked", !.revokedFor = 0]
        BY <3>1, <4>1 DEF RevokeSessions, RevokeAll, RevokeRows
      <4>3. sessions[s] \in SessionRow
        BY DEF TypeInv, TypeOK, StoreTypeOK
      <4>4. QED
        BY <1>4, <4>2, <4>3 DEF Live, SessionRow
    <3>5. QED
      BY <3>3, <3>4
  <2>2. CASE ~Used(s)
    <3>1. Used(s)'
      BY <1>4 DEF Live, Used
    <3>2. CASE \E v \in Users : PortalLogin(v)
      <4>1. PICK v \in Users : PortalLogin(v)
        BY <3>2
      <4>2. sessions'[s].user = v
        BY <2>2, <3>1, <4>1 DEF PortalLogin, InsertSession, Used, TypeInv, TypeOK, StoreTypeOK
      <4>3. QED
        BY <1>4, <4>1, <4>2 DEF PortalLogin
    <3>3. CASE \E r \in Requests : OpenDerivedSession(r)
      <4>1. PICK r \in Requests : OpenDerivedSession(r)
        BY <3>3
      <4>2. PICK i \in SessionIds :
              /\ InsertSession(i, req[r].user)
              /\ source' = [source EXCEPT ![i] =
                   [code |-> req[r].code, seen |-> req[r].seen,
                    resets |-> account[req[r].user].resets]]
        BY <4>1 DEF OpenDerivedSession
      <4>3. i = s /\ req[r].user = u
        BY <1>4, <2>2, <3>1, <4>2 DEF InsertSession, Used, TypeInv, TypeOK, StoreTypeOK
      <4>4. source'[s].seen = req[r].seen /\ source'[s].resets = account[u].resets
        BY <4>2, <4>3 DEF TypeInv, TypeOK
      <4>5. OnTheWay(r) /\ account' = account
        BY <4>1 DEF OpenDerivedSession, At, OnTheWay
      <4>6. QED
        BY <1>4, <4>3, <4>4, <4>5 DEF SeenUnmarked
    <3>4. CASE \/ \E i \in SessionIds : RotateSession(i)
               \/ \E S : RevokeRows(S)
               \/ UNCHANGED storeVars
      <4>1. sessions[s] \in SessionRow
        BY DEF TypeInv, TypeOK, StoreTypeOK
      <4>2. sessions'[s] = sessions[s]
        BY <2>2, <3>4, <4>1 DEF RotateSession, RevokeRows, storeVars, Used, Stored, Live, Revoked,
          TypeInv, TypeOK, StoreTypeOK
      <4>3. QED
        BY <2>2, <3>1, <4>2 DEF Used
    <3>5. QED
      BY <3>2, <3>3, <3>4, TableStep
  <2>3. QED
    BY <2>1, <2>2
<1>5. MarkedAccountsHoldEarlyCodes'
  <2> SUFFICES ASSUME NEW s \in SessionIds, Live(s)',
                      account'[sessions'[s].user].mustChange, sessions'[s].user \notin unswept'
               PROVE  /\ source'[s].resets = account'[sessions'[s].user].resets
                      /\ source'[s].seen < account'[sessions'[s].user].resets
    BY DEF MarkedAccountsHoldEarlyCodes
  <2>1. sessions'[s].user \in Users
    BY <1>0 DEF TypeInv, Owned, Used, Live
  <2>2. QED
    BY <1>4, <2>1
<1>6. QED
  BY <1>2, <1>3, <1>5

\* While an account must change its password and was swept, its sessions were
\* opened after the reset with codes whose owner was seen unmarked before it.
THEOREM MarkedHoldEarlyCodes == Spec => []MarkedAccountsHoldEarlyCodes
<1>1. Init => EarlyCodes
  <2> SUFFICES ASSUME Init
               PROVE  EarlyCodes
    OBVIOUS
  <2>1. \A s \in SessionIds : ~Live(s)
    BY DEF Init, StoreInit, UnusedRow, Live
  <2>2. \A r \in Requests : ~OnTheWay(r)
    BY IdleType DEF Init, OnTheWay
  <2>3. \A c \in CodeIds : codes[c].state = "unused"
    BY DEF Init, UnusedCode
  <2>4. QED
    BY <2>1, <2>2, <2>3 DEF EarlyCodes, MarkedAccountsHoldEarlyCodes
<1>2. TypeInv /\ EarlyCodes /\ [Next]_vars => EarlyCodes'
  BY EarlyStep
<1>3. EarlyCodes => MarkedAccountsHoldEarlyCodes
  BY DEF EarlyCodes
<1>4. QED
  BY <1>1, <1>2, <1>3, TypeInvariant, PTL DEF Spec
=============================================================================
