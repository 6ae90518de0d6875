----------------------------- MODULE LoginProofs -----------------------------
(***************************************************************************)
(* Proofs about Login, for every set of accounts, service accounts,        *)
(* sessions and requests and any number of resets and deactivations.       *)
(***************************************************************************)
EXTENDS Login, SessionStoreProofs

USE StoreAssumption, LoginAssumption

-----------------------------------------------------------------------------
(* Type correctness. *)

\* Types, and rows that exist have an owner.
TypeInv == TypeOK /\ \A s \in SessionIds : Used(s) => sessions[s].user \in Users

LEMMA IdleType == Idle \in Request /\ Idle.kind = "login" /\ Idle.phase = "idle"
BY DEF Idle, Request, Kind, Phase, Knowledge, Nothing

LEMMA InitType == Init => TypeInv
<1>1. UnusedRow \in SessionRow
  BY DEF UnusedRow, SessionRow, HashToken, NoToken
<1>2. Nothing \in Knowledge
  BY DEF Nothing, Knowledge
<1>3. QED
  BY <1>1, <1>2, IdleType DEF Init, StoreInit, TypeInv, TypeOK, StoreTypeOK, Used, UnusedRow,
    Account, Opening, Kind

\* A record of knowledge with a field changed is one.
LEMMA KnowledgeFields ==
  ASSUME NEW k \in Knowledge, NEW n \in Nat
  PROVE  /\ [k EXCEPT !.resets = n] \in Knowledge
         /\ [k EXCEPT !.offs = n] \in Knowledge
         /\ [k EXCEPT !.resets = n, !.password = n] \in Knowledge
         /\ \A m \in Nat : [k EXCEPT !.resets = n, !.offs = m] \in Knowledge
BY DEF Knowledge

\* A request that goes on is a request record.
LEMMA GoesType ==
  ASSUME TypeOK, NEW r \in Requests, NEW k \in Kind, NEW p \in Phase, NEW u \in Users,
         NEW knows \in Knowledge, Goes(r, k, p, u, knows)
  PROVE  /\ req' \in [Requests -> Request]
         /\ req'[r] = [kind |-> k, phase |-> p, user |-> u, knows |-> knows]
         /\ \A q \in Requests \ {r} : req'[q] = req[q]
BY DEF TypeOK, Goes, Request

LEMMA FinishType ==
  ASSUME TypeOK, NEW r \in Requests, Finish(r)
  PROVE  /\ req' \in [Requests -> Request]
         /\ req'[r].phase = "idle"
         /\ \A q \in Requests \ {r} : req'[q] = req[q]
BY IdleType DEF TypeOK, Finish

LEMMA SignType ==
  ASSUME TypeOK, NEW type \in {"2fa_pending", "cambio_clave"}, NEW u \in Users,
         NEW knows \in Knowledge, SignTempToken(type, u, knows)
  PROVE  tempTokens' \subseteq TempToken
BY DEF TypeOK, SignTempToken, TempToken

LEMMA TypeStep ==
  ASSUME TypeInv, [Next]_vars
  PROVE  TypeInv'
<1> USE DEF TypeInv
<1> /\ \A u \in Users : account[u] \in Account /\ account[u].resets \in Nat /\ account[u].offs \in Nat
    /\ \A r \in Requests : req[r] \in Request /\ req[r].user \in Users /\ req[r].knows \in Knowledge
                           /\ req[r].kind \in Kind
    /\ \A t \in tempTokens : t.user \in Users /\ t.knows \in Knowledge
    /\ Nothing \in Knowledge
  BY DEF TypeOK, Account, Request, TempToken, Nothing, Knowledge
<1> \A u \in Users : KnowsAll(u) \in Knowledge
  BY DEF KnowsAll, Knowledge
<1> USE DEF Kind, Phase
<1>1. ASSUME UNCHANGED storeVars
      PROVE  StoreTypeOK' /\ \A s \in SessionIds : Used(s)' => sessions'[s].user \in Users
  BY <1>1 DEF storeVars, StoreTypeOK, Used, TypeOK
<1>2. ASSUME NEW r \in Requests, NEW u \in Users,
             \/ ValidateCredentials(r, u) \/ ServiceLogin(r, u)
             \/ VerifyAuthentication(r, u) \/ CheckOwnPassword(r, u)
      PROVE  TypeInv'
  <2>1. req' \in [Requests -> Request]
    BY <1>2, GoesType DEF ValidateCredentials, ServiceLogin, VerifyAuthentication, CheckOwnPassword
  <2>2. QED
    BY <1>1, <1>2, <2>1 DEF ValidateCredentials, ServiceLogin, VerifyAuthentication,
      CheckOwnPassword, TypeOK
<1>3. ASSUME NEW r \in Requests, LoginStep(r)
      PROVE  TypeInv'
  <2> DEFINE u == req[r].user
             knows == [req[r].knows EXCEPT !.resets = account[u].resets]
  <2>1. knows \in Knowledge
    BY KnowledgeFields
  <2>2. \/ SignTempToken("cambio_clave", u, req[r].knows) /\ Finish(r)
        \/ SignTempToken("2fa_pending", u, knows) /\ Finish(r)
        \/ Goes(r, "login", "issuing", u, knows) /\ UNCHANGED tempTokens
    BY <1>3 DEF LoginStep
  <2> HIDE DEF knows
  <2>3. req' \in [Requests -> Request] /\ tempTokens' \subseteq TempToken
    BY <2>1, <2>2, GoesType, FinishType, SignType DEF TypeOK
  <2>4. QED
    BY <1>1, <1>3, <2>3 DEF LoginStep, TypeOK
<1>4. ASSUME NEW r \in Requests, NEW t \in tempTokens,
             CheckChange(r, t) \/ Verify2FA(r, t) \/ AuthorizeByTempToken(r, t)
      PROVE  TypeInv'
  <2>1. /\ [t.knows EXCEPT !.offs = account[t.user].offs] \in Knowledge
        /\ [t.knows EXCEPT !.resets = account[t.user].resets] \in Knowledge
        /\ [t.knows EXCEPT !.resets = account[t.user].resets,
                           !.offs = account[t.user].offs] \in Knowledge
    BY KnowledgeFields
  <2>2. req' \in [Requests -> Request]
    BY <1>4, <2>1, GoesType DEF CheckChange, Verify2FA, AuthorizeByTempToken
  <2>3. QED
    BY <1>1, <1>4, <2>2 DEF CheckChange, Verify2FA, AuthorizeByTempToken, TypeOK
<1>5. ASSUME NEW r \in Requests, CompleteChange(r)
      PROVE  TypeInv'
  <2> DEFINE u == req[r].user
             knows == [req[r].knows EXCEPT !.resets = account[u].resets,
                                           !.password = account[u].resets]
  <2>1. knows \in Knowledge
    BY KnowledgeFields
  <2>2. \/ SignTempToken("2fa_pending", u, knows) /\ Finish(r)
        \/ Goes(r, "cambio", "issuing", u, knows) /\ UNCHANGED tempTokens
    BY <1>5 DEF CompleteChange
  <2> HIDE DEF knows
  <2>3. req' \in [Requests -> Request] /\ tempTokens' \subseteq TempToken
    BY <2>1, <2>2, GoesType, FinishType, SignType DEF TypeOK
  <2>4. account' \in [Users -> Account]
    BY <1>5 DEF CompleteChange, Account, TypeOK
  <2>5. QED
    BY <1>1, <1>5, <2>3, <2>4 DEF CompleteChange, TypeOK
<1>6. ASSUME NEW r \in Requests, IssueTokenPair(r)
      PROVE  TypeInv'
  <2>1. PICK s \in SessionIds :
          /\ InsertSession(s, req[r].user)
          /\ opening' = [opening EXCEPT ![s] =
               [via |-> req[r].kind, knows |-> req[r].knows,
                resets |-> account[req[r].user].resets, offs |-> account[req[r].user].offs]]
    BY <1>6 DEF IssueTokenPair
  <2>2. StoreTypeOK' /\ \A i \in SessionIds : Used(i)' => sessions'[i].user \in Users
    BY <2>1, OwnersKept DEF TypeOK
  <2>3. opening' \in [SessionIds -> Opening]
    BY <2>1 DEF TypeOK, Opening
  <2>4. QED
    BY <1>6, <2>2, <2>3, FinishType DEF IssueTokenPair, TypeOK
<1>7. ASSUME NEW r \in Requests, NEW u \in Users, ResetPassword(r, u) \/ DeactivateUser(r, u)
      PROVE  TypeInv'
  <2>1. req' \in [Requests -> Request]
    BY <1>7, GoesType DEF ResetPassword, DeactivateUser
  <2>2. account' \in [Users -> Account]
    BY <1>7 DEF ResetPassword, DeactivateUser, Account, TypeOK
  <2>3. QED
    BY <1>1, <1>7, <2>1, <2>2 DEF ResetPassword, DeactivateUser, TypeOK
<1>8. ASSUME NEW r \in Requests, RevokeSessions(r)
      PROVE  TypeInv'
  <2>1. StoreTypeOK' /\ \A i \in SessionIds : Used(i)' => sessions'[i].user \in Users
    BY <1>8, OwnersKept DEF RevokeSessions, RevokeAll, TypeOK
  <2>2. QED
    BY <1>8, <2>1, FinishType DEF RevokeSessions, TypeOK
<1>9. ASSUME NEW r \in Requests, ChangeOwnPassword(r)
      PROVE  TypeInv'
  <2>1. account' \in [Users -> Account]
    BY <1>9 DEF ChangeOwnPassword, Account, TypeOK
  <2>2. QED
    BY <1>1, <1>9, <2>1, FinishType DEF ChangeOwnPassword, TypeOK
<1>10. ASSUME NEW r \in Requests, Abandon(r)
       PROVE  TypeInv'
  BY <1>1, <1>10, FinishType DEF Abandon, TypeOK
<1>11. ASSUME NEW t \in tempTokens, ExpireTempToken(t)
       PROVE  TypeInv'
  BY <1>1, <1>11 DEF ExpireTempToken, TypeOK
<1>12. ASSUME NEW u \in Users, NEW flag \in BOOLEAN, UpdateActive(u, flag)
       PROVE  TypeInv'
  <2>1. account' \in [Users -> Account]
    <3>1. CASE flag = TRUE
      BY <1>12, <3>1 DEF UpdateActive, Account, TypeOK
    <3>2. CASE flag = FALSE
      BY <1>12, <3>2 DEF UpdateActive, Account, TypeOK
    <3>3. QED
      BY <3>1, <3>2
  <2>2. QED
    BY <1>1, <1>12, <2>1 DEF UpdateActive, TypeOK
<1>13. ASSUME NEW u \in Users, ForceChange(u)
       PROVE  TypeInv'
  <2>1. StoreTypeOK' /\ \A i \in SessionIds : Used(i)' => sessions'[i].user \in Users
    BY <1>13, OwnersKept DEF ForceChange, RevokeAll, TypeOK
  <2>2. account' \in [Users -> Account]
    BY <1>13 DEF ForceChange, Account, TypeOK
  <2>3. QED
    BY <1>13, <2>1, <2>2 DEF ForceChange, TypeOK
<1>14. CASE UNCHANGED vars
  BY <1>1, <1>14 DEF vars, storeVars, TypeOK
<1>15. QED
  BY <1>2, <1>3, <1>4, <1>5, <1>6, <1>7, <1>8, <1>9, <1>10, <1>11, <1>12, <1>13, <1>14 DEF Next

LEMMA TypeInvariant == Spec => []TypeInv
<1>1. TypeInv /\ [Next]_vars => TypeInv'
  BY TypeStep
<1>2. QED
  BY <1>1, InitType, PTL DEF Spec

\* The tables, the temporary tokens, the requests and the histories keep their
\* types.
THEOREM TypeCorrect == Spec => []TypeOK
BY TypeInvariant, PTL DEF TypeInv

-----------------------------------------------------------------------------
(* What a step does to the rows and to the accounts. *)

\* Only issueTokenPair inserts a row and says how it was opened.
LEMMA TableStep ==
  ASSUME TypeInv, [Next]_vars
  PROVE  \/ \E r \in Requests : IssueTokenPair(r)
         \/ \E r \in Requests : RevokeSessions(r)
         \/ \E u \in Users : ForceChange(u)
         \/ UNCHANGED storeVars /\ opening' = opening
BY DEF Next, ValidateCredentials, ServiceLogin, VerifyAuthentication, CheckOwnPassword, ResetPassword, DeactivateUser,
  CheckChange, Verify2FA, AuthorizeByTempToken, LoginStep, CompleteChange, ChangeOwnPassword,
  Abandon, ExpireTempToken, UpdateActive, vars, storeVars

\* A row that exists keeps its owner and its opening, and does not come back
\* to life; the rest of the table changes by issueTokenPair.
LEMMA RowStep ==
  ASSUME TypeInv, [Next]_vars, NEW s \in SessionIds
  PROVE  /\ Used(s) => /\ Used(s)'
                       /\ sessions'[s].user = sessions[s].user
                       /\ opening'[s] = opening[s]
         /\ Stored(s)' => Stored(s) \/ ~Used(s)
         /\ Live(s)' => Live(s) \/ ~Used(s)
<1> /\ sessions \in [SessionIds -> SessionRow] /\ opening \in [SessionIds -> Opening]
    /\ sessions[s] \in SessionRow
  BY DEF TypeInv, TypeOK, StoreTypeOK
<1> USE DEF Used, Live, Revoked, Stored
<1>1. ASSUME NEW r \in Requests, IssueTokenPair(r)
      PROVE  Used(s) => sessions'[s] = sessions[s] /\ opening'[s] = opening[s]
  BY <1>1 DEF IssueTokenPair, InsertSession
<1>2. ASSUME \/ \E r \in Requests : RevokeSessions(r)
             \/ \E u \in Users : ForceChange(u)
      PROVE  /\ sessions'[s].user = sessions[s].user /\ opening'[s] = opening[s]
             /\ \/ sessions'[s].state = sessions[s].state
                \/ sessions[s].state = "live" /\ sessions'[s].state = "revoked"
  <2>1. PICK S : RevokeRows(S) /\ opening' = opening
    BY <1>2 DEF RevokeSessions, ForceChange, RevokeAll
  <2>2. QED
    BY <2>1, RevokedRow DEF TypeInv, TypeOK
<1>3. QED
  BY <1>1, <1>2, TableStep DEF storeVars

\* A row that was not used and is: what issueTokenPair wrote
LEMMA NewRow ==
  ASSUME TypeInv, [Next]_vars, NEW s \in SessionIds, ~Used(s), Used(s)'
  PROVE  \E r \in Requests :
           LET u == req[r].user IN
           /\ req[r].phase = "issuing" /\ account' = account
           /\ sessions'[s].user = u
           /\ opening'[s] = [via |-> req[r].kind, knows |-> req[r].knows,
                             resets |-> account[u].resets, offs |-> account[u].offs]
<1> /\ sessions \in [SessionIds -> SessionRow] /\ opening \in [SessionIds -> Opening]
  BY DEF TypeInv, TypeOK, StoreTypeOK
<1>1. ~ UNCHANGED storeVars
  BY DEF Used, storeVars
<1>2. ASSUME \/ \E r \in Requests : RevokeSessions(r)
             \/ \E u \in Users : ForceChange(u)
      PROVE  FALSE
  <2>1. PICK S : RevokeRows(S)
    BY <1>2 DEF RevokeSessions, ForceChange, RevokeAll
  <2>2. QED
    BY <2>1, RevokedRow DEF TypeInv, TypeOK, Used, Live
<1>3. PICK r \in Requests : IssueTokenPair(r)
  BY <1>1, <1>2, TableStep
<1>4. PICK i \in SessionIds :
        /\ InsertSession(i, req[r].user)
        /\ opening' = [opening EXCEPT ![i] =
             [via |-> req[r].kind, knows |-> req[r].knows,
              resets |-> account[req[r].user].resets, offs |-> account[req[r].user].offs]]
  BY <1>3 DEF IssueTokenPair
<1>5. i = s
  BY <1>4 DEF InsertSession, Used
<1>6. sessions'[s].user = req[r].user
  BY <1>4, <1>5 DEF InsertSession
<1>7. QED
  BY <1>3, <1>4, <1>5, <1>6 DEF IssueTokenPair

\* Resets and deactivations are the only ways to the mark and out of activity,
\* and each leaves the account unswept or sweeps it at once; the second factor
\* does not change.
LEMMA AccountStep ==
  ASSUME TypeInv, [Next]_vars, NEW u \in Users
  PROVE  /\ \/ /\ account'[u].resets = account[u].resets
               /\ account'[u].mustChange => account[u].mustChange
            \/ /\ account'[u].resets = account[u].resets + 1
               /\ u \in unswept' \/ ForceChange(u)
         /\ \/ /\ account'[u].offs = account[u].offs
               /\ account[u].active => account'[u].active
            \/ account'[u].offs = account[u].offs + 1 /\ u \in unswept'
         /\ account'[u].totpEnabled = account[u].totpEnabled
<1> account \in [Users -> Account] /\ account[u] \in Account
  BY DEF TypeInv, TypeOK
<1> USE DEF Account
<1>1. ASSUME NEW r \in Requests, NEW v \in Users, ResetPassword(r, v)
      PROVE  \/ account'[u] = account[u]
             \/ /\ account'[u] = [account[u] EXCEPT !.mustChange = TRUE,
                                                    !.resets = account[u].resets + 1]
                /\ u \in unswept'
  BY <1>1 DEF ResetPassword
<1>2. ASSUME NEW r \in Requests, NEW v \in Users, DeactivateUser(r, v)
      PROVE  \/ account'[u] = account[u]
             \/ /\ account'[u] = [account[u] EXCEPT !.active = FALSE,
                                                    !.offs = account[u].offs + 1]
                /\ u \in unswept'
  BY <1>2 DEF DeactivateUser
<1>3. ASSUME NEW v \in Users, UpdateActive(v, FALSE)
      PROVE  \/ account'[u] = account[u]
             \/ /\ account'[u] = [account[u] EXCEPT !.active = FALSE,
                                                    !.offs = account[u].offs + 1]
                /\ u \in unswept'
  BY <1>3 DEF UpdateActive
<1>4. ASSUME NEW v \in Users, UpdateActive(v, TRUE)
      PROVE  \/ account'[u] = account[u]
             \/ account'[u] = [account[u] EXCEPT !.active = TRUE, !.offs = account[u].offs]
  BY <1>4 DEF UpdateActive
<1>5. ASSUME NEW r \in Requests, CompleteChange(r) \/ ChangeOwnPassword(r)
      PROVE  \/ account'[u] = account[u]
             \/ account'[u] = [account[u] EXCEPT !.mustChange = FALSE]
  BY <1>5 DEF CompleteChange, ChangeOwnPassword
<1>6. ASSUME NEW v \in Users, ForceChange(v)
      PROVE  \/ account'[u] = account[u]
             \/ /\ account'[u] = [account[u] EXCEPT !.mustChange = TRUE,
                                                    !.resets = account[u].resets + 1]
                /\ u = v
  BY <1>6 DEF ForceChange
<1>7. \/ account' = account
      \/ \E r \in Requests, v \in Users : ResetPassword(r, v) \/ DeactivateUser(r, v)
      \/ \E v \in Users, flag \in BOOLEAN : UpdateActive(v, flag)
      \/ \E v \in Users : ForceChange(v)
      \/ \E r \in Requests : CompleteChange(r) \/ ChangeOwnPassword(r)
  BY DEF Next, ValidateCredentials, ServiceLogin, VerifyAuthentication, CheckOwnPassword,
    CheckChange, Verify2FA, AuthorizeByTempToken, LoginStep, IssueTokenPair, RevokeSessions,
    Abandon, ExpireTempToken, vars
<1>8. QED
  BY <1>1, <1>2, <1>3, <1>4, <1>5, <1>6, <1>7

\* A swept account was swept by the revocation of its sessions.
LEMMA SweepStep ==
  ASSUME TypeInv, [Next]_vars, NEW u \in Users,
         ForceChange(u) \/ (u \in unswept /\ u \notin unswept'),
         NEW s \in SessionIds, sessions[s].user = u
  PROVE  ~Live(s)'
<1>1. (\E r \in Requests : RevokeSessions(r) /\ req[r].user = u) \/ ForceChange(u)
  BY DEF Next, ValidateCredentials, ServiceLogin, VerifyAuthentication, CheckOwnPassword,
    ResetPassword, DeactivateUser, CheckChange, Verify2FA, AuthorizeByTempToken, LoginStep,
    CompleteChange,
    ChangeOwnPassword, IssueTokenPair, RevokeSessions, ForceChange, Abandon, ExpireTempToken,
    UpdateActive, vars
<1>2. RevokeRows({i \in SessionIds : sessions[i].user = u})
  BY <1>1 DEF RevokeSessions, ForceChange, RevokeAll
<1>3. QED
  BY <1>2, RevokedRow DEF TypeInv, TypeOK, Live

-----------------------------------------------------------------------------
(* What the chains of requests know. *)

\* u was seen unmarked when it had had n resets: a mark it bears now is from a
\* later one.
SeenUnmarked(u, n) ==
  n <= account[u].resets /\ (account[u].mustChange => n < account[u].resets)

\* The same of being seen active
SeenActive(u, n) ==
  n <= account[u].offs /\ (~account[u].active => n < account[u].offs)

\* A request on its way to a session
InChain(q) == \/ q.phase \in {"validated", "issuing"}
              \/ q.phase = "checked" /\ q.kind = "cambio"

SoundRequest(q) ==
  /\ q.phase = "issuing" =>
       /\ q.kind = "service" \/ SeenUnmarked(q.user, q.knows.resets)
       /\ account[q.user].totpEnabled => q.kind \in {"twoFactor", "service", "passkey", "sso"}
  /\ InChain(q) => SeenActive(q.user, q.knows.offs)

SoundToken(t) ==
  /\ t.type = "2fa_pending" => SeenUnmarked(t.user, t.knows.resets)
  /\ SeenActive(t.user, t.knows.offs)

\* What requests and temporary tokens carry was seen, whatever happened since.
Chains ==
  /\ \A r \in Requests : SoundRequest(req[r])
  /\ \A t \in tempTokens : SoundToken(t)

\* Nothing that happens to the account makes it false.
LEMMA SoundnessKept ==
  ASSUME TypeInv, [Next]_vars
  PROVE  /\ \A q \in Request : SoundRequest(q) => SoundRequest(q)'
         /\ \A t \in TempToken : SoundToken(t) => SoundToken(t)'
<1>1. ASSUME NEW u \in Users
      PROVE  /\ account[u].resets \in Nat /\ account[u].offs \in Nat
             /\ account[u].active \in BOOLEAN /\ account'[u].active \in BOOLEAN
  BY TypeStep DEF TypeInv, TypeOK, Account
<1>2. ASSUME NEW u \in Users, NEW n \in Nat
      PROVE  /\ SeenUnmarked(u, n) => SeenUnmarked(u, n)'
             /\ SeenActive(u, n) => SeenActive(u, n)'
             /\ account'[u].totpEnabled = account[u].totpEnabled
  BY <1>1, AccountStep DEF SeenUnmarked, SeenActive
<1>3. ASSUME NEW q \in Request, SoundRequest(q)
      PROVE  SoundRequest(q)'
  <2>1. q.user \in Users /\ q.knows.resets \in Nat /\ q.knows.offs \in Nat
    BY DEF Request, Knowledge
  <2>2. QED
    BY <1>2, <1>3, <2>1 DEF SoundRequest, InChain
<1>4. ASSUME NEW t \in TempToken, SoundToken(t)
      PROVE  SoundToken(t)'
  <2>1. t.user \in Users /\ t.knows.resets \in Nat /\ t.knows.offs \in Nat
    BY DEF TempToken, Knowledge
  <2>2. QED
    BY <1>2, <1>4, <2>1 DEF SoundToken
<1>5. QED
  BY <1>3, <1>4

\* The chains stay sound if the request and the token that are new are.
LEMMA NewSound ==
  ASSUME TypeInv, Chains, [Next]_vars, NEW r \in Requests,
         \A q \in Requests \ {r} : req'[q] = req[q],
         SoundRequest(req[r])',
         \A t \in tempTokens' \ tempTokens : SoundToken(t)'
  PROVE  Chains'
<1>1. ASSUME NEW x \in Requests \ {r}
      PROVE  SoundRequest(req[x])'
  <2>1. PICK q \in Request : q = req[x]
    BY DEF TypeInv, TypeOK
  <2>2. SoundRequest(q)'
    BY <2>1, SoundnessKept DEF Chains
  <2>3. q = req'[x]
    BY <2>1
  <2>4. QED
    BY <2>2, <2>3 DEF SoundRequest, SeenUnmarked, SeenActive, InChain
<1>2. ASSUME NEW t \in tempTokens
      PROVE  SoundToken(t)'
  <2>1. t \in TempToken
    BY DEF TypeInv, TypeOK
  <2>2. QED
    BY <2>1, SoundnessKept DEF Chains
<1>3. QED
  BY <1>1, <1>2 DEF Chains

\* A request that ends is sound.
LEMMA IdleSound ==
  ASSUME NEW r \in Requests, req'[r].phase = "idle"
  PROVE  SoundRequest(req[r])'
BY DEF SoundRequest, InChain

LEMMA ChainsStep ==
  ASSUME TypeInv, Chains, [Next]_vars
  PROVE  Chains'
<1> /\ req \in [Requests -> Request] /\ TypeOK
    /\ \A r \in Requests : req[r].user \in Users /\ req[r].knows \in Knowledge
    /\ \A u \in Users : /\ account[u] \in Account
                        /\ account[u].resets \in Nat /\ account[u].offs \in Nat
    /\ \A t \in tempTokens : t \in TempToken /\ t.user \in Users /\ t.knows \in Knowledge
  BY DEF TypeInv, TypeOK, Request, Account, TempToken
<1> USE DEF Kind, Phase
\* A request goes on, from an account that the step leaves alone.
<1>1. ASSUME NEW r \in Requests, NEW k \in Kind, NEW p \in Phase, NEW u \in Users,
             NEW knows \in Knowledge, Goes(r, k, p, u, knows), tempTokens' \subseteq tempTokens,
             SoundRequest([kind |-> k, phase |-> p, user |-> u, knows |-> knows])
      PROVE  Chains'
  <2> DEFINE q == [kind |-> k, phase |-> p, user |-> u, knows |-> knows]
  <2>1. q \in Request
    BY DEF Request
  <2>2. SoundRequest(q)
    BY <1>1
  <2> HIDE DEF q
  <2>3. SoundRequest(q)'
    BY <2>1, <2>2, SoundnessKept
  <2>4. req'[r] = q /\ \A x \in Requests \ {r} : req'[x] = req[x]
    BY <1>1 DEF Goes, q
  <2>5. SoundRequest(req[r])'
    BY <2>3, <2>4 DEF SoundRequest, SeenUnmarked, SeenActive, InChain
  <2>6. \A t \in tempTokens' \ tempTokens : SoundToken(t)'
    BY <1>1
  <2>7. QED
    BY <2>4, <2>5, <2>6, NewSound
\* A request ends, leaving a token or none.
<1>2. ASSUME NEW r \in Requests, Finish(r), \A t \in tempTokens' \ tempTokens : SoundToken(t)'
      PROVE  Chains'
  BY <1>2, FinishType, IdleSound, NewSound
<1>3. ASSUME NEW r \in Requests, NEW u \in Users,
             ValidateCredentials(r, u) \/ ServiceLogin(r, u) \/ VerifyAuthentication(r, u)
      PROVE  Chains'
  <2> USE DEF ValidateCredentials, ServiceLogin, VerifyAuthentication
  <2>1. /\ KnowsAll(u) \in Knowledge /\ account[u].active
        /\ KnowsAll(u).offs = account[u].offs /\ KnowsAll(u).resets = account[u].resets
    BY <1>3 DEF KnowsAll, Knowledge
  <2>2. SeenActive(u, KnowsAll(u).offs)
    BY <2>1 DEF SeenActive
  <2>3. VerifyAuthentication(r, u) => SeenUnmarked(u, KnowsAll(u).resets)
    BY <2>1 DEF SeenUnmarked
  <2>4. QED
    BY <1>1, <1>3, <2>1, <2>2, <2>3 DEF SoundRequest, InChain
<1>4. ASSUME NEW r \in Requests, LoginStep(r)
      PROVE  Chains'
  <2> DEFINE u == req[r].user
             knows == [req[r].knows EXCEPT !.resets = account[u].resets]
  <2>1. knows \in Knowledge /\ knows.resets = account[u].resets /\ knows.offs = req[r].knows.offs
    BY KnowledgeFields DEF Knowledge
  <2>2. SeenActive(u, req[r].knows.offs)
    BY <1>4 DEF LoginStep, At, Chains, SoundRequest, InChain
  <2>3. CASE account[u].mustChange
    <3>1. SignTempToken("cambio_clave", u, req[r].knows) /\ Finish(r)
      BY <1>4, <2>3 DEF LoginStep
    <3>2. PICK t \in TempToken : t = [type |-> "cambio_clave", user |-> u, knows |-> req[r].knows]
      BY DEF TempToken
    <3>3. SoundToken(t)
      BY <2>2, <3>2 DEF SoundToken
    <3>4. SoundToken(t)'
      BY <3>3, SoundnessKept
    <3>5. QED
      BY <1>2, <3>1, <3>2, <3>4 DEF SignTempToken
  <2>4. CASE ~account[u].mustChange /\ account[u].totpEnabled
    <3>1. SignTempToken("2fa_pending", u, knows) /\ Finish(r)
      BY <1>4, <2>4 DEF LoginStep
    <3> HIDE DEF knows
    <3>2. PICK t \in TempToken : t = [type |-> "2fa_pending", user |-> u, knows |-> knows]
      BY <2>1 DEF TempToken
    <3>3. SoundToken(t)
      BY <2>1, <2>2, <2>4, <3>2 DEF SoundToken, SeenUnmarked
    <3>4. SoundToken(t)'
      BY <3>3, SoundnessKept
    <3>5. QED
      BY <1>2, <3>1, <3>2, <3>4 DEF SignTempToken
  <2>5. CASE ~account[u].mustChange /\ ~account[u].totpEnabled
    <3>1. Goes(r, "login", "issuing", u, knows) /\ tempTokens' = tempTokens
      BY <1>4, <2>5 DEF LoginStep
    <3> HIDE DEF knows
    <3>2. SoundRequest([kind |-> "login", phase |-> "issuing", user |-> u, knows |-> knows])
      BY <2>1, <2>2, <2>5 DEF SoundRequest, InChain, SeenUnmarked
    <3>3. QED
      BY <1>1, <2>1, <3>1, <3>2
  <2>6. QED
    BY <2>3, <2>4, <2>5
<1>5. ASSUME NEW r \in Requests, NEW t \in tempTokens, CheckChange(r, t)
      PROVE  Chains'
  <2> DEFINE knows == [t.knows EXCEPT !.offs = account[t.user].offs]
  <2>1. knows \in Knowledge /\ knows.offs = account[t.user].offs
    BY KnowledgeFields DEF Knowledge
  <2>2. account[t.user].active /\ Goes(r, "cambio", "checked", t.user, knows) /\ tempTokens' = tempTokens
    BY <1>5 DEF CheckChange
  <2> HIDE DEF knows
  <2>3. SoundRequest([kind |-> "cambio", phase |-> "checked", user |-> t.user, knows |-> knows])
    BY <2>1, <2>2 DEF SoundRequest, SeenActive
  <2>4. QED
    BY <1>1, <2>1, <2>2, <2>3
<1>6. ASSUME NEW r \in Requests, NEW t \in tempTokens, Verify2FA(r, t)
      PROVE  Chains'
  <2> DEFINE knows == [t.knows EXCEPT !.resets = account[t.user].resets]
  <2>1. knows \in Knowledge /\ knows.resets = account[t.user].resets /\ knows.offs = t.knows.offs
    BY KnowledgeFields DEF Knowledge
  <2>2. /\ ~account[t.user].mustChange /\ Goes(r, "twoFactor", "issuing", t.user, knows)
        /\ tempTokens' = tempTokens
    BY <1>6 DEF Verify2FA
  <2>3. SeenActive(t.user, t.knows.offs)
    BY DEF Chains, SoundToken
  <2> HIDE DEF knows
  <2>4. SoundRequest([kind |-> "twoFactor", phase |-> "issuing", user |-> t.user, knows |-> knows])
    BY <2>1, <2>2, <2>3 DEF SoundRequest, SeenUnmarked
  <2>5. QED
    BY <1>1, <2>1, <2>2, <2>4
<1>12. ASSUME NEW r \in Requests, NEW t \in tempTokens, AuthorizeByTempToken(r, t)
       PROVE  Chains'
  <2>1. PICK n \in Nat, m \in Nat : n = account[t.user].resets /\ m = account[t.user].offs
    BY DEF TypeOK, Account, TempToken
  <2>2. PICK knows \in Knowledge : knows = [t.knows EXCEPT !.resets = n, !.offs = m]
    BY KnowledgeFields DEF TypeOK, TempToken
  <2>3. knows.resets = n /\ knows.offs = m
    BY <2>2 DEF Knowledge, TypeOK, TempToken
  <2>4. /\ account[t.user].active /\ ~account[t.user].mustChange
        /\ Goes(r, "sso", "issuing", t.user, knows) /\ tempTokens' = tempTokens
    BY <1>12, <2>1, <2>2 DEF AuthorizeByTempToken
  <2>5. SoundRequest([kind |-> "sso", phase |-> "issuing", user |-> t.user, knows |-> knows])
    BY <2>1, <2>3, <2>4 DEF SoundRequest, SeenUnmarked, SeenActive
  <2>6. QED
    BY <1>1, <2>4, <2>5
<1>7. ASSUME NEW r \in Requests, CompleteChange(r)
      PROVE  Chains'
  <2>1. PICK u \in Users, n \in Nat : u = req[r].user /\ n = account[u].resets
    OBVIOUS
  <2>2. PICK knows \in Knowledge :
          knows = [req[r].knows EXCEPT !.resets = n, !.password = n]
    BY KnowledgeFields
  <2>3. knows.resets = n /\ knows.offs = req[r].knows.offs /\ knows.offs \in Nat
    BY <2>2 DEF Knowledge
  <2>4. /\ account'[u].resets = n /\ ~account'[u].mustChange
        /\ account'[u].totpEnabled = account[u].totpEnabled
    BY <1>7, <2>1 DEF CompleteChange, Account, TypeOK
  <2>5. SeenActive(u, knows.offs) /\ SeenUnmarked(u, knows.resets)'
    BY <1>7, <2>1, <2>3, <2>4 DEF CompleteChange, At, Chains, SoundRequest, InChain, SeenUnmarked
  <2>6. SeenActive(u, knows.offs)'
    <3>1. SoundToken([type |-> "cambio_clave", user |-> u, knows |-> knows])
      BY <2>5 DEF SoundToken
    <3>2. [type |-> "cambio_clave", user |-> u, knows |-> knows] \in TempToken
      BY DEF TempToken
    <3>3. QED
      BY <3>1, <3>2, SoundnessKept DEF SoundToken
  <2>7. CASE account[u].totpEnabled
    <3>1. SignTempToken("2fa_pending", u, knows) /\ Finish(r)
      BY <1>7, <2>1, <2>2, <2>7 DEF CompleteChange
    <3>2. PICK t : t = [type |-> "2fa_pending", user |-> u, knows |-> knows]
      OBVIOUS
    <3>3. SoundToken(t)'
      BY <2>5, <2>6, <3>2 DEF SoundToken
    <3>4. QED
      BY <1>2, <3>1, <3>2, <3>3 DEF SignTempToken
  <2>8. CASE ~account[u].totpEnabled
    <3>1. Goes(r, "cambio", "issuing", u, knows) /\ tempTokens' = tempTokens
      BY <1>7, <2>1, <2>2, <2>8 DEF CompleteChange
    <3>2. /\ req'[r] = [kind |-> "cambio", phase |-> "issuing", user |-> u, knows |-> knows]
          /\ \A x \in Requests \ {r} : req'[x] = req[x]
      BY <3>1 DEF Goes
    <3>3. SoundRequest(req[r])'
      BY <2>4, <2>5, <2>6, <2>8, <3>2 DEF SoundRequest, SeenUnmarked, SeenActive
    <3>4. QED
      BY <3>1, <3>2, <3>3, NewSound
  <2>9. QED
    BY <2>7, <2>8
<1>8. ASSUME NEW r \in Requests, NEW u \in Users,
             CheckOwnPassword(r, u) \/ ResetPassword(r, u) \/ DeactivateUser(r, u)
      PROVE  Chains'
  <2>1. PICK k \in {"self", "reset", "deactivate"}, p \in {"checked", "written"} :
          Goes(r, k, p, u, Nothing) /\ tempTokens' = tempTokens
    BY <1>8 DEF CheckOwnPassword, ResetPassword, DeactivateUser
  <2>2. SoundRequest([kind |-> k, phase |-> p, user |-> u, knows |-> Nothing])
    BY DEF SoundRequest, InChain
  <2>3. Nothing \in Knowledge
    BY DEF Nothing, Knowledge
  <2>4. QED
    BY <1>1, <2>1, <2>2, <2>3
<1>9. ASSUME NEW r \in Requests,
             IssueTokenPair(r) \/ ChangeOwnPassword(r) \/ RevokeSessions(r) \/ Abandon(r)
      PROVE  Chains'
  BY <1>2, <1>9 DEF IssueTokenPair, ChangeOwnPassword, RevokeSessions, Abandon
<1>10. ASSUME req' = req, tempTokens' \subseteq tempTokens
       PROVE  Chains'
  <2>1. ASSUME NEW r \in Requests
        PROVE  SoundRequest(req[r])'
    <3>1. PICK q \in Request : q = req[r]
      OBVIOUS
    <3>2. SoundRequest(q)'
      BY <3>1, SoundnessKept DEF Chains
    <3>3. QED
      BY <1>10, <3>1, <3>2 DEF SoundRequest, SeenUnmarked, SeenActive, InChain
  <2>2. QED
    BY <1>10, <2>1, SoundnessKept DEF Chains
<1>11. ASSUME \/ \E t \in tempTokens : ExpireTempToken(t)
              \/ \E u \in Users, flag \in BOOLEAN : UpdateActive(u, flag)
              \/ \E u \in Users : ForceChange(u)
              \/ UNCHANGED vars
       PROVE  Chains'
  BY <1>10, <1>11 DEF ExpireTempToken, UpdateActive, ForceChange, vars
<1>13. QED
  BY <1>3, <1>4, <1>5, <1>6, <1>7, <1>8, <1>9, <1>11, <1>12 DEF Next

LEMMA ChainsInvariant == Spec => []Chains
<1>1. Init => Chains
  BY IdleType DEF Init, Chains, SoundRequest, InChain
<1>2. TypeInv /\ Chains /\ [Next]_vars => Chains'
  BY ChainsStep
<1>3. QED
  BY <1>1, <1>2, TypeInvariant, PTL DEF Spec
-----------------------------------------------------------------------------
(* The sessions an account is left with. *)

\* A row that appears is either swept over or opened by a sound request; one
\* that was there stays as it was, and no reset passes it by.
LEMMA MarkedStep ==
  ASSUME TypeInv, Chains, MarkedAccountsHoldEarlySessions, [Next]_vars
  PROVE  MarkedAccountsHoldEarlySessions'
<1>1. SUFFICES ASSUME NEW s \in SessionIds, NEW u \in Users, u = sessions'[s].user, Live(s)',
                      account'[u].mustChange, u \notin unswept'
               PROVE  /\ opening'[s].resets = account'[u].resets
                      /\ \/ opening'[s].knows.resets < account'[u].resets
                         \/ opening'[s].via = "service"
  <2>1. \A s \in SessionIds : Live(s)' => sessions'[s].user \in Users
    BY TypeStep DEF TypeInv, Live, Used
  <2>2. QED
    BY <2>1 DEF MarkedAccountsHoldEarlySessions
<1>2. account'[u].resets = account[u].resets /\ account[u].mustChange
  <2>1. ~ForceChange(u)
    <3>1. CASE Used(s)
      BY <1>1, <3>1, RowStep, SweepStep
    <3>2. CASE ~Used(s)
      <4>1. Used(s)'
        BY <1>1 DEF Used, Live
      <4>2. account' = account
        BY <3>2, <4>1, NewRow
      <4>3. account[u].resets \in Nat
        BY DEF TypeInv, TypeOK, Account
      <4>4. ForceChange(u) => account'[u].resets = account[u].resets + 1
        BY DEF ForceChange, TypeInv, TypeOK, Account
      <4>5. QED
        BY <4>2, <4>3, <4>4
    <3>3. QED
      BY <3>1, <3>2
  <2>2. QED
    BY <1>1, <2>1, AccountStep
<1>3. CASE Used(s)
  <2>1. Live(s) /\ sessions[s].user = u /\ opening'[s] = opening[s]
    BY <1>1, <1>3, RowStep
  <2>2. u \notin unswept
    BY <1>1, <2>1, SweepStep
  <2>3. QED
    BY <1>2, <2>1, <2>2 DEF MarkedAccountsHoldEarlySessions
<1>4. CASE ~Used(s)
  <2>1. Used(s)'
    BY <1>1 DEF Used, Live
  <2>2. PICK r \in Requests :
          /\ req[r].phase = "issuing" /\ account' = account /\ sessions'[s].user = req[r].user
          /\ opening'[s] = [via |-> req[r].kind, knows |-> req[r].knows,
                            resets |-> account[req[r].user].resets,
                            offs |-> account[req[r].user].offs]
    BY <1>4, <2>1, NewRow
  <2>3. req[r].kind = "service" \/ SeenUnmarked(u, req[r].knows.resets)
    BY <1>1, <2>2 DEF Chains, SoundRequest
  <2>4. QED
    BY <1>1, <1>2, <2>2, <2>3 DEF SeenUnmarked
<1>5. QED
  BY <1>3, <1>4

\* While an account must change its password and its sessions were swept, the
\* sessions it has were opened after the reset by a request that had seen it
\* unmarked before, or by a service login (auth.service login, verify2FA,
\* completarCambioClave, serviceLogin against admin.service resetPassword).
THEOREM MarkedHoldEarly == Spec => []MarkedAccountsHoldEarlySessions
<1>1. Init => MarkedAccountsHoldEarlySessions
  BY DEF Init, StoreInit, UnusedRow, Live, MarkedAccountsHoldEarlySessions
<1>2. TypeInv /\ Chains /\ MarkedAccountsHoldEarlySessions /\ [Next]_vars
        => MarkedAccountsHoldEarlySessions'
  BY MarkedStep
<1>3. QED
  BY <1>1, <1>2, TypeInvariant, ChainsInvariant, PTL DEF Spec

LEMMA InactiveStep ==
  ASSUME TypeInv, Chains, InactiveAccountsHoldEarlySessions, [Next]_vars
  PROVE  InactiveAccountsHoldEarlySessions'
<1>1. SUFFICES ASSUME NEW s \in SessionIds, NEW u \in Users, u = sessions'[s].user, Live(s)',
                      ~account'[u].active, u \notin unswept'
               PROVE  /\ opening'[s].offs = account'[u].offs
                      /\ opening'[s].knows.offs < account'[u].offs
  <2>1. \A s \in SessionIds : Live(s)' => sessions'[s].user \in Users
    BY TypeStep DEF TypeInv, Live, Used
  <2>2. QED
    BY <2>1 DEF InactiveAccountsHoldEarlySessions
<1>2. account'[u].offs = account[u].offs /\ ~account[u].active
  BY <1>1, AccountStep
<1>3. CASE Used(s)
  <2>1. Live(s) /\ sessions[s].user = u /\ opening'[s] = opening[s]
    BY <1>1, <1>3, RowStep
  <2>2. u \notin unswept
    BY <1>1, <2>1, SweepStep
  <2>3. QED
    BY <1>2, <2>1, <2>2 DEF InactiveAccountsHoldEarlySessions
<1>4. CASE ~Used(s)
  <2>1. Used(s)'
    BY <1>1 DEF Used, Live
  <2>2. PICK r \in Requests :
          /\ req[r].phase = "issuing" /\ account' = account /\ sessions'[s].user = req[r].user
          /\ opening'[s] = [via |-> req[r].kind, knows |-> req[r].knows,
                            resets |-> account[req[r].user].resets,
                            offs |-> account[req[r].user].offs]
    BY <1>4, <2>1, NewRow
  <2>3. SeenActive(u, req[r].knows.offs)
    BY <1>1, <2>2 DEF Chains, SoundRequest, InChain
  <2>4. QED
    BY <1>1, <1>2, <2>2, <2>3 DEF SeenActive
<1>5. QED
  BY <1>3, <1>4

\* The sessions of an inactive, swept account were opened by a chain of
\* requests that had seen it active before its deactivation (admin.service
\* deactivateUser and updateUser).
THEOREM InactiveHoldEarly == Spec => []InactiveAccountsHoldEarlySessions
<1>1. Init => InactiveAccountsHoldEarlySessions
  BY DEF Init, StoreInit, UnusedRow, Live, InactiveAccountsHoldEarlySessions
<1>2. TypeInv /\ Chains /\ InactiveAccountsHoldEarlySessions /\ [Next]_vars
        => InactiveAccountsHoldEarlySessions'
  BY InactiveStep
<1>3. QED
  BY <1>1, <1>2, TypeInvariant, ChainsInvariant, PTL DEF Spec

\* FirstFactorOpensNothing of every row ever inserted, stored or not
EveryOpeningHolds ==
  \A s \in SessionIds :
    Used(s) /\ account[sessions[s].user].totpEnabled =>
      opening[s].via \in {"twoFactor", "service", "passkey", "sso"}

LEMMA OpeningStep ==
  ASSUME TypeInv, Chains, EveryOpeningHolds, [Next]_vars
  PROVE  EveryOpeningHolds'
<1>1. SUFFICES ASSUME NEW s \in SessionIds, NEW u \in Users, u = sessions'[s].user, Used(s)',
                      account'[u].totpEnabled
               PROVE  opening'[s].via \in {"twoFactor", "service", "passkey", "sso"}
  <2>1. \A s \in SessionIds : Used(s)' => sessions'[s].user \in Users
    BY TypeStep DEF TypeInv, Used
  <2>2. QED
    BY <2>1 DEF EveryOpeningHolds
<1>2. account[u].totpEnabled
  BY <1>1, AccountStep
<1>3. CASE Used(s)
  BY <1>1, <1>2, <1>3, RowStep DEF EveryOpeningHolds
<1>4. CASE ~Used(s)
  <2>1. PICK r \in Requests :
          /\ req[r].phase = "issuing" /\ sessions'[s].user = req[r].user
          /\ opening'[s] = [via |-> req[r].kind, knows |-> req[r].knows,
                            resets |-> account[req[r].user].resets,
                            offs |-> account[req[r].user].offs]
    BY <1>1, <1>4, NewRow
  <2>2. req[r].kind \in {"twoFactor", "service", "passkey", "sso"}
    BY <1>1, <1>2, <2>1 DEF Chains, SoundRequest
  <2>3. QED
    BY <2>1, <2>2
<1>5. QED
  BY <1>3, <1>4

\* No login and no forced change opens by itself a session of an account with
\* a second factor (auth.service login, completarCambioClave): that takes
\* verify2FA, a passkey, a service login, or the temporary token they answer
\* with, shown at /oidc/authorize (oidc.service resolveSsoContext).
THEOREM FirstFactor == Spec => []FirstFactorOpensNothing
<1>1. Init => EveryOpeningHolds
  BY DEF Init, StoreInit, EveryOpeningHolds, Used, UnusedRow
<1>2. TypeInv /\ Chains /\ EveryOpeningHolds /\ [Next]_vars => EveryOpeningHolds'
  BY OpeningStep
<1>3. EveryOpeningHolds => FirstFactorOpensNothing
  BY DEF EveryOpeningHolds, FirstFactorOpensNothing, Used, Stored, Live, Revoked
<1>4. QED
  BY <1>1, <1>2, <1>3, TypeInvariant, ChainsInvariant, PTL DEF Spec

=============================================================================
