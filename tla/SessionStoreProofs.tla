------------------------- MODULE SessionStoreProofs -------------------------
(***************************************************************************)
(* Facts about the statements of the table, for the proofs about the       *)
(* modules that use it.                                                    *)
(***************************************************************************)
EXTENDS SessionStore, TLAPS

USE StoreAssumption

-----------------------------------------------------------------------------
(* The statements of the table keep its type. *)

\* A row with a field changed is a row.
LEMMA RowFields ==
  ASSUME NEW row \in SessionRow
  PROVE  /\ \A st \in {"live", "revoked", "deleted"} : [row EXCEPT !.state = st] \in SessionRow
         /\ \A t \in Nat : [row EXCEPT !.tokenHash = HashToken(t)] \in SessionRow
         /\ \A n \in -1 .. RefreshExpiry : [row EXCEPT !.left = n] \in SessionRow
         /\ \A n \in 0 .. RevokedRetention + 1 : [row EXCEPT !.revokedFor = n] \in SessionRow
BY DEF SessionRow, HashToken

LEMMA InsertType ==
  ASSUME StoreTypeOK, NEW s \in SessionIds, NEW u \in Users, InsertSession(s, u)
  PROVE  StoreTypeOK'
BY DEF StoreTypeOK, InsertSession, SessionRow, HashToken, FreshToken, Lifetime

LEMMA RotateType ==
  ASSUME StoreTypeOK, NEW s \in SessionIds, RotateSession(s)
  PROVE  StoreTypeOK'
<1>1. sessions[s] \in SessionRow /\ FreshToken \in Nat
  BY DEF StoreTypeOK, FreshToken
<1>2. [sessions[s] EXCEPT !.tokenHash = HashToken(FreshToken), !.left = Lifetime]
        \in SessionRow
  <2>1. [sessions[s] EXCEPT !.tokenHash = HashToken(FreshToken)] \in SessionRow
    BY <1>1, RowFields
  <2>2. Lifetime \in -1 .. RefreshExpiry
    BY DEF Lifetime
  <2>3. QED
    BY <2>1, <2>2, RowFields
<1>3. QED
  BY <1>1, <1>2 DEF StoreTypeOK, RotateSession

LEMMA RevokeType ==
  ASSUME StoreTypeOK, NEW S, RevokeRows(S)
  PROVE  StoreTypeOK'
<1>1. ASSUME NEW row \in SessionRow
      PROVE  [row EXCEPT !.state = "revoked", !.revokedFor = 0] \in SessionRow
  <2>1. [row EXCEPT !.state = "revoked"] \in SessionRow
    BY RowFields
  <2>2. 0 \in 0 .. RevokedRetention + 1
    OBVIOUS
  <2>3. QED
    BY <2>1, <2>2, RowFields
<1>2. QED
  BY <1>1 DEF StoreTypeOK, RevokeRows

LEMMA CleanupType ==
  ASSUME StoreTypeOK, CleanupExpiredSessions
  PROVE  StoreTypeOK'
<1>1. ASSUME NEW row \in SessionRow
      PROVE  [row EXCEPT !.state = "deleted", !.left = 0, !.revokedFor = 0] \in SessionRow
  <2>1. [row EXCEPT !.state = "deleted"] \in SessionRow
    BY RowFields
  <2>2. 0 \in -1 .. RefreshExpiry /\ 0 \in 0 .. RevokedRetention + 1
    OBVIOUS
  <2>3. [row EXCEPT !.state = "deleted", !.left = 0] \in SessionRow
    BY <2>1, <2>2, RowFields
  <2>4. QED
    BY <2>2, <2>3, RowFields
<1>2. QED
  BY <1>1 DEF StoreTypeOK, CleanupExpiredSessions

LEMMA AgeType ==
  ASSUME StoreTypeOK, SessionsAge
  PROVE  StoreTypeOK'
<1>1. ASSUME NEW s \in SessionIds
      PROVE  sessions'[s] \in SessionRow
  <2> DEFINE left == IF Stored(s) /\ sessions[s].left >= 0
                       THEN sessions[s].left - 1 ELSE sessions[s].left
             for  == IF Revoked(s) /\ sessions[s].revokedFor <= RevokedRetention
                       THEN sessions[s].revokedFor + 1 ELSE sessions[s].revokedFor
  <2>1. sessions[s] \in SessionRow
    BY DEF StoreTypeOK
  <2>2. left \in -1 .. RefreshExpiry /\ for \in 0 .. RevokedRetention + 1
    BY <2>1 DEF SessionRow
  <2>3. sessions'[s] = [sessions[s] EXCEPT !.left = left, !.revokedFor = for]
    BY DEF SessionsAge
  <2>4. [sessions[s] EXCEPT !.left = left] \in SessionRow
    BY <2>1, <2>2, RowFields
  <2> HIDE DEF left, for
  <2>5. QED
    BY <2>2, <2>3, <2>4, RowFields
<1>2. QED
  BY <1>1 DEF StoreTypeOK, SessionsAge

\* A row that is or was in the table
Used(s) == sessions[s].state # "unused"

\* What the statements that insert nothing do to a row
LEMMA RotatedRow ==
  ASSUME StoreTypeOK, NEW i \in SessionIds, RotateSession(i), NEW s \in SessionIds
  PROVE  sessions'[s].user = sessions[s].user /\ sessions'[s].state = sessions[s].state
<1>1. sessions \in [SessionIds -> SessionRow] /\ sessions[i] \in SessionRow
  BY DEF StoreTypeOK
<1>2. QED
  BY <1>1 DEF RotateSession, SessionRow

LEMMA RevokedRow ==
  ASSUME StoreTypeOK, NEW S, RevokeRows(S), NEW s \in SessionIds
  PROVE  /\ sessions'[s].user = sessions[s].user
         /\ IF s \in S /\ Live(s) THEN sessions'[s].state = "revoked"
                                  ELSE sessions'[s].state = sessions[s].state
<1>1. sessions[s] \in SessionRow
  BY DEF StoreTypeOK
<1>2. sessions'[s] = IF s \in S /\ Live(s)
                       THEN [sessions[s] EXCEPT !.state = "revoked", !.revokedFor = 0]
                       ELSE sessions[s]
  BY DEF RevokeRows
<1>3. QED
  BY <1>1, <1>2 DEF SessionRow

\* The statements on the table keep owners.
LEMMA OwnersKept ==
  ASSUME StoreTypeOK, \A s \in SessionIds : Used(s) => sessions[s].user \in Users,
         \/ \E s \in SessionIds, u \in Users : InsertSession(s, u)
         \/ \E s \in SessionIds : RotateSession(s)
         \/ \E S : RevokeRows(S)
         \/ UNCHANGED storeVars
  PROVE  StoreTypeOK' /\ \A s \in SessionIds : Used(s)' => sessions'[s].user \in Users
<1> USE DEF Used
<1>1. ASSUME NEW i \in SessionIds, NEW u \in Users, InsertSession(i, u)
      PROVE  \A s \in SessionIds : Used(s)' => sessions'[s].user \in Users
  BY <1>1 DEF InsertSession, StoreTypeOK
<1>2. ASSUME NEW i \in SessionIds, RotateSession(i)
      PROVE  \A s \in SessionIds : Used(s)' => sessions'[s].user \in Users
  BY <1>2, RotatedRow
<1>3. ASSUME NEW S, RevokeRows(S)
      PROVE  \A s \in SessionIds : Used(s)' => sessions'[s].user \in Users
  BY <1>3, RevokedRow DEF Live
<1>4. CASE UNCHANGED storeVars
  BY <1>4 DEF storeVars, StoreTypeOK
<1>5. QED
  BY <1>1, <1>2, <1>3, <1>4, InsertType, RotateType, RevokeType
=============================================================================
