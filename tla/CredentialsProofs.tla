-------------------------- MODULE CredentialsProofs --------------------------
(***************************************************************************)
(* Proofs about Credentials, for any number of overlapping logins, of      *)
(* attempts before a lock, of ticks it lasts and of passwords.             *)
(***************************************************************************)
EXTENDS Credentials, StaleWrites

USE CredentialsAssumption DEF NoLock

\* What a request in flight carries is a row; the one not in flight has none.
LEMMA SeenRow ==
  ASSUME TypeOK, NEW r \in Requests, InFlight(r)
  PROVE  /\ seen[r] \in Row
         /\ seen[r].password \in Nat
         /\ seen[r].attempts \in 0 .. MaxFailedAttempts
BY DEF TypeOK, InFlight, Row

\* A row with the fields changed that a statement writes is a row.
LEMMA RowFields ==
  ASSUME NEW x \in Row
  PROVE  /\ \A a \in 0 .. MaxFailedAttempts : [x EXCEPT !.attempts = a] \in Row
         /\ \A l \in NoLock .. LockoutTicks : [x EXCEPT !.lock = l] \in Row
         /\ \A a \in 0 .. MaxFailedAttempts, l \in NoLock .. LockoutTicks :
              [x EXCEPT !.attempts = a, !.lock = l] \in Row
         /\ \A p \in Nat : [x EXCEPT !.scheme = "bcrypt", !.password = p] \in Row
<1>1. \A y \in Row, a \in 0 .. MaxFailedAttempts : [y EXCEPT !.attempts = a] \in Row
  BY DEF Row
<1>2. \A y \in Row, l \in NoLock .. LockoutTicks : [y EXCEPT !.lock = l] \in Row
  BY DEF Row
<1>3. ASSUME NEW a \in 0 .. MaxFailedAttempts, NEW l \in NoLock .. LockoutTicks
      PROVE  [x EXCEPT !.attempts = a, !.lock = l] \in Row
  <2>1. PICK y \in Row : y = [x EXCEPT !.attempts = a]
    BY <1>1
  <2>2. [x EXCEPT !.attempts = a, !.lock = l] = [y EXCEPT !.lock = l]
    BY <2>1
  <2>3. QED
    BY <1>2, <2>2
<1>4. ASSUME NEW p \in Nat
      PROVE  [x EXCEPT !.scheme = "bcrypt", !.password = p] \in Row
  BY DEF Row
<1>5. QED
  BY <1>1, <1>2, <1>3, <1>4

LEMMA FinishType ==
  ASSUME TypeOK, NEW r \in Requests, Finish(r)
  PROVE  /\ seen' \in [Requests -> Row \cup {Nothing}]
         /\ \A q \in Requests : seen'[q] \in {seen[q], Nothing}
BY DEF TypeOK, Finish

LEMMA TypeStep ==
  ASSUME TypeOK, [Next]_vars
  PROVE  TypeOK'
<1>1. ASSUME NEW r \in Requests, ReadUser(r)
      PROVE  TypeOK'
  BY <1>1 DEF ReadUser, TypeOK
<1>2. ASSUME NEW r \in Requests, RegisterFailure(r)
      PROVE  TypeOK'
  <2>1. PICK attempts \in Nat : attempts = seen[r].attempts + 1
    BY <1>2, SeenRow DEF RegisterFailure
  <2>2. /\ MaxFailedAttempts \in 0 .. MaxFailedAttempts
        /\ LockoutTicks \in NoLock .. LockoutTicks
    OBVIOUS
  <2>3. CASE attempts < MaxFailedAttempts
    <3>1. row' = [row EXCEPT !.attempts = attempts] /\ guesses' = guesses + 1
      BY <1>2, <2>1, <2>3 DEF RegisterFailure
    <3>2. attempts \in 0 .. MaxFailedAttempts
      BY <2>3
    <3>3. row' \in Row
      BY <3>1, <3>2, RowFields DEF TypeOK
    <3>4. guesses' \in Nat
      BY <3>1 DEF TypeOK
    <3>5. QED
      BY <1>2, <3>3, <3>4, FinishType DEF RegisterFailure, TypeOK
  <2>4. CASE attempts >= MaxFailedAttempts
    <3>1. /\ row' = [row EXCEPT !.attempts = MaxFailedAttempts, !.lock = LockoutTicks]
          /\ guesses' = 0
      BY <1>2, <2>1, <2>4 DEF RegisterFailure
    <3>2. row' \in Row /\ guesses' \in Nat
      BY <2>2, <3>1, RowFields DEF TypeOK
    <3>3. QED
      BY <1>2, <3>2, FinishType DEF RegisterFailure, TypeOK
  <2>5. QED
    BY <2>3, <2>4
<1>3. ASSUME NEW r \in Requests, MigrateHash(r)
      PROVE  TypeOK'
  <2>1. row' \in Row
    BY <1>3, SeenRow DEF MigrateHash, Row
  <2>2. QED
    BY <1>3, <2>1, FinishType DEF MigrateHash, TypeOK
<1>4. ASSUME NEW r \in Requests, ResetCounter(r)
      PROVE  TypeOK'
  <2>1. [row EXCEPT !.attempts = 0, !.lock = NoLock] \in Row
    <3>1. 0 \in 0 .. MaxFailedAttempts /\ NoLock \in NoLock .. LockoutTicks
      OBVIOUS
    <3>2. QED
      BY <3>1, RowFields DEF TypeOK
  <2>2. row' \in Row /\ guesses' \in Nat
    BY <1>4, <2>1 DEF ResetCounter, TypeOK
  <2>3. QED
    BY <1>4, <2>2, FinishType DEF ResetCounter, TypeOK
<1>5. ASSUME NEW r \in Requests, Abandon(r)
      PROVE  TypeOK'
  BY <1>5, FinishType DEF Abandon, TypeOK
<1>6. CASE ChangePassword
  <2>1. newest + 1 \in Nat
    BY DEF TypeOK
  <2>2. row' \in Row
    BY <1>6, <2>1, RowFields DEF ChangePassword, TypeOK
  <2>3. QED
    BY <1>6, <2>1, <2>2 DEF ChangePassword, TypeOK
<1>7. CASE ForceChange
  <2>1. newest + 1 \in Nat
    BY DEF TypeOK
  <2>2. row' \in Row
    BY <1>7, <2>1 DEF ForceChange, Row
  <2>3. QED
    BY <1>7, <2>1, <2>2 DEF ForceChange, TypeOK
<1>8. CASE ImportAgain
  <2>1. row' \in Row
    BY <1>8, RowFields DEF ImportAgain, TypeOK
  <2>2. QED
    BY <1>8, <2>1 DEF ImportAgain, TypeOK
<1>9. CASE SeedInspector
  <2>1. row' \in Row
    BY <1>9 DEF SeedInspector, Row
  <2>2. QED
    BY <1>9, <2>1 DEF SeedInspector, TypeOK
<1>10. CASE Tick
  <2>1. row.lock - 1 \in NoLock .. LockoutTicks
    BY <1>10 DEF Tick, Locked, TypeOK, Row
  <2>2. row' \in Row
    BY <1>10, <2>1, RowFields DEF Tick, TypeOK
  <2>3. QED
    BY <1>10, <2>2 DEF Tick, TypeOK
<1>11. CASE UNCHANGED vars
  BY <1>11 DEF vars, TypeOK
<1>12. QED
  BY <1>1, <1>2, <1>3, <1>4, <1>5, <1>6, <1>7, <1>8, <1>9, <1>10, <1>11 DEF Next

\* The row, what the requests read of it and the histories keep their types:
\* the counter stays within what validateCredentials tests, the lock within
\* the minutes it lasts.
THEOREM TypeCorrect == Spec => []TypeOK
<1>1. Init => TypeOK
  BY DEF Init, TypeOK, Row
<1>2. TypeOK /\ [Next]_vars => TypeOK'
  BY TypeStep
<1>3. QED
  BY <1>1, <1>2, PTL DEF Spec

-----------------------------------------------------------------------------
\* A hash of the old scheme is the one imported, in the row while no password
\* was set and in the requests for as long as they are in flight.
ImportedOnly ==
  /\ row.scheme = "legacy" => newest = 0
  /\ \A r \in Requests : InFlight(r) /\ seen[r].scheme = "legacy" => seen[r].password = 0
  /\ OnlyImportedPasswordReturns

LEMMA ImportedStep ==
  ASSUME TypeOK, ImportedOnly, [Next]_vars
  PROVE  ImportedOnly'
<1> USE DEF OnlyImportedPasswordReturns, InFlight
<1>1. row \in Row /\ newest \in Nat /\ row.scheme \in {"legacy", "bcrypt"}
  BY DEF TypeOK, Row
<1>2. row.scheme = "legacy" => row.password = 0
  BY DEF ImportedOnly
<1>3. ASSUME NEW r \in Requests, ReadUser(r)
      PROVE  ImportedOnly'
  <2>1. row' = row /\ newest' = newest /\ \A q \in Requests : seen'[q] \in {seen[q], row}
    BY <1>3 DEF ReadUser, TypeOK
  <2>2. QED
    BY <1>2, <2>1 DEF ImportedOnly
<1>4. ASSUME NEW r \in Requests, Finish(r), newest' = newest, row' \in Row,
             row'.scheme = row.scheme, row'.password = row.password
      PROVE  ImportedOnly'
  BY <1>4, FinishType DEF ImportedOnly
<1>5. ASSUME NEW r \in Requests, RegisterFailure(r) \/ ResetCounter(r) \/ Abandon(r)
      PROVE  ImportedOnly'
  <2>1. row'.scheme = row.scheme /\ row'.password = row.password
    BY <1>1, <1>5 DEF RegisterFailure, ResetCounter, Abandon, Row
  <2>2. row' \in Row
    BY TypeStep DEF TypeOK
  <2>3. QED
    BY <1>4, <1>5, <2>1, <2>2 DEF RegisterFailure, ResetCounter, Abandon
<1>6. ASSUME NEW r \in Requests, MigrateHash(r)
      PROVE  ImportedOnly'
  <2>1. row'.scheme = "bcrypt" /\ row'.password = 0 /\ newest' = newest
    BY <1>6 DEF MigrateHash, ImportedOnly
  <2>2. Finish(r)
    BY <1>6 DEF MigrateHash
  <2>3. QED
    BY <2>1, <2>2, FinishType DEF ImportedOnly
<1>7. CASE ChangePassword
  <2>1. /\ row'.scheme = "bcrypt" /\ row'.password = newest + 1
        /\ newest' = newest + 1 /\ seen' = seen
    BY <1>1, <1>7 DEF ChangePassword, Row
  <2>2. QED
    BY <2>1 DEF ImportedOnly
<1>8. CASE ForceChange
  <2>1. /\ row'.scheme = "bcrypt" /\ row'.password = newest + 1
        /\ newest' = newest + 1 /\ seen' = seen
    BY <1>8 DEF ForceChange
  <2>2. QED
    BY <2>1 DEF ImportedOnly
<1>9. CASE ImportAgain \/ SeedInspector
  <2>1. /\ row'.scheme = "bcrypt" /\ row'.password = 0
        /\ newest' = newest /\ seen' = seen
    <3>1. CASE ImportAgain
      BY <1>1, <3>1 DEF ImportAgain, Row
    <3>2. CASE SeedInspector
      BY <3>2 DEF SeedInspector
    <3>3. QED
      BY <1>9, <3>1, <3>2
  <2>2. QED
    BY <2>1 DEF ImportedOnly
<1>10. CASE Tick
  <2>1. /\ row'.scheme = row.scheme /\ row'.password = row.password
        /\ newest' = newest /\ seen' = seen
    BY <1>1, <1>10 DEF Tick, Row
  <2>2. QED
    BY <2>1 DEF ImportedOnly
<1>11. CASE UNCHANGED vars
  BY <1>11 DEF vars, ImportedOnly
<1>12. QED
  BY <1>3, <1>5, <1>6, <1>7, <1>8, <1>9, <1>10, <1>11 DEF Next

\* No password that was replaced is accepted again, but the imported one: a
\* migration in flight hashes it anew (validateCredentials), the import or the
\* seed writes it again.
THEOREM ImportedReturns == Spec => []OnlyImportedPasswordReturns
<1>1. Init => ImportedOnly
  BY DEF Init, ImportedOnly, OnlyImportedPasswordReturns, InFlight
<1>2. TypeOK /\ ImportedOnly /\ [Next]_vars => ImportedOnly'
  BY ImportedStep
<1>3. ImportedOnly => OnlyImportedPasswordReturns
  BY DEF ImportedOnly
<1>4. QED
  BY <1>1, <1>2, <1>3, TypeCorrect, PTL DEF Spec

-----------------------------------------------------------------------------
(***************************************************************************)
(* The guesses before a lock.  Level j, below MaxFailedAttempts - 1, holds *)
(* the requests that cannot write j + 1 as a new value of the counter: it  *)
(* is above j in the row and in what they read, if they read it yet.       *)
(***************************************************************************)
Highest == MaxFailedAttempts - 1

Above(x, s, j) ==
  {r \in Requests : x.attempts > j /\ (s[r] # Nothing => s[r].attempts > j)}

AttemptLevels(x, s) == [j \in 0 .. Highest - 1 |-> Above(x, s, j)]

GuessesExplained == Bounded(AttemptLevels(row, seen), Highest, guesses)

LEMMA HighestType ==
  Highest \in Nat /\ \A j \in 0 .. Highest - 1 : j + 1 < MaxFailedAttempts
BY DEF Highest

LEMMA AttemptLevelsType ==
  ASSUME NEW x \in Row, NEW s \in [Requests -> Row \cup {Nothing}]
  PROVE  Levels(AttemptLevels(x, s), Highest, Requests)
<1>1. ASSUME NEW i \in 0 .. Highest - 1, NEW j \in 0 .. Highest - 1, i <= j,
             NEW r \in Above(x, s, j)
      PROVE  r \in Above(x, s, i)
  <2>1. i \in Int /\ j \in Int /\ r \in Requests
    BY HighestType DEF Above
  <2>2. x.attempts \in Int
    BY DEF Row
  <2>3. CASE s[r] # Nothing
    <3>1. s[r] \in Row
      BY <2>1, <2>3
    <3>2. s[r].attempts \in Int
      BY <3>1 DEF Row
    <3>3. QED
      BY <1>1, <2>1, <2>2, <3>2, <2>3 DEF Above
  <2>4. CASE s[r] = Nothing
    BY <1>1, <2>1, <2>2, <2>4 DEF Above
  <2>5. QED
    BY <2>3, <2>4
<1>2. \A j \in 0 .. Highest - 1 : Above(x, s, j) \in SUBSET Requests
  BY DEF Above
<1>3. \A j \in 0 .. Highest - 1 : AttemptLevels(x, s)[j] = Above(x, s, j)
  BY DEF AttemptLevels
<1>4. QED
  BY <1>1, <1>2, <1>3 DEF Levels

\* A step that leaves the counter of the row and ends requests, or starts them
\* from the row, leaves the requests of each level in it.
LEMMA QuietAttempts ==
  ASSUME NEW x \in Row, NEW s \in [Requests -> Row \cup {Nothing}],
         NEW y \in Row, NEW t \in [Requests -> Row \cup {Nothing}],
         y.attempts = x.attempts, \A r \in Requests : t[r] \in {s[r], Nothing, x},
         NEW n \in Nat, Bounded(AttemptLevels(x, s), Highest, n)
  PROVE  Bounded(AttemptLevels(y, t), Highest, n)
<1>1. ASSUME NEW j \in 0 .. Highest - 1
      PROVE  AttemptLevels(x, s)[j] \subseteq AttemptLevels(y, t)[j]
  BY DEF AttemptLevels, Above
<1>2. Levels(AttemptLevels(x, s), Highest, Requests) /\ Levels(AttemptLevels(y, t), Highest, Requests)
  BY AttemptLevelsType
<1>3. QED
  BY <1>1, <1>2, Grow, HighestType

\* A failure short of the lock
LEMMA FailureRaises ==
  ASSUME NEW x \in Row, NEW s \in [Requests -> Row \cup {Nothing}],
         NEW y \in Row, NEW t \in [Requests -> Row \cup {Nothing}],
         NEW r \in Requests, s[r] # Nothing, t[r] = Nothing,
         \A q \in Requests : t[q] \in {s[q], Nothing},
         y.attempts = s[r].attempts + 1, y.attempts < MaxFailedAttempts,
         NEW n \in Nat, Bounded(AttemptLevels(x, s), Highest, n)
  PROVE  Bounded(AttemptLevels(y, t), Highest, n + 1)
<1>1. PICK a \in 0 .. Highest - 1 : a = s[r].attempts
  <2>1. s[r] \in Row
    OBVIOUS
  <2>2. s[r].attempts \in 0 .. MaxFailedAttempts
    BY <2>1 DEF Row
  <2>3. s[r].attempts \in 0 .. Highest - 1
    BY <2>2 DEF Highest
  <2>4. QED
    BY <2>3
<1>2. ASSUME NEW j \in 0 .. a
      PROVE  AttemptLevels(x, s)[j] \subseteq AttemptLevels(y, t)[j]
  <2>1. j \in 0 .. Highest - 1 /\ y.attempts > j
    BY <1>1, HighestType
  <2>2. QED
    BY <2>1 DEF AttemptLevels, Above
<1>3. r \notin AttemptLevels(x, s)[a]
  <2>1. ~ (s[r].attempts > a)
    BY <1>1
  <2>2. QED
    BY <2>1 DEF AttemptLevels, Above
<1>4. r \in AttemptLevels(y, t)[a]
  <2>1. y.attempts > a
    BY <1>1
  <2>2. QED
    BY <2>1 DEF AttemptLevels, Above
<1>5. Levels(AttemptLevels(x, s), Highest, Requests) /\ Levels(AttemptLevels(y, t), Highest, Requests)
  BY AttemptLevelsType
<1>6. QED
  BY <1>2, <1>3, <1>4, <1>5, Raise, HighestType

LEMMA GuessesStep ==
  ASSUME TypeOK, GuessesExplained, [Next]_vars
  PROVE  GuessesExplained'
<1>1. TypeOK'
  BY TypeStep
<1>2. PICK x \in Row, s \in [Requests -> Row \cup {Nothing}], n \in Nat :
        x = row /\ s = seen /\ n = guesses
  BY DEF TypeOK
<1>3. PICK y \in Row, t \in [Requests -> Row \cup {Nothing}], m \in Nat :
        y = row' /\ t = seen' /\ m = guesses'
  BY <1>1 DEF TypeOK
<1>4. Bounded(AttemptLevels(x, s), Highest, n)
  BY <1>2 DEF GuessesExplained
<1>5. SUFFICES Bounded(AttemptLevels(y, t), Highest, m)
  BY <1>3 DEF GuessesExplained
<1>6. CASE m = 0
  BY <1>6, AttemptLevelsType, NoneYet, HighestType
<1>7. ASSUME y.attempts = x.attempts, \A r \in Requests : t[r] \in {s[r], Nothing, x}, m = n
      PROVE  Bounded(AttemptLevels(y, t), Highest, m)
  BY <1>4, <1>7, QuietAttempts
<1>8. ASSUME NEW r \in Requests, ReadUser(r)
      PROVE  Bounded(AttemptLevels(y, t), Highest, m)
  <2>1. y = x /\ m = n /\ t = [s EXCEPT ![r] = x]
    BY <1>2, <1>3, <1>8 DEF ReadUser
  <2>2. \A q \in Requests : t[q] \in {s[q], Nothing, x}
    BY <2>1
  <2>3. QED
    BY <1>7, <2>1, <2>2
<1>9. ASSUME NEW r \in Requests, RegisterFailure(r)
      PROVE  Bounded(AttemptLevels(y, t), Highest, m)
  <2>1. s[r] # Nothing /\ t = [s EXCEPT ![r] = Nothing]
    BY <1>2, <1>3, <1>9 DEF RegisterFailure, InFlight, Finish
  <2>2. CASE m # 0
    <3>1. /\ y = [x EXCEPT !.attempts = s[r].attempts + 1]
          /\ s[r].attempts + 1 < MaxFailedAttempts
          /\ m = n + 1
      BY <1>2, <1>3, <1>9, <2>2 DEF RegisterFailure
    <3>2. y.attempts = s[r].attempts + 1
      BY <3>1 DEF Row
    <3>3. t[r] = Nothing /\ \A q \in Requests : t[q] \in {s[q], Nothing}
      BY <2>1
    <3>4. y.attempts < MaxFailedAttempts
      BY <3>1, <3>2
    <3>5. QED
      BY <1>4, <2>1, <3>1, <3>2, <3>3, <3>4, FailureRaises
  <2>3. QED
    BY <1>6, <2>2
<1>10. ASSUME NEW r \in Requests, Finish(r), row' = row, guesses' = guesses
       PROVE  Bounded(AttemptLevels(y, t), Highest, m)
  <2>1. t = [s EXCEPT ![r] = Nothing] /\ y = x /\ m = n
    BY <1>2, <1>3, <1>10 DEF Finish
  <2>2. \A q \in Requests : t[q] \in {s[q], Nothing, x}
    BY <2>1
  <2>3. QED
    BY <1>7, <2>1, <2>2
<1>11. ASSUME NEW r \in Requests, ResetCounter(r) \/ Abandon(r) \/ MigrateHash(r)
       PROVE  Bounded(AttemptLevels(y, t), Highest, m)
  <2>1. guesses' = 0 \/ (Finish(r) /\ row' = row /\ guesses' = guesses)
    BY <1>11 DEF ResetCounter, Abandon, MigrateHash
  <2>2. QED
    BY <1>3, <1>6, <1>10, <2>1
<1>12. ASSUME row'.attempts = row.attempts, seen' = seen, guesses' = guesses
       PROVE  Bounded(AttemptLevels(y, t), Highest, m)
  BY <1>2, <1>3, <1>7, <1>12
<1>13. CASE ChangePassword \/ ImportAgain \/ Tick
  <2>1. row'.attempts = row.attempts /\ seen' = seen /\ guesses' = guesses
    BY <1>13 DEF ChangePassword, ImportAgain, Tick, TypeOK, Row
  <2>2. QED
    BY <1>12, <2>1
<1>14. CASE ForceChange \/ SeedInspector
  <2>1. guesses' = 0
    BY <1>14 DEF ForceChange, SeedInspector
  <2>2. QED
    BY <1>3, <1>6, <2>1
<1>15. CASE UNCHANGED vars
  BY <1>12, <1>15 DEF vars
<1>16. QED
  BY <1>8, <1>9, <1>11, <1>13, <1>14, <1>15 DEF Next

\* However many requests overlap and however late each writes its failure
\* (validateCredentials, failedLoginAttempts), the guesses before a lock are
\* fewer than the multisets of as many values below MaxFailedAttempts.
THEOREM Guesses == Spec => []GuessesBounded
<1>1. Init => GuessesExplained
  <2> SUFFICES ASSUME Init PROVE GuessesExplained
    OBVIOUS
  <2>1. row \in Row /\ seen \in [Requests -> Row \cup {Nothing}] /\ guesses = 0
    BY DEF Init, Row
  <2>2. QED
    BY <2>1, AttemptLevelsType, NoneYet, HighestType DEF GuessesExplained
<1>2. TypeOK /\ GuessesExplained /\ [Next]_vars => GuessesExplained'
  BY GuessesStep
<1>3. TypeOK /\ GuessesExplained => GuessesBounded
  <2> SUFFICES ASSUME TypeOK, GuessesExplained PROVE GuessesBounded
    OBVIOUS
  <2>1. row \in Row /\ seen \in [Requests -> Row \cup {Nothing}] /\ guesses \in Nat
    BY DEF TypeOK
  <2>2. Levels(AttemptLevels(row, seen), Highest, Requests)
    BY <2>1, AttemptLevelsType
  <2>3. PICK k \in Nat : k = Cardinality(Requests)
    BY FS_CardinalityType
  <2>4. guesses < choose(k + Highest, k)
    BY <2>1, <2>2, <2>3, Limit, HighestType DEF GuessesExplained
  <2>5. k + Highest = MaxFailedAttempts + k - 1
    BY DEF Highest
  <2>6. QED
    BY <2>3, <2>4, <2>5 DEF GuessesBounded, MaxGuesses
<1>4. QED
  BY <1>1, <1>2, <1>3, TypeCorrect, PTL DEF Spec
=============================================================================
