---------------------------- MODULE FactorsProofs ----------------------------
(***************************************************************************)
(* Proofs about the six parts of MCFactors, for every number of keys,      *)
(* calls, services, requests, clients, accounts and runs: Passkeys, Totp,  *)
(* Claims, the two registers that services and applications are known by,  *)
(* ApiKeys and Clients, and the script that replaces the passwords of a    *)
(* list, ForcedChange.                                                     *)
(***************************************************************************)
EXTENDS MCFactors, StaleWrites

USE PasskeyAssumption, TotpAssumption

-----------------------------------------------------------------------------
(* Passkeys.  A challenge is in one place only: in the map, in one request, *)
(* or among those that opened a session.                                    *)

InFlight(h) == handler[h].step \in {"taken", "found", "verified", "counted"}

PendingFresh ==
  \A n \in Names : pending[n] # NoChallenge =>
    /\ pending[n] <= challenges /\ pending[n] \notin opened
    /\ \A m \in Names \ {n} : pending[m] # pending[n]

ExpectedFresh ==
  \A h \in Handlers : InFlight(h) =>
    /\ handler[h].expected # NoChallenge
    /\ handler[h].expected <= challenges
    /\ handler[h].expected \notin opened
    /\ \A n \in Names : pending[n] # handler[h].expected
    /\ \A g \in Handlers \ {h} : InFlight(g) => handler[g].expected # handler[h].expected

OpenedGiven == \A c \in opened : c <= challenges

AnswersExpected ==
  \A h \in Handlers : Verified(h) => handler[h].challenge = handler[h].expected

ChallengeInv == PendingFresh /\ ExpectedFresh /\ OpenedGiven /\ AnswersExpected

\* A key without a row has signed nothing and proved nothing.
UnstoredUnsigned ==
  \A k \in Keys : credential[k].state = "none" => signed[k] = 0 /\ accepted[k] = 0

VerifiedForward ==
  \A h \in Handlers : handler[h].step = "verified" =>
    \/ handler[h].counter > handler[h].read
    \/ handler[h].counter = 0 /\ handler[h].read = 0

\* The counter property, of the deleted keys too
HighestEver ==
  \A k \in Keys : credential[k].state # "none" /\ k \notin ahead =>
    credential[k].counter = accepted[k]

CounterInv == UnstoredUnsigned /\ VerifiedForward /\ HighestEver

\* What a request counted is among what was accepted; if its key is deleted by
\* then, it is one of those admitted, and only they open a session late.
CountedAccepted ==
  \A h \in Handlers : handler[h].step = "counted" =>
    handler[h].counter <= accepted[handler[h].key]

AdmittedAccepted == \A a \in admitted : Deleted(a.key) /\ a.counter <= accepted[a.key]

CountedAdmitted ==
  \A h \in Handlers : handler[h].step = "counted" /\ Deleted(handler[h].key) =>
    AssertionOf(h) \in admitted

LateInv == CountedAccepted /\ AdmittedAccepted /\ CountedAdmitted /\ late \subseteq admitted

PasskeyInv == PasskeyTypeOK /\ ChallengeInv /\ CounterInv /\ LateInv

LEMMA PasskeyInitial == PasskeyInit => PasskeyInv
<1> SUFFICES ASSUME PasskeyInit PROVE PasskeyInv
  OBVIOUS
<1>1. Free \in Handler /\ Free.step = "idle"
  BY DEF Free, Handler, Step, NoChallenge
<1>2. PasskeyTypeOK
  BY <1>1 DEF PasskeyInit, PasskeyTypeOK, Credential, NoChallenge
<1>3. ChallengeInv
  BY <1>1 DEF PasskeyInit, ChallengeInv, PendingFresh, ExpectedFresh, OpenedGiven,
    AnswersExpected, InFlight, Verified
<1>4. CounterInv
  BY <1>1 DEF PasskeyInit, CounterInv, UnstoredUnsigned, VerifiedForward, HighestEver
<1>5. LateInv
  BY <1>1 DEF PasskeyInit, LateInv, CountedAccepted, AdmittedAccepted, CountedAdmitted
<1>6. QED
  BY <1>2, <1>3, <1>4, <1>5 DEF PasskeyInv

\* One request moves: it keeps the challenge it expects or takes one out of the
\* map, and opens a session with it only when it ends.
LEMMA ChallengeStep ==
  ASSUME PasskeyTypeOK, ChallengeInv, NEW h \in Handlers, NEW q \in Handler,
         handler' = [handler EXCEPT ![h] = q], challenges' = challenges,
         \A n \in Names : pending'[n] \in {NoChallenge, pending[n]},
         \/ opened' = opened
         \/ /\ opened' = opened \cup {handler[h].challenge}
            /\ Verified(h) /\ q.step = "idle",
         q.step \in {"taken", "found", "verified", "counted"} =>
           \/ InFlight(h) /\ q.expected = handler[h].expected
           \/ \E n \in Names : /\ pending[n] # NoChallenge /\ q.expected = pending[n]
                               /\ pending'[n] = NoChallenge,
         q.step \in {"verified", "counted"} => q.challenge = q.expected
  PROVE  ChallengeInv'
<1> USE DEF NoChallenge
<1>1. /\ handler'[h] = q /\ \A g \in Handlers \ {h} : handler'[g] = handler[g]
      /\ \A n \in Names : pending[n] \in Nat
      /\ challenges \in Nat /\ opened \subseteq Nat
      /\ \A g \in Handlers : handler[g] \in Handler
  BY DEF PasskeyTypeOK
<1>2. \A c \in opened' : c \in opened \/ (Verified(h) /\ c = handler[h].expected /\ ~InFlight(h)')
  BY <1>1 DEF ChallengeInv, AnswersExpected, InFlight
<1>3. PendingFresh'
  BY <1>1, <1>2 DEF ChallengeInv, PendingFresh, ExpectedFresh, InFlight, Verified
<1>4. OpenedGiven'
  BY <1>1, <1>2 DEF ChallengeInv, OpenedGiven, ExpectedFresh, InFlight, Verified
<1>5. AnswersExpected'
  BY <1>1 DEF ChallengeInv, AnswersExpected, Verified
<1>6. \A g \in Handlers \ {h} : InFlight(g)' <=> InFlight(g)
  BY <1>1 DEF InFlight
<1>7. ASSUME NEW g \in Handlers, g # h, InFlight(g)
      PROVE  /\ handler[g].expected \notin opened'
             /\ \A n \in Names : pending'[n] # handler[g].expected
             /\ InFlight(h)' => handler[g].expected # q.expected
  BY <1>1, <1>2, <1>7 DEF ChallengeInv, ExpectedFresh, InFlight, Verified
<1>8. ASSUME InFlight(h)'
      PROVE  /\ q.expected # NoChallenge /\ q.expected <= challenges
             /\ q.expected \notin opened'
             /\ \A n \in Names : pending'[n] # q.expected
  <2>1. q.step \in {"taken", "found", "verified", "counted"}
    BY <1>1, <1>8 DEF InFlight
  <2>2. opened' = opened
    BY <2>1
  <2>3. QED
    BY <1>1, <2>1, <2>2 DEF ChallengeInv, ExpectedFresh, PendingFresh
<1>9. ExpectedFresh'
  BY <1>1, <1>6, <1>7, <1>8 DEF ChallengeInv, ExpectedFresh
<1>10. QED
  BY <1>3, <1>4, <1>5, <1>9 DEF ChallengeInv

\* Challenges of the map run out.
LEMMA ForgetStep ==
  ASSUME PasskeyTypeOK, ChallengeInv, UNCHANGED <<handler, challenges, opened>>,
         \A n \in Names : pending'[n] \in {NoChallenge, pending[n]}
  PROVE  ChallengeInv'
<1>1. PendingFresh'
  BY DEF ChallengeInv, PendingFresh
<1>2. ExpectedFresh'
  BY DEF ChallengeInv, ExpectedFresh, InFlight
<1>3. OpenedGiven' /\ AnswersExpected'
  BY DEF ChallengeInv, OpenedGiven, AnswersExpected, Verified
<1>4. QED
  BY <1>1, <1>2, <1>3 DEF ChallengeInv

LEMMA NewChallengeStep ==
  ASSUME PasskeyTypeOK, ChallengeInv, NEW n \in Names, AuthenticationOptions(n)
  PROVE  ChallengeInv'
<1>1. PICK c \in Nat : c = challenges + 1
  BY DEF PasskeyTypeOK
<1>2. /\ pending' = [pending EXCEPT ![n] = c] /\ challenges' = c
      /\ UNCHANGED <<handler, opened>>
      /\ \A d \in Nat : d <= challenges => d <= c /\ d # c
      /\ c # NoChallenge /\ c <= c /\ opened \subseteq Nat
  BY <1>1 DEF AuthenticationOptions, histories, PasskeyTypeOK, NoChallenge
<1>3. /\ pending \in [Names -> Nat] /\ pending'[n] = c
      /\ \A m \in Names \ {n} : pending'[m] = pending[m]
      /\ \A g \in Handlers : handler[g].expected \in Nat
  BY <1>2 DEF PasskeyTypeOK, Handler
<1>4. c \notin opened
  BY <1>2 DEF ChallengeInv, OpenedGiven
<1>5. PendingFresh'
  <2>1. \A m \in Names \ {n} : pending[m] # NoChallenge => pending[m] <= c /\ pending[m] # c
    BY <1>2, <1>3 DEF ChallengeInv, PendingFresh
  <2>2. QED
    BY <1>2, <1>3, <1>4, <2>1 DEF ChallengeInv, PendingFresh
<1>6. ExpectedFresh'
  <2>1. ASSUME NEW g \in Handlers, InFlight(g)
        PROVE  handler[g].expected <= c /\ handler[g].expected # c
    BY <1>2, <1>3, <2>1 DEF ChallengeInv, ExpectedFresh
  <2>2. QED
    BY <1>2, <1>3, <2>1 DEF ChallengeInv, ExpectedFresh, InFlight
<1>7. OpenedGiven' /\ AnswersExpected'
  BY <1>2 DEF ChallengeInv, OpenedGiven, AnswersExpected, Verified
<1>8. QED
  BY <1>5, <1>6, <1>7 DEF ChallengeInv

\* Rows, counters and signatures stay; a request is verified only forward.
LEMMA CounterStep ==
  ASSUME PasskeyTypeOK, CounterInv, UNCHANGED <<credential, signed, accepted, ahead>>,
         \A h \in Handlers : handler'[h].step = "verified" =>
           \/ handler'[h] = handler[h]
           \/ handler'[h].counter > handler'[h].read
           \/ handler'[h].counter = 0 /\ handler'[h].read = 0
  PROVE  CounterInv'
<1>1. UnstoredUnsigned' /\ HighestEver'
  BY DEF CounterInv, UnstoredUnsigned, HighestEver
<1>2. VerifiedForward'
  BY DEF CounterInv, VerifiedForward
<1>3. QED
  BY <1>1, <1>2 DEF CounterInv

\* No key is deleted, nothing is counted and no session is opened.
LEMMA LateStep ==
  ASSUME LateInv, UNCHANGED <<credential, accepted, admitted, late>>,
         \A h \in Handlers : handler'[h].step = "counted" => handler'[h] = handler[h]
  PROVE  LateInv'
<1>1. CountedAccepted'
  BY DEF LateInv, CountedAccepted
<1>2. AdmittedAccepted'
  BY DEF LateInv, AdmittedAccepted, Deleted
<1>3. CountedAdmitted'
  BY DEF LateInv, CountedAdmitted, Deleted, AssertionOf
<1>4. QED
  BY <1>1, <1>2, <1>3 DEF LateInv

\* A request with its step changed, and a row with its counter or state changed
Stepped(r, step) == [r EXCEPT !.step = step]
Found(r, read) == [r EXCEPT !.step = "found", !.read = read]
Counted(c, counter) == [c EXCEPT !.counter = counter]

LEMMA SteppedFields ==
  ASSUME NEW r \in Handler, NEW step \in Step
  PROVE  /\ Stepped(r, step) \in Handler /\ Stepped(r, step).step = step
         /\ Stepped(r, step).key = r.key /\ Stepped(r, step).challenge = r.challenge
         /\ Stepped(r, step).counter = r.counter /\ Stepped(r, step).read = r.read
         /\ Stepped(r, step).expected = r.expected
BY DEF Stepped, Handler

LEMMA FoundFields ==
  ASSUME NEW r \in Handler, NEW read \in Nat
  PROVE  /\ Found(r, read) \in Handler /\ Found(r, read).step = "found"
         /\ Found(r, read).expected = r.expected
BY DEF Found, Handler, Step

LEMMA TakingFields ==
  ASSUME NEW a \in Assertion, NEW c \in Nat
  PROVE  /\ Taking(a, c) \in Handler /\ Taking(a, c).step = "taken"
         /\ Taking(a, c).expected = c
BY DEF Taking, Assertion, Handler, Step

LEMMA CountedFields ==
  ASSUME NEW c \in Credential, NEW counter \in Nat
  PROVE  /\ Counted(c, counter) \in Credential /\ Counted(c, counter).counter = counter
         /\ Counted(c, counter).state = c.state
BY DEF Counted, Credential

LEMMA FreeFields == Free \in Handler /\ Free.step = "idle"
BY DEF Free, Handler, Step, NoChallenge

LEMMA BeginFields ==
  ASSUME NEW k \in Keys, NEW step \in {"attested", "deleting"}
  PROVE  /\ [Free EXCEPT !.step = step, !.key = k] \in Handler
         /\ [Free EXCEPT !.step = step, !.key = k].step = step
BY DEF Free, Handler, Step, NoChallenge

\* A request moves and writes no row, no counter and no challenge.
LEMMA MoveStep ==
  ASSUME PasskeyInv, NEW h \in Handlers, NEW q \in Handler,
         handler' = [handler EXCEPT ![h] = q], enrolling' \subseteq Keys,
         UNCHANGED <<pending, credential, signed, assertions, challenges, restarts,
                     accepted, opened, ahead, admitted, late>>,
         q.step \notin {"taken", "found", "verified", "counted"}
  PROVE  PasskeyInv'
<1>1. PasskeyTypeOK /\ ChallengeInv /\ CounterInv /\ LateInv
  BY DEF PasskeyInv
<1>2. PasskeyTypeOK'
  BY <1>1 DEF PasskeyTypeOK
<1>3. ChallengeInv'
  BY <1>1, ChallengeStep
<1>4. handler'[h] = q /\ \A g \in Handlers \ {h} : handler'[g] = handler[g]
  BY <1>1 DEF PasskeyTypeOK
<1>5. CounterInv' /\ LateInv'
  BY <1>1, <1>4, CounterStep, LateStep
<1>6. QED
  BY <1>2, <1>3, <1>5 DEF PasskeyInv

LEMMA TakeStep ==
  ASSUME PasskeyInv, NEW h \in Handlers, NEW n \in Names, NEW a \in assertions,
         TakeChallenge(h, n, a)
  PROVE  PasskeyInv'
<1>1. PasskeyTypeOK /\ ChallengeInv /\ CounterInv /\ LateInv
  BY DEF PasskeyInv
<1>2. /\ pending[n] # NoChallenge /\ pending \in [Names -> Nat] /\ a \in Assertion
      /\ pending' = [pending EXCEPT ![n] = NoChallenge]
      /\ UNCHANGED <<enrolling, credential, signed, assertions, challenges, restarts,
                     accepted, opened, ahead, admitted, late>>
  BY <1>1 DEF TakeChallenge, PasskeyTypeOK, browser, histories, deletions
<1>3. /\ pending' \in [Names -> Nat] /\ pending'[n] = NoChallenge
      /\ \A m \in Names : pending'[m] \in {NoChallenge, pending[m]}
  BY <1>2 DEF NoChallenge
<1>4. PICK q \in Handler : q = Taking(a, pending[n])
  BY <1>2, TakingFields
<1>5. q.step = "taken" /\ q.expected = pending[n]
  BY <1>2, <1>4, TakingFields
<1>6. handler' = [handler EXCEPT ![h] = q]
  BY <1>4 DEF TakeChallenge, Begins
<1>7. PasskeyTypeOK'
  BY <1>1, <1>2, <1>3, <1>6 DEF PasskeyTypeOK
<1>8. ChallengeInv'
  BY <1>1, <1>2, <1>3, <1>5, <1>6, ChallengeStep
<1>9. handler'[h] = q /\ \A g \in Handlers \ {h} : handler'[g] = handler[g]
  BY <1>1, <1>6 DEF PasskeyTypeOK
<1>10. CounterInv' /\ LateInv'
  BY <1>1, <1>2, <1>5, <1>9, CounterStep, LateStep
<1>11. QED
  BY <1>7, <1>8, <1>10 DEF PasskeyInv

LEMMA FindStep ==
  ASSUME PasskeyInv, NEW h \in Handlers, FindCredential(h)
  PROVE  PasskeyInv'
<1>1. PasskeyTypeOK /\ ChallengeInv /\ CounterInv /\ LateInv
  BY DEF PasskeyInv
<1>2. handler[h] \in Handler
  BY <1>1 DEF PasskeyTypeOK
<1>3. PICK read \in Nat : read = credential[handler[h].key].counter
  BY <1>1, <1>2 DEF PasskeyTypeOK, Handler, Credential
<1>4. PICK q \in Handler : q = Found(handler[h], read)
  BY <1>2, FoundFields
<1>5. q.step = "found" /\ q.expected = handler[h].expected
  BY <1>2, <1>4, FoundFields
<1>6. /\ handler' = [handler EXCEPT ![h] = q] /\ handler[h].step = "taken"
      /\ UNCHANGED <<pending, enrolling, credential, signed, assertions, challenges, restarts,
                     accepted, opened, ahead, admitted, late>>
  BY <1>3, <1>4 DEF FindCredential, Found, browser, histories, deletions
<1>7. PasskeyTypeOK'
  BY <1>1, <1>6 DEF PasskeyTypeOK
<1>8. InFlight(h)
  BY <1>6 DEF InFlight
<1>9. ChallengeInv'
  BY <1>1, <1>5, <1>6, <1>8, ChallengeStep
<1>10. handler'[h] = q /\ \A g \in Handlers \ {h} : handler'[g] = handler[g]
  BY <1>1, <1>6 DEF PasskeyTypeOK
<1>11. CounterInv' /\ LateInv'
  BY <1>1, <1>5, <1>6, <1>10, CounterStep, LateStep
<1>12. QED
  BY <1>7, <1>9, <1>11 DEF PasskeyInv

LEMMA VerifyStep ==
  ASSUME PasskeyInv, NEW h \in Handlers, Verify(h)
  PROVE  PasskeyInv'
<1>1. PasskeyTypeOK /\ ChallengeInv /\ CounterInv /\ LateInv
  BY DEF PasskeyInv
<1>2. handler[h] \in Handler /\ "verified" \in Step
  BY <1>1 DEF PasskeyTypeOK, Step
<1>3. PICK q \in Handler : q = Stepped(handler[h], "verified")
  BY <1>2, SteppedFields
<1>4. /\ q.step = "verified" /\ q.challenge = handler[h].challenge
      /\ q.counter = handler[h].counter /\ q.read = handler[h].read
      /\ q.expected = handler[h].expected
  BY <1>2, <1>3, SteppedFields
<1>5. /\ handler' = [handler EXCEPT ![h] = q]
      /\ UNCHANGED <<pending, enrolling, credential, signed, assertions, challenges, restarts,
                     accepted, opened, ahead, admitted, late>>
      /\ handler[h].step = "found" /\ q.challenge = q.expected
      /\ q.counter > q.read \/ (q.counter = 0 /\ q.read = 0)
  BY <1>3, <1>4 DEF Verify, Goes, Stepped, browser, histories, deletions
<1>6. PasskeyTypeOK'
  BY <1>1, <1>5 DEF PasskeyTypeOK
<1>7. InFlight(h)
  BY <1>5 DEF InFlight
<1>8. ChallengeInv'
  BY <1>1, <1>4, <1>5, <1>7, ChallengeStep
<1>9. handler'[h] = q /\ \A g \in Handlers \ {h} : handler'[g] = handler[g]
  BY <1>1, <1>5 DEF PasskeyTypeOK
<1>10. CounterInv' /\ LateInv'
  BY <1>1, <1>4, <1>5, <1>9, CounterStep, LateStep
<1>11. QED
  BY <1>6, <1>8, <1>10 DEF PasskeyInv

LEMMA CountStep ==
  ASSUME PasskeyInv, NEW h \in Handlers, UpdateCounter(h)
  PROVE  PasskeyInv'
<1>1. PasskeyTypeOK /\ ChallengeInv /\ CounterInv /\ LateInv
  BY DEF PasskeyInv
<1>2. handler[h] \in Handler /\ "counted" \in Step
  BY <1>1 DEF PasskeyTypeOK, Step
<1>3. PICK q \in Handler : q = Stepped(handler[h], "counted")
  BY <1>2, SteppedFields
<1>4. /\ q.step = "counted" /\ q.challenge = handler[h].challenge
      /\ q.expected = handler[h].expected
      /\ q.key = handler[h].key /\ q.counter = handler[h].counter
  BY <1>2, <1>3, SteppedFields
<1>5. PICK k \in Keys, c \in Nat : k = handler[h].key /\ c = handler[h].counter
  BY <1>2 DEF Handler
<1>6. PICK r \in Nat : r = handler[h].read
  BY <1>2 DEF Handler
<1>7. credential \in [Keys -> Credential] /\ accepted \in [Keys -> Nat] /\ credential[k] \in Credential
  BY <1>1 DEF PasskeyTypeOK
<1>8. PICK row \in Credential : row = Counted(credential[k], c)
  BY <1>7, CountedFields
<1>9. row.counter = c /\ row.state = credential[k].state
  BY <1>7, <1>8, CountedFields
<1>10. PICK high \in Nat : high = IF c > accepted[k] THEN c ELSE accepted[k]
  BY <1>7
<1>11. /\ handler' = [handler EXCEPT ![h] = q] /\ handler[h].step = "verified" /\ Stored(k)
       /\ credential' = [credential EXCEPT ![k] = row]
       /\ accepted' = [accepted EXCEPT ![k] = high]
       /\ ahead' = IF c >= accepted[k] THEN ahead \ {k}
                   ELSE IF credential[k].counter # r THEN ahead \cup {k} ELSE ahead
       /\ UNCHANGED <<pending, enrolling, signed, assertions, challenges, restarts, opened,
                      admitted, late>>
  BY <1>3, <1>5, <1>6, <1>8, <1>10 DEF UpdateCounter, Goes, Stepped, Counted, browser,
    deletions
<1>12. PasskeyTypeOK'
  BY <1>1, <1>7, <1>11 DEF PasskeyTypeOK
<1>13. InFlight(h) /\ Verified(h)
  BY <1>11 DEF InFlight, Verified
<1>14. q.challenge = q.expected
  BY <1>1, <1>4, <1>13 DEF ChallengeInv, AnswersExpected
<1>15. /\ pending \in [Names -> Nat]
       /\ \A n \in Names : pending'[n] \in {NoChallenge, pending[n]}
  BY <1>1, <1>11 DEF PasskeyTypeOK
<1>16. ChallengeInv'
  BY <1>1, <1>4, <1>11, <1>13, <1>14, <1>15, ChallengeStep
<1>17. /\ credential'[k] = row /\ accepted'[k] = high
       /\ \A j \in Keys \ {k} : credential'[j] = credential[j] /\ accepted'[j] = accepted[j]
       /\ \A j \in Keys \ {k} : j \in ahead' <=> j \in ahead
       /\ handler'[h] = q /\ \A g \in Handlers \ {h} : handler'[g] = handler[g]
  BY <1>1, <1>7, <1>11 DEF PasskeyTypeOK
<1>18. UnstoredUnsigned'
  <2>1. row.state # "none"
    BY <1>9, <1>11 DEF Stored
  <2>2. QED
    BY <1>1, <1>11, <1>17, <2>1 DEF CounterInv, UnstoredUnsigned
<1>19. VerifiedForward'
  BY <1>1, <1>4, <1>17 DEF CounterInv, VerifiedForward
<1>20. HighestEver'
  <2>1. c > r \/ (c = 0 /\ r = 0)
    BY <1>1, <1>5, <1>6, <1>11 DEF CounterInv, VerifiedForward
  <2>2. ASSUME k \notin ahead'
        PROVE  c = high
    <3>1. CASE c >= accepted[k]
      BY <1>7, <1>10, <3>1
    <3>2. CASE ~(c >= accepted[k])
      <4>1. credential[k].counter = r /\ k \notin ahead
        BY <1>11, <2>2, <3>2
      <4>2. accepted[k] = r
        BY <1>1, <1>11, <4>1 DEF CounterInv, HighestEver, Stored
      <4>3. QED
        BY <2>1, <3>2, <4>2
    <3>3. QED
      BY <3>1, <3>2
  <2>3. ASSUME NEW j \in Keys \ {k}, credential'[j].state # "none", j \notin ahead'
        PROVE  credential'[j].counter = accepted'[j]
    BY <1>1, <1>17, <2>3 DEF CounterInv, HighestEver
  <2>4. QED
    BY <1>9, <1>17, <2>2, <2>3 DEF HighestEver
<1>21. /\ c <= high /\ \A j \in Keys : accepted[j] \in Nat /\ accepted[j] <= accepted'[j]
       /\ \A j \in Keys : Deleted(j)' <=> Deleted(j)
       /\ ~Deleted(k)
  BY <1>7, <1>9, <1>10, <1>11, <1>17 DEF Stored, Deleted
<1>22. \A g \in Handlers : handler[g].key \in Keys /\ handler[g].counter \in Nat
  BY <1>1 DEF PasskeyTypeOK, Handler
<1>23. CountedAccepted'
  <2>1. ASSUME NEW g \in Handlers \ {h}, handler[g].step = "counted"
        PROVE  handler[g].counter <= accepted'[handler[g].key]
    <3>1. PICK j \in Keys : j = handler[g].key
      BY <1>22
    <3>2. handler[g].counter <= accepted[j] /\ accepted[j] <= accepted'[j] /\ accepted'[j] \in Nat
      BY <1>1, <1>12, <1>21, <2>1, <3>1 DEF LateInv, CountedAccepted, PasskeyTypeOK
    <3>3. QED
      BY <1>21, <1>22, <3>1, <3>2
  <2>2. QED
    BY <1>4, <1>5, <1>17, <1>21, <2>1 DEF CountedAccepted
<1>24. AdmittedAccepted'
  <2>1. ASSUME NEW a \in admitted
        PROVE  Deleted(a.key)' /\ a.counter <= accepted'[a.key]
    <3>1. a.key \in Keys /\ a.counter \in Nat
      BY <1>1 DEF PasskeyTypeOK, Assertion
    <3>2. Deleted(a.key) /\ a.counter <= accepted[a.key] /\ accepted'[a.key] \in Nat
      BY <1>1, <1>12, <3>1 DEF LateInv, AdmittedAccepted, PasskeyTypeOK
    <3>3. QED
      BY <1>21, <3>1, <3>2 DEF Deleted
  <2>2. QED
    BY <1>11, <2>1 DEF AdmittedAccepted
<1>25. CountedAdmitted'
  BY <1>1, <1>4, <1>5, <1>11, <1>17, <1>21, <1>22
     DEF LateInv, CountedAdmitted, AssertionOf, Deleted
<1>26. QED
  BY <1>1, <1>11, <1>12, <1>16, <1>18, <1>19, <1>20, <1>23, <1>24, <1>25
     DEF PasskeyInv, CounterInv, LateInv

LEMMA OpenStep ==
  ASSUME PasskeyInv, NEW h \in Handlers, OpenSession(h)
  PROVE  PasskeyInv'
<1>1. PasskeyTypeOK /\ ChallengeInv /\ CounterInv /\ LateInv
  BY DEF PasskeyInv
<1>2. handler[h] \in Handler /\ Free \in Handler /\ Free.step = "idle"
  BY <1>1, FreeFields DEF PasskeyTypeOK, Handler
<1>3. /\ handler' = [handler EXCEPT ![h] = Free] /\ handler[h].step = "counted"
      /\ opened' = opened \cup {handler[h].challenge} /\ handler[h].challenge \in Nat
      /\ UNCHANGED <<pending, enrolling, credential, signed, assertions, challenges, restarts,
                     accepted, ahead, admitted>>
      /\ late' = late \/ (Deleted(handler[h].key) /\ late' = late \cup {AssertionOf(h)})
  BY <1>2 DEF OpenSession, Ends, browser, Handler
<1>4. late' \subseteq admitted
  BY <1>1, <1>3 DEF LateInv, CountedAdmitted
<1>5. PasskeyTypeOK'
  BY <1>1, <1>2, <1>3, <1>4 DEF PasskeyTypeOK
<1>6. Verified(h) /\ pending \in [Names -> Nat]
  BY <1>1, <1>3 DEF Verified, PasskeyTypeOK
<1>7. ChallengeInv'
  BY <1>1, <1>2, <1>3, <1>6, ChallengeStep
<1>8. handler'[h] = Free /\ \A g \in Handlers \ {h} : handler'[g] = handler[g]
  BY <1>1, <1>3 DEF PasskeyTypeOK
<1>9. CounterInv'
  BY <1>1, <1>2, <1>3, <1>8, CounterStep
<1>10. CountedAccepted' /\ AdmittedAccepted' /\ CountedAdmitted'
  BY <1>1, <1>2, <1>3, <1>8 DEF LateInv, CountedAccepted, AdmittedAccepted, CountedAdmitted,
    AssertionOf, Deleted
<1>11. QED
  BY <1>3, <1>4, <1>5, <1>7, <1>9, <1>10 DEF PasskeyInv, LateInv

\* A row is created or deleted.
LEMMA RowStep ==
  ASSUME PasskeyInv, NEW h \in Handlers, NEW k \in Keys, NEW row \in Credential,
         credential' = [credential EXCEPT ![k] = row],
         handler' = [handler EXCEPT ![h] = Free],
         UNCHANGED <<pending, enrolling, signed, assertions, challenges, restarts,
                     accepted, opened, ahead, late>>,
         row.state # "none", k \notin ahead => row.counter = accepted[k],
         admitted' \subseteq Assertion, LateInv'
  PROVE  PasskeyInv'
<1>1. PasskeyTypeOK /\ ChallengeInv /\ CounterInv /\ LateInv
  BY DEF PasskeyInv
<1>2. Free \in Handler /\ Free.step = "idle"
  BY FreeFields
<1>3. PasskeyTypeOK' /\ pending \in [Names -> Nat]
  BY <1>1, <1>2 DEF PasskeyTypeOK
<1>4. ChallengeInv'
  BY <1>1, <1>2, <1>3, ChallengeStep
<1>5. /\ credential'[k] = row /\ \A j \in Keys \ {k} : credential'[j] = credential[j]
      /\ handler'[h] = Free /\ \A g \in Handlers \ {h} : handler'[g] = handler[g]
  BY <1>1 DEF PasskeyTypeOK
<1>6. UnstoredUnsigned' /\ HighestEver'
  BY <1>1, <1>5 DEF CounterInv, UnstoredUnsigned, HighestEver
<1>7. VerifiedForward'
  BY <1>1, <1>2, <1>5 DEF CounterInv, VerifiedForward
<1>8. QED
  BY <1>3, <1>4, <1>6, <1>7 DEF PasskeyInv, CounterInv

LEMMA SignStep ==
  ASSUME PasskeyInv, NEW k \in Keys, NEW c \in 1 .. challenges, Sign(k, c)
  PROVE  PasskeyInv'
<1>1. PasskeyTypeOK /\ ChallengeInv /\ CounterInv /\ LateInv
  BY DEF PasskeyInv
<1>2. PICK n \in Nat : n = IF k \in Uncounted THEN 0 ELSE signed[k] + 1
  BY <1>1 DEF PasskeyTypeOK
<1>3. PICK a : a = [key |-> k, challenge |-> c, counter |-> n]
  OBVIOUS
<1>4. a \in Assertion
  BY <1>1, <1>3 DEF Assertion, PasskeyTypeOK
<1>5. /\ Stored(k) /\ signed' = [signed EXCEPT ![k] = n] /\ assertions' = assertions \cup {a}
      /\ UNCHANGED <<pending, enrolling, credential, handler, challenges, restarts,
                     accepted, opened, ahead, admitted, late>>
  BY <1>2, <1>3 DEF Sign, histories, deletions
<1>6. PasskeyTypeOK'
  BY <1>1, <1>4, <1>5 DEF PasskeyTypeOK
<1>7. ChallengeInv'
  BY <1>1, <1>5, ForgetStep DEF PasskeyTypeOK
<1>8. HighestEver' /\ VerifiedForward' /\ LateInv'
  BY <1>1, <1>5, LateStep DEF CounterInv, HighestEver, VerifiedForward
<1>9. UnstoredUnsigned'
  BY <1>1, <1>5 DEF CounterInv, UnstoredUnsigned, Stored, PasskeyTypeOK
<1>10. QED
  BY <1>6, <1>7, <1>8, <1>9 DEF PasskeyInv, CounterInv

\* What getRegistrationOptions, the clock and a restart change in the maps
LEMMA MapStep ==
  ASSUME PasskeyInv, enrolling' \subseteq Keys, restarts' \in Nat,
         pending' \in [Names -> Nat],
         \A n \in Names : pending'[n] \in {NoChallenge, pending[n]},
         UNCHANGED <<credential, handler, signed, assertions, challenges, accepted, opened,
                     ahead, admitted, late>>
  PROVE  PasskeyInv'
<1>1. PasskeyTypeOK /\ ChallengeInv /\ CounterInv /\ LateInv
  BY DEF PasskeyInv
<1>2. PasskeyTypeOK'
  BY <1>1 DEF PasskeyTypeOK
<1>3. ChallengeInv'
  BY <1>1, ForgetStep
<1>4. CounterInv' /\ LateInv'
  BY <1>1, CounterStep, LateStep
<1>5. QED
  BY <1>2, <1>3, <1>4 DEF PasskeyInv

LEMMA RestartStep ==
  ASSUME PasskeyInv, Restart
  PROVE  PasskeyInv'
<1>1. PasskeyTypeOK /\ ChallengeInv /\ CounterInv /\ LateInv
  BY DEF PasskeyInv
<1>2. Free \in Handler /\ Free.step = "idle"
  BY FreeFields
<1>3. /\ handler' = [h \in Handlers |-> Free] /\ pending' = [n \in Names |-> NoChallenge]
      /\ restarts' = restarts + 1 /\ enrolling' = {}
      /\ UNCHANGED <<credential, signed, assertions, challenges, accepted, opened, ahead,
                     admitted, late>>
  BY DEF Restart, browser, histories, deletions
<1>4. PasskeyTypeOK'
  BY <1>1, <1>2, <1>3 DEF PasskeyTypeOK, NoChallenge
<1>5. ChallengeInv'
  BY <1>1, <1>2, <1>3 DEF ChallengeInv, PendingFresh, ExpectedFresh, OpenedGiven,
    AnswersExpected, InFlight, Verified
<1>6. CounterInv' /\ LateInv'
  BY <1>1, <1>2, <1>3, CounterStep, LateStep
<1>7. QED
  BY <1>4, <1>5, <1>6 DEF PasskeyInv

\* A row is created: its key was not deleted.
LEMMA StoreStep ==
  ASSUME PasskeyInv, NEW h \in Handlers, StoreCredential(h)
  PROVE  PasskeyInv'
<1>1. PasskeyTypeOK /\ ChallengeInv /\ CounterInv /\ LateInv /\ Free.step = "idle"
  BY FreeFields DEF PasskeyInv
<1>2. PICK k \in Keys : k = handler[h].key
  BY <1>1 DEF PasskeyTypeOK, Handler
<1>3. credential[k].state = "none" /\ signed[k] = accepted[k] /\ signed[k] \in Nat
  BY <1>1, <1>2 DEF StoreCredential, CounterInv, UnstoredUnsigned, PasskeyTypeOK
<1>4. PICK row \in Credential : row = [state |-> "stored", counter |-> signed[k]]
  BY <1>3 DEF Credential
<1>5. /\ credential' = [credential EXCEPT ![k] = row] /\ handler' = [handler EXCEPT ![h] = Free]
      /\ UNCHANGED <<pending, enrolling, signed, assertions, challenges, restarts,
                     accepted, opened, ahead, admitted, late>>
  BY <1>2, <1>4 DEF StoreCredential, Ends, browser, histories, deletions
<1>6. /\ \A j \in Keys : Deleted(j)' <=> Deleted(j)
      /\ handler'[h] = Free /\ \A g \in Handlers \ {h} : handler'[g] = handler[g]
  BY <1>1, <1>3, <1>4, <1>5 DEF PasskeyTypeOK, Deleted
<1>7. \A g \in Handlers : handler[g].key \in Keys
  BY <1>1 DEF PasskeyTypeOK, Handler
<1>8. AdmittedAccepted'
  <2>1. ASSUME NEW a \in admitted
        PROVE  Deleted(a.key)' /\ a.counter <= accepted[a.key]
    <3>1. PICK j \in Keys : j = a.key
      BY <1>1 DEF PasskeyTypeOK, Assertion
    <3>2. QED
      BY <1>1, <1>6, <3>1 DEF LateInv, AdmittedAccepted, Deleted
  <2>2. QED
    BY <1>5, <2>1 DEF AdmittedAccepted
<1>9. CountedAccepted' /\ CountedAdmitted'
  BY <1>1, <1>5, <1>6, <1>7 DEF LateInv, CountedAccepted, CountedAdmitted, AssertionOf, Deleted
<1>10. LateInv'
  BY <1>1, <1>5, <1>8, <1>9 DEF LateInv
<1>11. QED
  BY <1>1, <1>3, <1>4, <1>5, <1>10, RowStep DEF PasskeyTypeOK

\* A row is deleted: what was counted with its key by then is admitted.
LEMMA DeleteStep ==
  ASSUME PasskeyInv, NEW h \in Handlers, DeleteCredential(h)
  PROVE  PasskeyInv'
<1>1. PasskeyTypeOK /\ ChallengeInv /\ CounterInv /\ LateInv /\ Free.step = "idle"
  BY FreeFields DEF PasskeyInv
<1>2. PICK k \in Keys : k = handler[h].key
  BY <1>1 DEF PasskeyTypeOK, Handler
<1>3. credential[k] \in Credential /\ credential[k].state = "stored"
  BY <1>1, <1>2 DEF PasskeyTypeOK, DeleteCredential, Stored
<1>4. PICK row \in Credential : row = [credential[k] EXCEPT !.state = "deleted"]
  BY <1>3 DEF Credential
<1>5. row.state = "deleted" /\ row.counter = credential[k].counter
  BY <1>3, <1>4 DEF Credential
<1>6. /\ credential' = [credential EXCEPT ![k] = row] /\ handler' = [handler EXCEPT ![h] = Free]
      /\ UNCHANGED <<pending, enrolling, signed, assertions, challenges, restarts,
                     accepted, opened, ahead, late>>
      /\ admitted' = admitted \cup
           {AssertionOf(g) : g \in {f \in Handlers : handler[f].step = "counted" /\ handler[f].key = k}}
  BY <1>2, <1>4 DEF DeleteCredential, Ends, browser
<1>7. /\ \A j \in Keys : Deleted(j)' <=> Deleted(j) \/ j = k
      /\ handler'[h] = Free /\ \A g \in Handlers \ {h} : handler'[g] = handler[g]
  BY <1>1, <1>5, <1>6 DEF PasskeyTypeOK, Deleted
<1>8. \A g \in Handlers : /\ handler[g].key \in Keys /\ AssertionOf(g) \in Assertion
                          /\ AssertionOf(g).key = handler[g].key
                          /\ AssertionOf(g).counter = handler[g].counter
  BY <1>1 DEF PasskeyTypeOK, Handler, Assertion, AssertionOf
<1>9. admitted' \subseteq Assertion
  BY <1>1, <1>6, <1>8 DEF PasskeyTypeOK
<1>10. AdmittedAccepted'
  <2>1. ASSUME NEW a \in admitted'
        PROVE  Deleted(a.key)' /\ a.counter <= accepted[a.key]
    <3>1. PICK j \in Keys : j = a.key
      BY <1>9 DEF Assertion
    <3>2. CASE a \in admitted
      BY <1>1, <1>7, <3>1, <3>2 DEF LateInv, AdmittedAccepted, Deleted
    <3>3. CASE a \notin admitted
      <4>1. PICK g \in Handlers : handler[g].step = "counted" /\ handler[g].key = k /\ a = AssertionOf(g)
        BY <1>6, <3>3
      <4>2. a.key = k /\ a.counter <= accepted[k]
        BY <1>1, <1>8, <4>1 DEF LateInv, CountedAccepted
      <4>3. QED
        BY <1>7, <4>2 DEF Deleted
    <3>4. QED
      BY <3>2, <3>3
  <2>2. QED
    BY <1>6, <2>1 DEF AdmittedAccepted
<1>11. CountedAccepted'
  BY <1>1, <1>6, <1>7 DEF LateInv, CountedAccepted
<1>12. CountedAdmitted'
  <2>1. ASSUME NEW g \in Handlers, handler'[g].step = "counted", Deleted(handler[g].key)'
        PROVE  AssertionOf(g) \in admitted' /\ AssertionOf(g)' = AssertionOf(g)
    <3>1. g # h /\ handler'[g] = handler[g]
      BY <1>1, <1>7, <2>1
    <3>2. Deleted(handler[g].key) \/ handler[g].key = k
      <4>1. PICK j \in Keys : j = handler[g].key /\ Deleted(j)'
        BY <1>8, <2>1, <3>1 DEF Deleted
      <4>2. QED
        BY <1>7, <4>1 DEF Deleted
    <3>3. AssertionOf(g) \in admitted'
      BY <1>1, <1>6, <2>1, <3>1, <3>2 DEF LateInv, CountedAdmitted
    <3>4. QED
      BY <3>1, <3>3 DEF AssertionOf
  <2>2. QED
    BY <1>1, <1>7, <2>1 DEF CountedAdmitted, Deleted
<1>13. LateInv'
  BY <1>1, <1>6, <1>10, <1>11, <1>12 DEF LateInv
<1>14. k \notin ahead => row.counter = accepted[k]
  BY <1>1, <1>3, <1>5 DEF CounterInv, HighestEver
<1>15. QED
  BY <1>5, <1>6, <1>9, <1>13, <1>14, RowStep

LEMMA PasskeyStep ==
  ASSUME PasskeyInv, [PasskeyNext]_passkeyVars
  PROVE  PasskeyInv'
<1>1. /\ PasskeyTypeOK /\ ChallengeInv /\ CounterInv /\ LateInv
      /\ Free \in Handler /\ Free.step = "idle"
  BY FreeFields DEF PasskeyInv
<1> USE DEF browser, histories, deletions
<1>2. ASSUME NEW k \in Keys, RegistrationOptions(k) \/ ExpireRegistration(k)
      PROVE  PasskeyInv'
  BY <1>1, <1>2, MapStep DEF RegistrationOptions, ExpireRegistration, PasskeyTypeOK
<1>3. ASSUME NEW n \in Names, AuthenticationOptions(n)
      PROVE  PasskeyInv'
  <2>1. PICK c \in Nat : c = challenges + 1
    BY <1>1 DEF PasskeyTypeOK
  <2>2. PasskeyTypeOK'
    BY <1>1, <1>3, <2>1 DEF PasskeyTypeOK, AuthenticationOptions
  <2>3. CounterInv' /\ LateInv'
    BY <1>1, <1>3, CounterStep, LateStep DEF AuthenticationOptions
  <2>4. QED
    BY <1>1, <1>3, <2>2, <2>3, NewChallengeStep DEF PasskeyInv
<1>4. ASSUME NEW n \in Names, Expire(n)
      PROVE  PasskeyInv'
  BY <1>1, <1>4, MapStep DEF Expire, PasskeyTypeOK, NoChallenge
<1>5. ASSUME NEW k \in Keys, NEW c \in 1 .. challenges, Sign(k, c)
      PROVE  PasskeyInv'
  BY <1>5, SignStep
<1>6. ASSUME NEW h \in Handlers, NEW k \in Keys, TakeRegistration(h, k)
      PROVE  PasskeyInv'
  <2>1. PICK q \in Handler : q = [Free EXCEPT !.step = "attested", !.key = k] /\ q.step = "attested"
    BY BeginFields
  <2>2. QED
    BY <1>1, <1>6, <2>1, MoveStep DEF TakeRegistration, Begins, PasskeyTypeOK
<1>7. ASSUME NEW h \in Handlers, NEW k \in Keys, FindForDelete(h, k)
      PROVE  PasskeyInv'
  <2>1. PICK q \in Handler : q = [Free EXCEPT !.step = "deleting", !.key = k] /\ q.step = "deleting"
    BY BeginFields
  <2>2. QED
    BY <1>1, <1>7, <2>1, MoveStep DEF FindForDelete, Begins, PasskeyTypeOK
<1>8. ASSUME NEW h \in Handlers, StoreCredential(h)
      PROVE  PasskeyInv'
  BY <1>8, StoreStep
<1>9. ASSUME NEW h \in Handlers, Verify(h)
      PROVE  PasskeyInv'
  BY <1>9, VerifyStep
<1>10. ASSUME NEW h \in Handlers, UpdateCounter(h)
       PROVE  PasskeyInv'
  BY <1>10, CountStep
<1>11. ASSUME NEW h \in Handlers, OpenSession(h)
       PROVE  PasskeyInv'
  BY <1>11, OpenStep
<1>12. ASSUME NEW h \in Handlers, DeleteCredential(h)
       PROVE  PasskeyInv'
  BY <1>12, DeleteStep
<1>13. ASSUME NEW h \in Handlers, Fail(h)
       PROVE  PasskeyInv'
  BY <1>1, <1>13, MoveStep DEF Fail, Ends, PasskeyTypeOK
<1>14. CASE UNCHANGED passkeyVars
  BY <1>1, <1>14, MapStep DEF passkeyVars, PasskeyTypeOK
<1>15. QED
  BY <1>2, <1>3, <1>4, <1>5, <1>6, <1>7, <1>8, <1>9, <1>10, <1>11, <1>12, <1>13, <1>14,
     TakeStep, FindStep, RestartStep DEF PasskeyNext

LEMMA PasskeyInvariant == PasskeySpec => []PasskeyInv
BY PasskeyInitial, PasskeyStep, PTL DEF PasskeySpec

\* verifyAuthentication: a challenge opens one session at most.
THEOREM ChallengeOnce == PasskeySpec => []ChallengeServesOnce
<1>1. PasskeyInv => ChallengeServesOnce
  BY DEF PasskeyInv, ChallengeInv, AnswersExpected, ExpectedFresh, ChallengeServesOnce,
    Verified, InFlight
<1>2. QED
  BY <1>1, PasskeyInvariant, PTL

\* verifyAuthentication: the counter of a key is the highest it ever proved,
\* unless an assertion was written over one verified meanwhile.
THEOREM CounterHighest == PasskeySpec => []CounterIsHighestUnlessOverlap
<1>1. PasskeyInv => CounterIsHighestUnlessOverlap
  BY DEF PasskeyInv, CounterInv, HighestEver, CounterIsHighestUnlessOverlap, Stored
<1>2. QED
  BY <1>1, PasskeyInvariant, PTL

\* verifyAuthentication, deleteCredential: a session that opens after its key
\* was deleted was counted before, and not above what the row was deleted with.
THEOREM LateSessions == PasskeySpec => []LateSessionsWereCounted
<1>1. ASSUME PasskeyInv
      PROVE  LateSessionsWereCounted
  <2>1. PasskeyTypeOK /\ CounterInv /\ LateInv
    BY <1>1 DEF PasskeyInv
  <2>2. ASSUME NEW a \in late
        PROVE  a \in admitted /\ (a.counter <= credential[a.key].counter \/ a.key \in ahead)
    <3>1. a \in admitted
      BY <2>1 DEF LateInv
    <3>2. PICK k \in Keys : k = a.key
      BY <2>1, <3>1 DEF PasskeyTypeOK, Assertion
    <3>3. credential[k].state = "deleted" /\ a.counter <= accepted[k]
      BY <2>1, <3>1, <3>2 DEF LateInv, AdmittedAccepted, Deleted
    <3>4. k \notin ahead => credential[k].counter = accepted[k]
      BY <2>1, <3>3 DEF CounterInv, HighestEver
    <3>5. QED
      BY <3>1, <3>2, <3>3, <3>4
  <2>3. QED
    BY <2>2 DEF LateSessionsWereCounted
<1>2. QED
  BY <1>1, PasskeyInvariant, PTL

-----------------------------------------------------------------------------
(* Totp.  What a call checked when it read the row; and every code about,   *)
(* stored, read or used, is of an enrolment that was written.               *)

ReadAllows ==
  \A c \in Calls :
    /\ call[c].op = "setup" => ~call[c].row.enabled
    /\ call[c].op \in {"enable", "disable"} => call[c].row.secret # NoSecret

GivenCodes == {b \in BackupCode : b.enrolment <= enrolments}

CodesWereGiven ==
  /\ factor.codes \subseteq GivenCodes
  /\ used \subseteq GivenCodes
  /\ \A c \in Calls : call[c].row.codes \subseteq GivenCodes

TotpInv == TotpTypeOK /\ ReadAllows /\ CodesWereGiven /\ EnabledAsConfirmed

LEMMA TotpInitial == TotpInit => TotpInv
<1> SUFFICES ASSUME TotpInit PROVE TotpInv
  OBVIOUS
<1>1. /\ NoFactor \in Factor /\ ~NoFactor.enabled /\ NoFactor.codes = {}
      /\ NoCall \in Call /\ NoCall.op = "none" /\ NoCall.row = NoFactor
  BY DEF NoFactor, NoCall, NoSecret, Factor, Call, Operation
<1>2. TotpTypeOK
  BY <1>1 DEF TotpInit, TotpTypeOK, NoSecret
<1>3. ReadAllows /\ CodesWereGiven /\ EnabledAsConfirmed
  BY <1>1 DEF TotpInit, ReadAllows, CodesWereGiven, EnabledAsConfirmed
<1>4. QED
  BY <1>2, <1>3 DEF TotpInv

\* The row with a secret, an enrolment, a flag or a list written over it
WithSecret(f, n) == [f EXCEPT !.secret = n]
WithEnrolment(f, codes) == [f EXCEPT !.enabled = TRUE, !.codes = codes]
WithCodes(f, codes) == [f EXCEPT !.codes = codes]
WithFlag(f, flag) == [f EXCEPT !.enabled = flag]

LEMMA SecretFields ==
  ASSUME NEW f \in Factor, NEW n \in Nat
  PROVE  /\ WithSecret(f, n) \in Factor /\ WithSecret(f, n).secret = n
         /\ WithSecret(f, n).enabled = f.enabled /\ WithSecret(f, n).codes = f.codes
BY DEF WithSecret, Factor

LEMMA EnrolmentFields ==
  ASSUME NEW f \in Factor, NEW codes \in SUBSET BackupCode
  PROVE  /\ WithEnrolment(f, codes) \in Factor /\ WithEnrolment(f, codes).enabled
         /\ WithEnrolment(f, codes).secret = f.secret /\ WithEnrolment(f, codes).codes = codes
BY DEF WithEnrolment, Factor

LEMMA CodesFields ==
  ASSUME NEW f \in Factor, NEW codes \in SUBSET BackupCode
  PROVE  /\ WithCodes(f, codes) \in Factor /\ WithCodes(f, codes).enabled = f.enabled
         /\ WithCodes(f, codes).secret = f.secret /\ WithCodes(f, codes).codes = codes
BY DEF WithCodes, Factor

LEMMA FlagFields ==
  ASSUME NEW f \in Factor, NEW flag \in BOOLEAN
  PROVE  /\ WithFlag(f, flag) \in Factor /\ WithFlag(f, flag).enabled = flag
         /\ WithFlag(f, flag).secret = f.secret /\ WithFlag(f, flag).codes = f.codes
BY DEF WithFlag, Factor

LEMMA NoFactorFields ==
  /\ NoFactor \in Factor /\ ~NoFactor.enabled /\ NoFactor.secret = NoSecret
  /\ NoFactor.codes = {} /\ NoCall \in Call /\ NoCall.op = "none" /\ NoCall.row = NoFactor
BY DEF NoFactor, NoCall, NoSecret, Factor, Call, Operation

\* A call reads the row, or ends without a write.
LEMMA ReadStep ==
  ASSUME TotpInv, NEW c \in Calls, NEW op \in Operation,
         \/ call' = [call EXCEPT ![c] = [op |-> op, row |-> factor]]
         \/ call' = [call EXCEPT ![c] = NoCall],
         UNCHANGED <<factor, secrets, enrolments, confirmed, used, uses, disturbed>>,
         op = "setup" => ~factor.enabled,
         op \in {"enable", "disable"} => factor.secret # NoSecret
  PROVE  TotpInv'
<1> USE DEF TotpInv, TotpTypeOK
<1>1. PICK q \in Call : /\ call' = [call EXCEPT ![c] = q]
                        /\ q.op = "setup" => ~q.row.enabled
                        /\ q.op \in {"enable", "disable"} => q.row.secret # NoSecret
                        /\ q.row.codes \subseteq factor.codes
  <2>1. CASE call' = [call EXCEPT ![c] = NoCall]
    BY <2>1, NoFactorFields
  <2>2. CASE call' = [call EXCEPT ![c] = [op |-> op, row |-> factor]]
    <3>1. PICK q : q = [op |-> op, row |-> factor]
      OBVIOUS
    <3>2. q \in Call /\ q.op = op /\ q.row = factor
      BY <3>1 DEF Call
    <3>3. QED
      BY <2>2, <3>1, <3>2
  <2>3. QED
    BY <2>1, <2>2
<1>2. call' \in [Calls -> Call] /\ call'[c] = q /\ \A d \in Calls \ {c} : call'[d] = call[d]
  BY <1>1
<1>3. GivenCodes' = GivenCodes
  BY DEF GivenCodes
<1>4. ReadAllows'
  BY <1>1, <1>2 DEF ReadAllows
<1>5. CodesWereGiven'
  BY <1>1, <1>2, <1>3 DEF CodesWereGiven
<1>6. EnabledAsConfirmed' /\ TotpTypeOK'
  BY <1>2 DEF EnabledAsConfirmed
<1>7. QED
  BY <1>4, <1>5, <1>6

\* A call writes and ends; enrolments may have been counted on.
LEMMA WriteStep ==
  ASSUME TotpInv, NEW c \in Calls, call' = [call EXCEPT ![c] = NoCall],
         TotpTypeOK', enrolments <= enrolments',
         factor'.codes \subseteq GivenCodes', used' \subseteq GivenCodes',
         EnabledAsConfirmed'
  PROVE  TotpInv'
<1>1. call \in [Calls -> Call] /\ enrolments \in Nat /\ enrolments' \in Nat
  BY DEF TotpInv, TotpTypeOK
<1>2. call'[c] = NoCall /\ \A d \in Calls \ {c} : call'[d] = call[d]
  BY <1>1
<1>3. GivenCodes \subseteq GivenCodes'
  BY <1>1 DEF GivenCodes, BackupCode
<1>4. ReadAllows'
  BY <1>2, NoFactorFields DEF TotpInv, ReadAllows
<1>5. CodesWereGiven'
  BY <1>2, <1>3, NoFactorFields DEF TotpInv, CodesWereGiven
<1>6. QED
  BY <1>4, <1>5 DEF TotpInv

LEMMA TotpStep ==
  ASSUME TotpInv, [TotpNext]_totpVars
  PROVE  TotpInv'
<1>1. /\ factor \in Factor /\ call \in [Calls -> Call] /\ secrets \in Nat /\ enrolments \in Nat
      /\ confirmed \in Nat /\ used \subseteq BackupCode /\ uses \in Nat /\ disturbed \in BOOLEAN
      /\ \A c \in Calls : call[c] \in Call /\ call[c].row \in Factor
  BY DEF TotpInv, TotpTypeOK, Call
<1>2. /\ factor.codes \subseteq GivenCodes /\ used \subseteq GivenCodes
      /\ \A c \in Calls : call[c].row.codes \subseteq GivenCodes
  BY DEF TotpInv, CodesWereGiven
<1>3. ASSUME NEW c \in Calls,
             ReadForSetup(c) \/ ReadForEnable(c) \/ ReadForDisable(c) \/ ReadForVerify(c) \/ GiveUp(c)
      PROVE  TotpInv'
  BY <1>3, ReadStep DEF ReadForSetup, ReadForEnable, ReadForDisable, ReadForVerify, GiveUp,
    Reads, Operation
<1>4. ASSUME NEW c \in Calls, WriteSecret(c)
      PROVE  TotpInv'
  <2>1. PICK n \in Nat : n = secrets + 1
    BY <1>1
  <2>2. /\ factor' = WithSecret(factor, n) /\ secrets' = n /\ call[c].op = "setup"
        /\ call' = [call EXCEPT ![c] = NoCall]
        /\ UNCHANGED <<enrolments, confirmed, used, uses>>
    BY <1>4, <2>1 DEF WriteSecret, Writes, WithSecret
  <2>3. disturbed' = (disturbed \/ Overtaken(c))
    BY <1>4 DEF WriteSecret
  <2>4. factor' \in Factor /\ factor'.enabled = factor.enabled /\ factor'.codes = factor.codes
    BY <1>1, <2>2, SecretFields
  <2>5. TotpTypeOK'
    BY <1>1, <2>2, <2>3, <2>4, NoFactorFields DEF TotpTypeOK
  <2>6. ~disturbed' => ~factor'.enabled
    BY <2>2, <2>3, <2>4 DEF TotpInv, ReadAllows, Overtaken
  <2>7. EnabledAsConfirmed'
    BY <2>6 DEF EnabledAsConfirmed
  <2>8. GivenCodes' = GivenCodes /\ enrolments <= enrolments'
    BY <1>1, <2>2 DEF GivenCodes
  <2>9. factor'.codes \subseteq GivenCodes' /\ used' \subseteq GivenCodes'
    BY <1>2, <2>2, <2>4, <2>8
  <2>10. QED
    BY <2>2, <2>5, <2>7, <2>8, <2>9, WriteStep
<1>5. ASSUME NEW c \in Calls, WriteEnrolment(c)
      PROVE  TotpInv'
  <2>1. PICK n \in Nat : n = enrolments + 1
    BY <1>1
  <2>2. n \in Nat /\ n > enrolments /\ enrolments <= n /\ n <= n
    BY <1>1, <2>1
  <2>3. Codes(n) \subseteq BackupCode /\ \A b \in Codes(n) : b.enrolment = n
    BY <2>2 DEF Codes, BackupCode
  <2>4. /\ factor' = WithEnrolment(factor, Codes(n)) /\ enrolments' = n /\ call[c].op = "enable"
        /\ call' = [call EXCEPT ![c] = NoCall] /\ confirmed' = call[c].row.secret /\ uses' = 0
        /\ UNCHANGED <<secrets, used>>
    BY <1>5, <2>1 DEF WriteEnrolment, Writes, WithEnrolment
  <2>5. disturbed' = (disturbed \/ Overtaken(c))
    BY <1>5 DEF WriteEnrolment
  <2>6. factor' \in Factor /\ factor'.secret = factor.secret /\ factor'.codes = Codes(n)
    BY <1>1, <2>3, <2>4, EnrolmentFields
  <2>7. call[c].row.secret \in Nat
    BY <1>1 DEF Factor
  <2>8. TotpTypeOK'
    BY <1>1, <2>4, <2>5, <2>6, <2>7, NoFactorFields DEF TotpTypeOK
  <2>9. Codes(n) \cap used = {}
    BY <1>1, <1>2, <2>2, <2>3 DEF GivenCodes
  <2>10. ~disturbed' => factor'.secret = confirmed' /\ confirmed' # NoSecret
    BY <2>4, <2>5, <2>6 DEF TotpInv, ReadAllows, Overtaken
  <2>11. EnabledAsConfirmed'
    BY <2>4, <2>6, <2>9, <2>10 DEF EnabledAsConfirmed
  <2>12. GivenCodes \subseteq GivenCodes' /\ Codes(n) \subseteq GivenCodes'
    BY <1>1, <2>2, <2>3, <2>4 DEF GivenCodes, BackupCode
  <2>13. QED
    BY <1>1, <1>2, <2>2, <2>4, <2>6, <2>8, <2>11, <2>12, WriteStep
<1>6. ASSUME NEW c \in Calls, WriteDisabled(c)
      PROVE  TotpInv'
  <2>1. /\ factor' = NoFactor /\ call' = [call EXCEPT ![c] = NoCall]
        /\ disturbed' = FALSE /\ confirmed' = NoSecret
        /\ UNCHANGED <<secrets, enrolments, used, uses>>
    BY <1>6 DEF WriteDisabled, Writes
  <2>2. TotpTypeOK'
    BY <1>1, <2>1, NoFactorFields DEF TotpTypeOK, NoSecret
  <2>3. EnabledAsConfirmed' /\ factor'.codes = {}
    BY <2>1, NoFactorFields DEF EnabledAsConfirmed
  <2>4. GivenCodes' = GivenCodes /\ enrolments <= enrolments'
    BY <1>1, <2>1 DEF GivenCodes
  <2>5. factor'.codes \subseteq GivenCodes' /\ used' \subseteq GivenCodes'
    BY <1>2, <2>1, <2>3, <2>4
  <2>6. QED
    BY <2>1, <2>2, <2>3, <2>4, <2>5, WriteStep
<1>7. ASSUME NEW c \in Calls, NEW b \in call[c].row.codes, UseBackupCode(c, b)
      PROVE  TotpInv'
  <2>1. PICK left \in SUBSET GivenCodes : left = call[c].row.codes \ {b}
    BY <1>2
  <2>2. left \in SUBSET BackupCode /\ b \in GivenCodes /\ b \in BackupCode
    BY <1>2 DEF GivenCodes
  <2>3. /\ factor' = WithCodes(factor, left) /\ call' = [call EXCEPT ![c] = NoCall]
        /\ used' = used \cup {b} /\ uses' = uses + 1
        /\ UNCHANGED <<secrets, enrolments, confirmed>>
    BY <1>7, <2>1 DEF UseBackupCode, Writes, WithCodes
  <2>4. disturbed' = (disturbed \/ Overtaken(c))
    BY <1>7 DEF UseBackupCode
  <2>5. /\ factor' \in Factor /\ factor'.secret = factor.secret
        /\ factor'.enabled = factor.enabled /\ factor'.codes = left
    BY <1>1, <2>2, <2>3, CodesFields
  <2>6. TotpTypeOK'
    BY <1>1, <2>2, <2>3, <2>4, <2>5, NoFactorFields DEF TotpTypeOK
  <2>7. ~disturbed' => left = factor.codes \ {b}
    BY <2>1, <2>4 DEF Overtaken
  <2>8. EnabledAsConfirmed'
    BY <2>3, <2>4, <2>5, <2>7 DEF TotpInv, EnabledAsConfirmed
  <2>9. GivenCodes' = GivenCodes /\ enrolments <= enrolments'
    BY <1>1, <2>3 DEF GivenCodes
  <2>10. factor'.codes \subseteq GivenCodes' /\ used' \subseteq GivenCodes'
    BY <1>2, <2>2, <2>3, <2>5, <2>9
  <2>11. QED
    BY <2>3, <2>6, <2>8, <2>9, <2>10, WriteStep
<1>8. ASSUME NEW flag \in BOOLEAN, ImportFlag(flag)
      PROVE  TotpInv'
  <2>1. /\ factor' = WithFlag(factor, flag) /\ disturbed' = TRUE
        /\ UNCHANGED <<call, secrets, enrolments, confirmed, used, uses>>
    BY <1>8 DEF ImportFlag, WithFlag
  <2>2. factor' \in Factor /\ factor'.codes = factor.codes
    BY <1>1, <2>1, FlagFields
  <2>3. TotpTypeOK' /\ EnabledAsConfirmed'
    BY <1>1, <2>1, <2>2 DEF TotpTypeOK, EnabledAsConfirmed
  <2>4. ReadAllows' /\ GivenCodes' = GivenCodes
    BY <2>1 DEF TotpInv, ReadAllows, GivenCodes
  <2>5. QED
    BY <1>2, <2>1, <2>2, <2>3, <2>4 DEF TotpInv, CodesWereGiven
<1>9. CASE UNCHANGED totpVars
  BY <1>9 DEF totpVars, TotpInv, TotpTypeOK, ReadAllows, CodesWereGiven, GivenCodes,
    EnabledAsConfirmed
<1>10. QED
  BY <1>3, <1>4, <1>5, <1>6, <1>7, <1>8, <1>9 DEF TotpNext

LEMMA TotpInvariant == TotpSpec => []TotpInv
BY TotpInitial, TotpStep, PTL DEF TotpSpec

\* TotpService.enable, verify: an enabled factor answers to the secret proved
\* and to codes never used, unless a call wrote over a later write.
THEOREM EnabledConfirmed == TotpSpec => []EnabledAsConfirmed
BY TotpInvariant, PTL DEF TotpInv

\* A step out of a stuck factor
LEMMA OutOfStuck ==
  ASSUME TotpInv, TotpNext, Stuck
  PROVE  \/ Stuck'
         \/ call' = call
         \/ \E c \in Calls : call[c].op \in {"setup", "disable"} /\ Overtaken(c) /\ call'[c] = NoCall
<1>1. /\ factor \in Factor /\ call \in [Calls -> Call] /\ factor.enabled
      /\ factor.secret = NoSecret /\ secrets \in Nat /\ enrolments \in Nat
      /\ \A c \in Calls : call[c].row \in Factor
  BY DEF TotpInv, TotpTypeOK, Stuck, Call
<1>2. ASSUME factor' = factor
      PROVE  Stuck'
  BY <1>1, <1>2 DEF Stuck
<1>3. ASSUME NEW c \in Calls,
             ReadForSetup(c) \/ ReadForEnable(c) \/ ReadForDisable(c) \/ ReadForVerify(c) \/ GiveUp(c)
      PROVE  factor' = factor
  BY <1>3 DEF ReadForSetup, ReadForEnable, ReadForDisable, ReadForVerify, GiveUp, Reads
<1>4. ASSUME NEW c \in Calls, WriteSecret(c) \/ WriteDisabled(c)
      PROVE  call[c].op \in {"setup", "disable"} /\ Overtaken(c) /\ call'[c] = NoCall
  <2>1. call[c].op \in {"setup", "disable"} /\ call' = [call EXCEPT ![c] = NoCall]
    BY <1>4 DEF WriteSecret, WriteDisabled, Writes
  <2>2. ~call[c].row.enabled \/ call[c].row.secret # NoSecret
    BY <2>1 DEF TotpInv, ReadAllows
  <2>3. QED
    BY <1>1, <2>1, <2>2 DEF Overtaken
<1>5. ASSUME NEW c \in Calls, WriteEnrolment(c)
      PROVE  Stuck'
  <2>1. PICK n \in Nat : n = enrolments + 1
    BY <1>1
  <2>2. factor' = WithEnrolment(factor, Codes(n))
    BY <1>5, <2>1 DEF WriteEnrolment, Writes, WithEnrolment
  <2>3. Codes(n) \in SUBSET BackupCode
    BY DEF Codes, BackupCode
  <2>4. QED
    BY <1>1, <2>2, <2>3, EnrolmentFields DEF Stuck
<1>6. ASSUME NEW c \in Calls, NEW b \in call[c].row.codes, UseBackupCode(c, b)
      PROVE  Stuck'
  <2>1. PICK left \in SUBSET BackupCode : left = call[c].row.codes \ {b}
    BY <1>1 DEF Factor
  <2>2. factor' = WithCodes(factor, left)
    BY <1>6, <2>1 DEF UseBackupCode, Writes, WithCodes
  <2>3. QED
    BY <1>1, <2>2, CodesFields DEF Stuck
<1>7. ASSUME NEW flag \in BOOLEAN, ImportFlag(flag)
      PROVE  call' = call
  BY <1>7 DEF ImportFlag
<1>8. QED
  BY <1>2, <1>3, <1>4, <1>5, <1>6, <1>7 DEF TotpNext

\* A factor enabled without a secret stays so but for the import and calls that
\* had read the row before (TotpService.disable, initiateSetup).
THEOREM StuckStays == TotpSpec => StuckStaysStuck
<1>1. ASSUME TotpInv, [TotpNext]_totpVars
      PROVE  [Stuck => \/ Stuck'
                       \/ call' = call
                       \/ \E c \in Calls : call[c].op \in {"setup", "disable"} /\ Overtaken(c) /\ call'[c] = NoCall]_totpVars
  BY <1>1, OutOfStuck
<1>2. QED
  BY <1>1, TotpInvariant, PTL DEF TotpSpec, StuckStaysStuck

-----------------------------------------------------------------------------
(***************************************************************************)
(* Totp.  The uses of backup codes since an enrolment: a use writes a list *)
(* one code shorter than the list its call read.  Level j holds the calls  *)
(* that cannot leave exactly j + 1 codes spent: more than j are spent in   *)
(* the row, and in what a verification read.                               *)
(***************************************************************************)
Spent(codes) == CodesPerEnrolment - Cardinality(codes)

CodeList(codes) == IsFiniteSet(codes) /\ Spent(codes) \in 0 .. CodesPerEnrolment

CodeLists ==
  /\ CodeList(factor.codes)
  /\ \A c \in Calls : CodeList(call[c].row.codes)

SpentAbove(f, k, j) ==
  {c \in Calls : Spent(f.codes) > j /\ (k[c].op = "verify" => Spent(k[c].row.codes) > j)}

SpentLevels(f, k) == [j \in 0 .. CodesPerEnrolment - 1 |-> SpentAbove(f, k, j)]

UsesExplained == Bounded(SpentLevels(factor, call), CodesPerEnrolment, uses)

LEMMA EnrolmentCodes ==
  ASSUME NEW e
  PROVE  CodeList(Codes(e))
<1> DEFINE f == [i \in 1 .. CodesPerEnrolment |-> [enrolment |-> e, index |-> i]]
<1>1. CodesPerEnrolment \in Nat
  OBVIOUS
<1>2. IsFiniteSet(1 .. CodesPerEnrolment) /\ Cardinality(1 .. CodesPerEnrolment) = CodesPerEnrolment
  BY <1>1, FS_Interval
<1>3. \A i \in 1 .. CodesPerEnrolment : f[i] \in Codes(e)
  BY DEF Codes
<1>4. \A b \in Codes(e) : b.index \in 1 .. CodesPerEnrolment /\ f[b.index] = b
  BY DEF Codes
<1>5. f \in Surjection(1 .. CodesPerEnrolment, Codes(e))
  <2>1. f = [i \in 1 .. CodesPerEnrolment |-> f[i]]
    OBVIOUS
  <2> HIDE DEF f
  <2>2. f \in [1 .. CodesPerEnrolment -> Codes(e)]
    BY <1>3, <2>1
  <2>3. QED
    BY <1>4, <2>2 DEF Surjection
<1>6. IsFiniteSet(Codes(e)) /\ Cardinality(Codes(e)) <= CodesPerEnrolment
  <2> HIDE DEF f
  <2>1. QED
    BY <1>2, <1>5, FS_Surjection
<1>7. Cardinality(Codes(e)) \in Nat
  BY <1>6, FS_CardinalityType
<1>8. QED
  BY <1>1, <1>6, <1>7 DEF CodeList, Spent

LEMMA NoCodes == CodeList({}) /\ Spent({}) = CodesPerEnrolment
<1>1. IsFiniteSet({}) /\ Cardinality({}) = 0
  BY FS_EmptySet
<1>2. QED
  BY <1>1 DEF CodeList, Spent

LEMMA OneCodeLess ==
  ASSUME NEW codes, CodeList(codes), NEW b \in codes
  PROVE  /\ CodeList(codes \ {b}) /\ Spent(codes \ {b}) = Spent(codes) + 1
         /\ Spent(codes) \in 0 .. CodesPerEnrolment - 1
<1>1. IsFiniteSet(codes \ {b}) /\ Cardinality(codes \ {b}) = Cardinality(codes) - 1
  BY FS_RemoveElement DEF CodeList
<1>2. Cardinality(codes) \in Nat /\ Cardinality(codes \ {b}) \in Nat
  BY <1>1, FS_CardinalityType DEF CodeList
<1>3. QED
  BY <1>1, <1>2 DEF CodeList, Spent

\* The levels of a row and of calls whose lists are lists of codes
LEMMA SpentLevelsType ==
  ASSUME NEW f, NEW k, CodeList(f.codes), \A c \in Calls : CodeList(k[c].row.codes)
  PROVE  Levels(SpentLevels(f, k), CodesPerEnrolment, Calls)
<1>1. ASSUME NEW i \in 0 .. CodesPerEnrolment - 1, NEW j \in 0 .. CodesPerEnrolment - 1, i <= j
      PROVE  SpentAbove(f, k, j) \subseteq SpentAbove(f, k, i)
  <2>1. i \in Int /\ j \in Int /\ Spent(f.codes) \in Int
    BY DEF CodeList
  <2>2. \A c \in Calls : Spent(k[c].row.codes) \in Int
    BY DEF CodeList
  <2>3. QED
    BY <1>1, <2>1, <2>2 DEF SpentAbove
<1>2. \A j \in 0 .. CodesPerEnrolment - 1 : SpentAbove(f, k, j) \in SUBSET Calls
  BY DEF SpentAbove
<1>3. \A j \in 0 .. CodesPerEnrolment - 1 : SpentLevels(f, k)[j] = SpentAbove(f, k, j)
  BY DEF SpentLevels
<1>4. QED
  BY <1>1, <1>2, <1>3 DEF Levels

\* A step that leaves as many codes or none, and ends calls or starts them from
\* the row, leaves the calls of each level in it.
LEMMA QuietCodes ==
  ASSUME NEW f, NEW k, CodeList(f.codes), \A c \in Calls : CodeList(k[c].row.codes),
         NEW g, NEW l, CodeList(g.codes), \A c \in Calls : CodeList(l[c].row.codes),
         g.codes \in {f.codes, {}},
         \A c \in Calls : l[c] = k[c] \/ l[c].op # "verify" \/ l[c].row.codes = f.codes,
         NEW n \in Nat, Bounded(SpentLevels(f, k), CodesPerEnrolment, n)
  PROVE  Bounded(SpentLevels(g, l), CodesPerEnrolment, n)
<1>1. ASSUME NEW j \in 0 .. CodesPerEnrolment - 1
      PROVE  SpentLevels(f, k)[j] \subseteq SpentLevels(g, l)[j]
  <2>1. Spent(f.codes) > j => Spent(g.codes) > j
    <3>1. CodesPerEnrolment > j
      OBVIOUS
    <3>2. QED
      BY <3>1, NoCodes
  <2>2. QED
    BY <2>1 DEF SpentLevels, SpentAbove
<1>2. /\ Levels(SpentLevels(f, k), CodesPerEnrolment, Calls)
      /\ Levels(SpentLevels(g, l), CodesPerEnrolment, Calls)
  BY SpentLevelsType
<1>3. QED
  BY <1>1, <1>2, Grow

\* A backup code is used.
LEMMA UseRaises ==
  ASSUME NEW f, NEW k, CodeList(f.codes), \A c \in Calls : CodeList(k[c].row.codes),
         NEW g, NEW l, CodeList(g.codes), \A c \in Calls : CodeList(l[c].row.codes),
         NEW c \in Calls, k[c].op = "verify", l[c].op # "verify",
         \A d \in Calls \ {c} : l[d] = k[d],
         NEW b \in k[c].row.codes, g.codes = k[c].row.codes \ {b},
         NEW n \in Nat, Bounded(SpentLevels(f, k), CodesPerEnrolment, n)
  PROVE  Bounded(SpentLevels(g, l), CodesPerEnrolment, n + 1)
<1>1. PICK a \in 0 .. CodesPerEnrolment - 1 : a = Spent(k[c].row.codes) /\ Spent(g.codes) = a + 1
  <2>1. CodeList(k[c].row.codes)
    OBVIOUS
  <2>2. QED
    BY <2>1, OneCodeLess
<1>2. ASSUME NEW j \in 0 .. a
      PROVE  SpentLevels(f, k)[j] \subseteq SpentLevels(g, l)[j]
  <2>1. j \in 0 .. CodesPerEnrolment - 1 /\ Spent(g.codes) > j
    BY <1>1
  <2>2. QED
    BY <2>1 DEF SpentLevels, SpentAbove
<1>3. c \notin SpentLevels(f, k)[a]
  <2>1. ~ (Spent(k[c].row.codes) > a)
    BY <1>1
  <2>2. QED
    BY <2>1 DEF SpentLevels, SpentAbove
<1>4. c \in SpentLevels(g, l)[a]
  <2>1. Spent(g.codes) > a
    BY <1>1
  <2>2. QED
    BY <2>1 DEF SpentLevels, SpentAbove
<1>5. /\ Levels(SpentLevels(f, k), CodesPerEnrolment, Calls)
      /\ Levels(SpentLevels(g, l), CodesPerEnrolment, Calls)
  BY SpentLevelsType
<1>6. QED
  BY <1>2, <1>3, <1>4, <1>5, Raise

\* The lists stay lists of codes when a call ends and the row has one.
LEMMA ListsStep ==
  ASSUME TotpTypeOK, CodeLists, NEW c \in Calls, NEW q,
         call' = [call EXCEPT ![c] = q], CodeList(q.row.codes), CodeList(factor'.codes)
  PROVE  CodeLists'
<1>1. call'[c] = q /\ \A d \in Calls \ {c} : call'[d] = call[d]
  BY DEF TotpTypeOK
<1>2. QED
  BY <1>1 DEF CodeLists

LEMMA UsesStep ==
  ASSUME TotpTypeOK, TotpTypeOK', CodeLists, UsesExplained, [TotpNext]_totpVars
  PROVE  CodeLists' /\ UsesExplained'
<1>1. /\ call \in [Calls -> Call] /\ uses \in Nat /\ uses' \in Nat
      /\ factor \in Factor /\ \A c \in Calls : call[c] \in Call /\ call[c].row \in Factor
  BY DEF TotpTypeOK, Call
<1>2. CodeList(factor.codes) /\ \A c \in Calls : CodeList(call[c].row.codes)
  BY DEF CodeLists
<1>3. CodeList(NoCall.row.codes) /\ NoCall.op # "verify" /\ NoFactor.codes = {}
  BY NoCodes DEF NoCall, NoFactor
<1>4. ASSUME CodeLists', factor'.codes \in {factor.codes, {}},
             \A c \in Calls : call'[c] = call[c] \/ call'[c].op # "verify"
                              \/ call'[c].row.codes = factor.codes,
             uses' = uses
      PROVE  UsesExplained'
  <2>1. CodeList(factor'.codes) /\ \A c \in Calls : CodeList(call'[c].row.codes)
    BY <1>4 DEF CodeLists
  <2>2. Bounded(SpentLevels(factor', call'), CodesPerEnrolment, uses)
    BY <1>1, <1>2, <1>4, <2>1, QuietCodes DEF UsesExplained
  <2>3. QED
    BY <1>4, <2>2 DEF UsesExplained
<1>5. ASSUME CodeLists', uses' = 0
      PROVE  UsesExplained'
  <2>1. CodeList(factor'.codes) /\ \A c \in Calls : CodeList(call'[c].row.codes)
    BY <1>5 DEF CodeLists
  <2>2. Levels(SpentLevels(factor', call'), CodesPerEnrolment, Calls)
    BY <2>1, SpentLevelsType
  <2>3. Bounded(SpentLevels(factor', call'), CodesPerEnrolment, 0)
    BY <2>2, NoneYet
  <2>4. QED
    BY <1>5, <2>3 DEF UsesExplained
<1>6. ASSUME NEW c \in Calls, NEW q, call' = [call EXCEPT ![c] = q],
             q.op # "verify" \/ q.row.codes = factor.codes, CodeList(q.row.codes),
             factor'.codes \in {factor.codes, {}}, uses' = uses
      PROVE  CodeLists' /\ UsesExplained'
  <2>1. call'[c] = q /\ \A d \in Calls \ {c} : call'[d] = call[d]
    BY <1>1, <1>6
  <2>2. CodeList(factor'.codes)
    BY <1>2, <1>6, NoCodes
  <2>3. CodeLists'
    BY <1>6, <2>2, ListsStep
  <2>4. \A d \in Calls : call'[d] = call[d] \/ call'[d].op # "verify"
                         \/ call'[d].row.codes = factor.codes
    BY <1>6, <2>1
  <2>5. QED
    BY <1>4, <1>6, <2>3, <2>4
<1>7. ASSUME NEW c \in Calls, NEW op, Reads(c, op)
      PROVE  CodeLists' /\ UsesExplained'
  <2>1. PICK q : q = [op |-> op, row |-> factor]
    OBVIOUS
  <2>2. q.row.codes = factor.codes
    BY <2>1
  <2>3. call' = [call EXCEPT ![c] = q] /\ factor' = factor /\ uses' = uses
    BY <1>7, <2>1 DEF Reads
  <2>4. QED
    BY <1>2, <1>6, <2>2, <2>3
<1>8. ASSUME NEW c \in Calls,
             ReadForSetup(c) \/ ReadForEnable(c) \/ ReadForDisable(c) \/ ReadForVerify(c)
      PROVE  CodeLists' /\ UsesExplained'
  BY <1>7, <1>8 DEF ReadForSetup, ReadForEnable, ReadForDisable, ReadForVerify
<1>9. ASSUME NEW c \in Calls, WriteSecret(c)
      PROVE  CodeLists' /\ UsesExplained'
  <2>1. /\ factor' = [factor EXCEPT !.secret = secrets + 1] /\ uses' = uses
        /\ call' = [call EXCEPT ![c] = NoCall]
    BY <1>9 DEF WriteSecret, Writes
  <2>2. factor'.codes = factor.codes
    BY <1>1, <2>1 DEF Factor
  <2>3. QED
    BY <1>3, <1>6, <2>1, <2>2
<1>10. ASSUME NEW c \in Calls, WriteEnrolment(c)
       PROVE  CodeLists' /\ UsesExplained'
  <2>1. /\ factor' = [factor EXCEPT !.enabled = TRUE, !.codes = Codes(enrolments + 1)]
        /\ uses' = 0 /\ call' = [call EXCEPT ![c] = NoCall]
    BY <1>10 DEF WriteEnrolment, Writes
  <2>2. factor'.codes = Codes(enrolments + 1)
    BY <1>1, <2>1 DEF Factor
  <2>3. CodeList(factor'.codes)
    BY <2>2, EnrolmentCodes
  <2>4. CodeLists'
    BY <1>3, <2>1, <2>3, ListsStep
  <2>5. QED
    BY <1>5, <2>1, <2>4
<1>11. ASSUME NEW c \in Calls, WriteDisabled(c) \/ GiveUp(c)
       PROVE  CodeLists' /\ UsesExplained'
  <2>1. /\ factor' \in {factor, NoFactor} /\ uses' = uses
        /\ call' = [call EXCEPT ![c] = NoCall]
    BY <1>11 DEF WriteDisabled, GiveUp, Writes
  <2>2. factor'.codes \in {factor.codes, {}}
    BY <1>3, <2>1
  <2>3. QED
    BY <1>3, <1>6, <2>1, <2>2
<1>12. ASSUME NEW c \in Calls, NEW b \in call[c].row.codes, UseBackupCode(c, b)
       PROVE  CodeLists' /\ UsesExplained'
  <2>1. PICK left : left = call[c].row.codes \ {b}
    OBVIOUS
  <2>2. /\ factor' = [factor EXCEPT !.codes = left] /\ uses' = uses + 1
        /\ call' = [call EXCEPT ![c] = NoCall] /\ call[c].op = "verify"
    BY <1>12, <2>1 DEF UseBackupCode, Writes
  <2>3. factor'.codes = left
    BY <1>1, <2>2 DEF Factor
  <2>4. CodeList(factor'.codes)
    BY <1>2, <2>1, <2>3, OneCodeLess
  <2>5. CodeLists'
    BY <1>3, <2>2, <2>4, ListsStep
  <2>6. CodeList(factor'.codes) /\ \A d \in Calls : CodeList(call'[d].row.codes)
    BY <2>5 DEF CodeLists
  <2>7. call'[c].op # "verify" /\ \A d \in Calls \ {c} : call'[d] = call[d]
    BY <1>1, <1>3, <2>2
  <2>8. Bounded(SpentLevels(factor', call'), CodesPerEnrolment, uses + 1)
    BY <1>1, <1>2, <2>1, <2>2, <2>3, <2>6, <2>7, UseRaises DEF UsesExplained
  <2>9. QED
    BY <2>2, <2>5, <2>8 DEF UsesExplained
<1>13. ASSUME NEW flag \in BOOLEAN, ImportFlag(flag)
       PROVE  CodeLists' /\ UsesExplained'
  <2>1. factor' = [factor EXCEPT !.enabled = flag] /\ call' = call /\ uses' = uses
    BY <1>13 DEF ImportFlag
  <2>2. factor'.codes = factor.codes
    BY <1>1, <2>1 DEF Factor
  <2>3. CodeLists'
    BY <2>1, <2>2 DEF CodeLists
  <2>4. QED
    BY <1>4, <2>1, <2>2, <2>3
<1>14. CASE UNCHANGED totpVars
  BY <1>14 DEF totpVars, CodeLists, UsesExplained
<1>15. QED
  BY <1>8, <1>9, <1>10, <1>11, <1>12, <1>13, <1>14 DEF TotpNext

\* However often late writes bring codes back (verifyBackupCode), the codes of
\* an enrolment open the second step fewer times than there are multisets of as
\* many of the values 0 .. CodesPerEnrolment as there are calls.
THEOREM Uses == TotpSpec => []UsesBounded
<1>1. TotpInit => CodeLists /\ UsesExplained
  <2> SUFFICES ASSUME TotpInit PROVE CodeLists /\ UsesExplained
    OBVIOUS
  <2>1. factor.codes = {} /\ uses = 0 /\ \A c \in Calls : call[c].row.codes = {}
    BY DEF TotpInit, NoCall, NoFactor
  <2>2. CodeLists
    BY <2>1, NoCodes DEF CodeLists
  <2>3. Levels(SpentLevels(factor, call), CodesPerEnrolment, Calls)
    BY <2>2, SpentLevelsType DEF CodeLists
  <2>4. QED
    BY <2>1, <2>2, <2>3, NoneYet DEF UsesExplained
<1>2. /\ TotpInv => TotpTypeOK
      /\ TotpTypeOK /\ TotpTypeOK' /\ CodeLists /\ UsesExplained /\ [TotpNext]_totpVars
         => CodeLists' /\ UsesExplained'
  BY UsesStep DEF TotpInv
<1>3. TotpInv /\ CodeLists /\ UsesExplained => UsesBounded
  <2> SUFFICES ASSUME TotpTypeOK, CodeLists, UsesExplained PROVE UsesBounded
    BY DEF TotpInv
  <2>1. uses \in Nat
    BY DEF TotpTypeOK
  <2>2. Levels(SpentLevels(factor, call), CodesPerEnrolment, Calls)
    BY SpentLevelsType DEF CodeLists
  <2>3. PICK k \in Nat : k = Cardinality(Calls)
    BY FS_CardinalityType
  <2>4. PICK w \in Nat : w = choose(k + CodesPerEnrolment, k)
    <3>1. Ways(k, CodesPerEnrolment) \in Nat
      BY WaysFacts
    <3>2. QED
      BY <3>1 DEF Ways
  <2>5. uses < w
    BY <2>1, <2>2, <2>3, <2>4, Limit DEF UsesExplained
  <2>6. CodesPerEnrolment + k = k + CodesPerEnrolment
    OBVIOUS
  <2>7. QED
    BY <2>1, <2>3, <2>4, <2>5, <2>6 DEF UsesBounded, MaxUses
<1>4. QED
  BY <1>1, <1>2, <1>3, TotpInvariant, PTL DEF TotpSpec

-----------------------------------------------------------------------------
(* Claims.  Whatever the account has now, every request in flight has seen; *)
(* and as long as nothing changed, what it read is what there is.           *)

SeesThePresent(h) == rank \subseteq h.roles /\ Accessible \subseteq h.services

SaysWhatWasHeld(q, h) ==
  /\ q.services \subseteq h.services
  /\ q.roles \subseteq h.roles
  /\ \A s \in Apps : q.serviceRoles[s] # {} =>
       s \in h.services /\ q.serviceRoles[s] \subseteq h.roles

ReadIsPresent(q) ==
  /\ q.roles = rank
  /\ q.phase \in {"user", "details", "signed"} => q.services = Accessible
  /\ q.phase = "details" => q.userRoles = rank
  /\ q.phase = "signed" =>
       \A s \in Apps : q.serviceRoles[s] = IF s \in Accessible THEN rank ELSE {}

Consistent(q, h) ==
  /\ SeesThePresent(h)
  /\ q.phase # "passkeySigned" => SaysWhatWasHeld(q, h)
  /\ q.userRoles \subseteq h.roles
  /\ ~h.changed => ReadIsPresent(q)

IssuersConsistent ==
  \A i \in Issuers : InProgress(i) => Consistent(issuer[i], held[i])

ClaimsInv == ClaimsTypeOK /\ IssuersConsistent

LEMMA ReadyFields ==
  /\ Ready \in Issuer /\ Ready.phase = "idle" /\ Ready.roles = {} /\ Ready.services = {}
  /\ Ready.userRoles = {} /\ Ready.serviceRoles = NoRoles /\ NothingHeld \in Held
BY DEF Ready, Issuer, Phase, NoRoles, NothingHeld, Held

LEMMA HeldFields ==
  ASSUME NEW services \in SUBSET Apps, NEW roles \in SUBSET Ranks, NEW changed \in BOOLEAN
  PROVE  \E h \in Held : /\ h = [services |-> services, roles |-> roles, changed |-> changed]
                         /\ h.services = services /\ h.roles = roles /\ h.changed = changed
<1>1. PICK h : h = [services |-> services, roles |-> roles, changed |-> changed]
  OBVIOUS
<1>2. h \in Held /\ h.services = services /\ h.roles = roles /\ h.changed = changed
  BY <1>1 DEF Held
<1>3. QED
  BY <1>1, <1>2

LEMMA ClaimsInitial == ClaimsInit => ClaimsInv
<1> SUFFICES ASSUME ClaimsInit PROVE ClaimsInv
  OBVIOUS
<1>1. ClaimsTypeOK
  BY ReadyFields DEF ClaimsInit, ClaimsTypeOK, Pass
<1>2. IssuersConsistent
  BY ReadyFields DEF ClaimsInit, IssuersConsistent, InProgress
<1>3. QED
  BY <1>1, <1>2 DEF ClaimsInv

\* An administrator changes something, or an access expires.
LEMMA DirectoryChanges ==
  ASSUME ClaimsInv, rank' \subseteq Ranks, app' \in [Apps -> BOOLEAN], pass' \in [Apps -> Pass],
         UNCHANGED issuer, Holding
  PROVE  ClaimsInv'
<1>1. Accessible' \subseteq Apps
  BY DEF Accessible
<1>2. PICK now \in SUBSET Apps : now = Accessible'
  BY <1>1
<1>3. held \in [Issuers -> Held] /\ \A i \in Issuers : held[i] \in Held
  BY DEF ClaimsInv, ClaimsTypeOK
<1>4. \A i \in Issuers :
        held'[i] = IF InProgress(i)
                     THEN [services |-> held[i].services \cup now,
                           roles |-> held[i].roles \cup rank', changed |-> TRUE]
                     ELSE held[i]
  BY <1>2 DEF Holding
<1>5. ASSUME NEW i \in Issuers, InProgress(i)
      PROVE  /\ held'[i] \in Held /\ held'[i].changed
             /\ held'[i].services = held[i].services \cup now
             /\ held'[i].roles = held[i].roles \cup rank'
  <2>1. held[i].services \cup now \in SUBSET Apps /\ held[i].roles \cup rank' \in SUBSET Ranks
    BY <1>3 DEF Held
  <2>2. PICK S \in SUBSET Apps, R \in SUBSET Ranks :
          S = held[i].services \cup now /\ R = held[i].roles \cup rank'
    BY <2>1
  <2>3. held'[i] = [services |-> S, roles |-> R, changed |-> TRUE]
    BY <1>4, <1>5, <2>2
  <2>4. PICK h \in Held : /\ h = [services |-> S, roles |-> R, changed |-> TRUE]
                          /\ h.services = S /\ h.roles = R /\ h.changed = TRUE
    BY HeldFields
  <2>5. QED
    BY <2>2, <2>3, <2>4
<1>6. held' \in [Issuers -> Held]
  BY <1>3, <1>4, <1>5 DEF Holding
<1>7. ClaimsTypeOK'
  BY <1>6 DEF ClaimsInv, ClaimsTypeOK
<1>8. ASSUME NEW i \in Issuers, InProgress(i)
      PROVE  Consistent(issuer[i], held[i])'
  <2>1. Consistent(issuer[i], held[i])
    BY <1>8 DEF ClaimsInv, IssuersConsistent
  <2>2. SeesThePresent(held[i])'
    BY <1>2, <1>5, <1>8 DEF SeesThePresent
  <2>3. issuer[i].phase # "passkeySigned" => SaysWhatWasHeld(issuer[i], held[i])'
    BY <1>5, <1>8, <2>1 DEF Consistent, SaysWhatWasHeld
  <2>4. issuer[i].userRoles \subseteq held'[i].roles
    BY <1>5, <1>8, <2>1 DEF Consistent
  <2>5. QED
    BY <1>5, <1>8, <2>2, <2>3, <2>4 DEF Consistent
<1>9. IssuersConsistent'
  BY <1>8 DEF IssuersConsistent, InProgress
<1>10. QED
  BY <1>7, <1>9 DEF ClaimsInv

\* A request goes on by one reading.
LEMMA IssuerStep ==
  ASSUME ClaimsInv, NEW i \in Issuers, NEW q \in Issuer, NEW h \in Held,
         issuer' = [issuer EXCEPT ![i] = q], held' = [held EXCEPT ![i] = h],
         UNCHANGED Directory,
         q.phase # "idle" => Consistent(q, h)
  PROVE  ClaimsInv'
<1>1. /\ issuer' \in [Issuers -> Issuer] /\ held' \in [Issuers -> Held]
      /\ issuer'[i] = q /\ held'[i] = h
      /\ \A j \in Issuers \ {i} : issuer'[j] = issuer[j] /\ held'[j] = held[j]
      /\ UNCHANGED <<rank, app, pass>>
  BY DEF ClaimsInv, ClaimsTypeOK, Directory
<1>2. ClaimsTypeOK'
  BY <1>1 DEF ClaimsInv, ClaimsTypeOK
<1>3. Accessible' = Accessible
  BY <1>1 DEF Accessible
<1>4. ASSUME NEW j \in Issuers, InProgress(j)'
      PROVE  Consistent(issuer'[j], held'[j])
  <2>1. CASE j = i
    BY <1>1, <1>4, <2>1 DEF InProgress
  <2>2. CASE j # i
    BY <1>1, <1>4, <2>2 DEF ClaimsInv, IssuersConsistent, InProgress
  <2>3. QED
    BY <2>1, <2>2
<1>5. ASSUME NEW j \in Issuers, InProgress(j)'
      PROVE  Consistent(issuer[j], held[j])'
  BY <1>1, <1>3, <1>4, <1>5 DEF Consistent, SeesThePresent, SaysWhatWasHeld, ReadIsPresent
<1>6. IssuersConsistent'
  BY <1>5 DEF IssuersConsistent
<1>7. QED
  BY <1>2, <1>6 DEF ClaimsInv

\* A request after each of its readings
AccountRead(phase) == [Ready EXCEPT !.phase = phase, !.roles = rank]
ServicesRead(r) == [r EXCEPT !.phase = "user", !.services = Accessible]
RolesRead(r) == [r EXCEPT !.phase = "details", !.userRoles = rank]
DetailsRead(r) == [r EXCEPT !.phase = "signed",
  !.serviceRoles = [s \in Apps |-> IF s \in Accessible THEN r.userRoles ELSE {}]]
AccessesRead(r) == [r EXCEPT !.phase = "passkeySigned", !.services = AnyAccess,
  !.serviceRoles = [s \in Apps |-> IF s \in AnyAccess THEN pass[s].roles ELSE {}]]

LEMMA AccountReadFields ==
  ASSUME rank \subseteq Ranks, NEW phase \in Phase
  PROVE  /\ AccountRead(phase) \in Issuer /\ AccountRead(phase).phase = phase
         /\ AccountRead(phase).roles = rank /\ AccountRead(phase).services = {}
         /\ AccountRead(phase).userRoles = {} /\ AccountRead(phase).serviceRoles = NoRoles
BY DEF AccountRead, Ready, Issuer, NoRoles

LEMMA ServicesReadFields ==
  ASSUME NEW r \in Issuer
  PROVE  /\ ServicesRead(r) \in Issuer /\ ServicesRead(r).phase = "user"
         /\ ServicesRead(r).services = Accessible /\ ServicesRead(r).roles = r.roles
         /\ ServicesRead(r).userRoles = r.userRoles
         /\ ServicesRead(r).serviceRoles = r.serviceRoles
<1>1. Accessible \in SUBSET Apps /\ "user" \in Phase
  BY DEF Accessible, Phase
<1>2. QED
  BY <1>1 DEF ServicesRead, Issuer

LEMMA RolesReadFields ==
  ASSUME rank \subseteq Ranks, NEW r \in Issuer
  PROVE  /\ RolesRead(r) \in Issuer /\ RolesRead(r).phase = "details"
         /\ RolesRead(r).userRoles = rank /\ RolesRead(r).roles = r.roles
         /\ RolesRead(r).services = r.services
         /\ RolesRead(r).serviceRoles = r.serviceRoles
<1>1. "details" \in Phase
  BY DEF Phase
<1>2. QED
  BY <1>1 DEF RolesRead, Issuer

LEMMA DetailsReadFields ==
  ASSUME NEW r \in Issuer
  PROVE  /\ DetailsRead(r) \in Issuer /\ DetailsRead(r).phase = "signed"
         /\ DetailsRead(r).roles = r.roles /\ DetailsRead(r).services = r.services
         /\ DetailsRead(r).userRoles = r.userRoles
         /\ \A s \in Apps : DetailsRead(r).serviceRoles[s] =
                              IF s \in Accessible THEN r.userRoles ELSE {}
<1>1. PICK f : f = [s \in Apps |-> IF s \in Accessible THEN r.userRoles ELSE {}]
  OBVIOUS
<1>2. f \in [Apps -> SUBSET Ranks] /\ "signed" \in Phase
  BY <1>1 DEF Issuer, Phase
<1>3. DetailsRead(r) = [r EXCEPT !.phase = "signed", !.serviceRoles = f]
  BY <1>1 DEF DetailsRead
<1>4. QED
  BY <1>1, <1>2, <1>3 DEF Issuer

LEMMA AccessesReadFields ==
  ASSUME NEW r \in Issuer, pass \in [Apps -> Pass]
  PROVE  /\ AccessesRead(r) \in Issuer /\ AccessesRead(r).phase = "passkeySigned"
         /\ AccessesRead(r).roles = r.roles /\ AccessesRead(r).userRoles = r.userRoles
<1>1. PICK f : f = [s \in Apps |-> IF s \in AnyAccess THEN pass[s].roles ELSE {}]
  OBVIOUS
<1>2. /\ f \in [Apps -> SUBSET Ranks] /\ "passkeySigned" \in Phase
      /\ AnyAccess \in SUBSET Apps
  BY <1>1 DEF Pass, Phase, AnyAccess
<1>3. AccessesRead(r) = [r EXCEPT !.phase = "passkeySigned", !.services = AnyAccess,
                                 !.serviceRoles = f]
  BY <1>1 DEF AccessesRead
<1>4. QED
  BY <1>2, <1>3 DEF Issuer

LEMMA ReadingStep ==
  ASSUME ClaimsInv, NEW i \in Issuers,
         \/ \E phase \in Phase : ReadAccount(i, phase)
         \/ ReadServices(i) \/ ReadRoles(i) \/ ReadDetails(i) \/ ReadAccesses(i) \/ Answer(i)
  PROVE  ClaimsInv'
<1>1. /\ rank \subseteq Ranks /\ pass \in [Apps -> Pass] /\ issuer[i] \in Issuer
      /\ held \in [Issuers -> Held] /\ held[i] \in Held /\ Accessible \in SUBSET Apps
  BY DEF ClaimsInv, ClaimsTypeOK, Accessible
<1>2. InProgress(i) => Consistent(issuer[i], held[i])
  BY DEF ClaimsInv, IssuersConsistent
<1>3. held' = held => held' = [held EXCEPT ![i] = held[i]]
  BY <1>1
<1>4. ASSUME NEW phase \in Phase, ReadAccount(i, phase)
      PROVE  ClaimsInv'
  <2>1. PICK h \in Held :
          /\ h = [services |-> Accessible, roles |-> rank, changed |-> FALSE]
          /\ h.services = Accessible /\ h.roles = rank
    <3>1. PICK h : h = [services |-> Accessible, roles |-> rank, changed |-> FALSE]
      OBVIOUS
    <3>2. h \in Held /\ h.services = Accessible /\ h.roles = rank
      BY <1>1, <3>1 DEF Held
    <3>3. QED
      BY <3>1, <3>2
  <2>2. PICK q \in Issuer : q = AccountRead(phase)
    BY <1>1, AccountReadFields
  <2>3. /\ phase \in {"services", "passkey"} /\ UNCHANGED Directory
        /\ issuer' = [issuer EXCEPT ![i] = q] /\ held' = [held EXCEPT ![i] = h]
    BY <1>4, <2>1, <2>2 DEF ReadAccount, IssuerReads, AccountRead
  <2>4. /\ q.phase = phase /\ q.roles = rank /\ q.services = {} /\ q.userRoles = {}
        /\ \A s \in Apps : q.serviceRoles[s] = {}
    BY <1>1, <2>2, AccountReadFields DEF NoRoles
  <2>5. Consistent(q, h)
    BY <2>1, <2>3, <2>4 DEF Consistent, SeesThePresent, SaysWhatWasHeld, ReadIsPresent
  <2>6. QED
    BY <2>3, <2>5, IssuerStep
<1>5. ASSUME ReadServices(i)
      PROVE  ClaimsInv'
  <2>1. PICK q \in Issuer : q = ServicesRead(issuer[i])
    BY <1>1, ServicesReadFields
  <2>2. /\ issuer[i].phase = "services" /\ held' = held /\ UNCHANGED Directory
        /\ issuer' = [issuer EXCEPT ![i] = q]
    BY <1>5, <2>1 DEF ReadServices, IssuerReads, ServicesRead
  <2>3. /\ q.phase = "user" /\ q.services = Accessible /\ q.roles = issuer[i].roles
        /\ q.userRoles = issuer[i].userRoles /\ q.serviceRoles = issuer[i].serviceRoles
    BY <1>1, <2>1, ServicesReadFields
  <2>4. Consistent(q, held[i])
    BY <1>2, <2>2, <2>3 DEF InProgress, Consistent, SeesThePresent, SaysWhatWasHeld, ReadIsPresent
  <2>5. QED
    BY <1>1, <1>3, <2>2, <2>4, IssuerStep
<1>6. ASSUME ReadRoles(i)
      PROVE  ClaimsInv'
  <2>1. PICK q \in Issuer : q = RolesRead(issuer[i])
    BY <1>1, RolesReadFields
  <2>2. /\ issuer[i].phase = "user" /\ held' = held /\ UNCHANGED Directory
        /\ issuer' = [issuer EXCEPT ![i] = q]
    BY <1>6, <2>1 DEF ReadRoles, IssuerReads, RolesRead
  <2>3. /\ q.phase = "details" /\ q.services = issuer[i].services /\ q.roles = issuer[i].roles
        /\ q.userRoles = rank /\ q.serviceRoles = issuer[i].serviceRoles
    BY <1>1, <2>1, RolesReadFields
  <2>4. Consistent(q, held[i])
    BY <1>2, <2>2, <2>3 DEF InProgress, Consistent, SeesThePresent, SaysWhatWasHeld, ReadIsPresent
  <2>5. QED
    BY <1>1, <1>3, <2>2, <2>4, IssuerStep
<1>7. ASSUME ReadDetails(i)
      PROVE  ClaimsInv'
  <2>1. PICK q \in Issuer : q = DetailsRead(issuer[i])
    BY <1>1, DetailsReadFields
  <2>2. /\ issuer[i].phase = "details" /\ held' = held /\ UNCHANGED Directory
        /\ issuer' = [issuer EXCEPT ![i] = q]
    BY <1>7, <2>1 DEF ReadDetails, IssuerReads, DetailsRead
  <2>3. /\ q.phase = "signed" /\ q.services = issuer[i].services /\ q.roles = issuer[i].roles
        /\ q.userRoles = issuer[i].userRoles
        /\ \A s \in Apps : q.serviceRoles[s] = IF s \in Accessible THEN issuer[i].userRoles ELSE {}
    BY <1>1, <2>1, DetailsReadFields
  <2>4. Consistent(q, held[i])
    BY <1>2, <2>2, <2>3 DEF InProgress, Consistent, SeesThePresent, SaysWhatWasHeld, ReadIsPresent
  <2>5. QED
    BY <1>1, <1>3, <2>2, <2>4, IssuerStep
<1>8. ASSUME ReadAccesses(i)
      PROVE  ClaimsInv'
  <2>1. PICK q \in Issuer : q = AccessesRead(issuer[i])
    BY <1>1, AccessesReadFields
  <2>2. /\ issuer[i].phase = "passkey" /\ held' = held /\ UNCHANGED Directory
        /\ issuer' = [issuer EXCEPT ![i] = q]
    BY <1>8, <2>1 DEF ReadAccesses, IssuerReads, AccessesRead
  <2>3. /\ q.phase = "passkeySigned" /\ q.roles = issuer[i].roles
        /\ q.userRoles = issuer[i].userRoles
    BY <1>1, <2>1, AccessesReadFields
  <2>4. Consistent(q, held[i])
    BY <1>2, <2>2, <2>3 DEF InProgress, Consistent, SeesThePresent, ReadIsPresent
  <2>5. QED
    BY <1>1, <1>3, <2>2, <2>4, IssuerStep
<1>9. ASSUME Answer(i)
      PROVE  ClaimsInv'
  BY <1>9, ReadyFields, IssuerStep DEF Answer
<1>10. QED
  BY <1>4, <1>5, <1>6, <1>7, <1>8, <1>9

LEMMA ClaimsStep ==
  ASSUME ClaimsInv, [ClaimsNext]_claimVars
  PROVE  ClaimsInv'
<1>1. rank \subseteq Ranks /\ app \in [Apps -> BOOLEAN] /\ pass \in [Apps -> Pass]
  BY DEF ClaimsInv, ClaimsTypeOK
<1>2. ASSUME NEW roles \in SUBSET Ranks, SetRoles(roles)
      PROVE  ClaimsInv'
  BY <1>1, <1>2, DirectoryChanges DEF SetRoles
<1>3. ASSUME NEW s \in Apps, NEW row \in Pass, pass' = [pass EXCEPT ![s] = row],
             UNCHANGED <<rank, app, issuer>>, Holding
      PROVE  ClaimsInv'
  BY <1>1, <1>3, DirectoryChanges
<1>4. ASSUME NEW s \in Apps, NEW roles \in SUBSET Ranks, Grant(s, roles)
      PROVE  ClaimsInv'
  <2>1. PICK row \in Pass : row = [granted |-> TRUE, expired |-> FALSE, roles |-> roles]
    BY DEF Pass
  <2>2. QED
    BY <1>3, <1>4, <2>1 DEF Grant
<1>5. ASSUME NEW s \in Apps, Revoke(s)
      PROVE  ClaimsInv'
  <2>1. PICK row \in Pass : row = [pass[s] EXCEPT !.granted = FALSE]
    BY <1>1 DEF Pass
  <2>2. pass' = [pass EXCEPT ![s] = row]
    BY <1>5, <2>1 DEF Revoke
  <2>3. QED
    BY <1>3, <1>5, <2>2 DEF Revoke
<1>6. ASSUME NEW s \in Apps, Expires(s)
      PROVE  ClaimsInv'
  <2>1. PICK row \in Pass : row = [pass[s] EXCEPT !.expired = TRUE]
    BY <1>1 DEF Pass
  <2>2. pass' = [pass EXCEPT ![s] = row]
    BY <1>6, <2>1 DEF Expires
  <2>3. QED
    BY <1>3, <1>6, <2>2 DEF Expires
<1>7. ASSUME NEW s \in Apps, Toggle(s)
      PROVE  ClaimsInv'
  BY <1>1, <1>7, DirectoryChanges DEF Toggle
<1>8. CASE UNCHANGED claimVars
  BY <1>8 DEF claimVars, ClaimsInv, ClaimsTypeOK, IssuersConsistent, InProgress, Consistent,
    SeesThePresent, SaysWhatWasHeld, ReadIsPresent, Accessible
<1>9. QED
  BY <1>2, <1>4, <1>5, <1>6, <1>7, <1>8, ReadingStep DEF ClaimsNext

LEMMA ClaimsInvariant == ClaimsSpec => []ClaimsInv
BY ClaimsInitial, ClaimsStep, PTL DEF ClaimsSpec

\* AuthService, OidcService: an access token claims only what its owner had at
\* some moment of the request, and its claims agree unless something changed.
THEOREM ClaimsHeld == ClaimsSpec => []ClaimsWereHeld
<1>1. ClaimsInv => ClaimsWereHeld
  <2>1. ASSUME ClaimsInv, NEW i \in Issuers, issuer[i].phase = "signed"
        PROVE  /\ SaysOnlyWhatWasHeld(i)
               /\ held[i].changed \/ \A s \in Apps : issuer[i].serviceRoles[s] =
                                       IF s \in issuer[i].services THEN issuer[i].roles ELSE {}
    <3>1. Consistent(issuer[i], held[i])
      BY <2>1 DEF ClaimsInv, IssuersConsistent, InProgress
    <3>2. QED
      BY <2>1, <3>1 DEF Consistent, SaysWhatWasHeld, SaysOnlyWhatWasHeld, ReadIsPresent
  <2>2. QED
    BY <2>1 DEF ClaimsWereHeld
<1>2. QED
  BY <1>1, ClaimsInvariant, PTL

USE ApiKeysAssumption, ClientsAssumption, ForcedChangeAssumption

-----------------------------------------------------------------------------
(* ApiKeys.  A key that is stored belongs to the service that stands under  *)
(* its name, and one that is dead is off or gone.                           *)

KeysOfServices ==
  \A i \in KeyIds : key[i].state = "stored" =>
    service[key[i].service].present /\ key[i].born = service[key[i].service].born

DeadKeysAreOff ==
  \A i \in dead : key[i].state # "none" /\ (key[i].state = "stored" => ~key[i].active)

KeysInv == KeysTypeOK /\ KeysOfServices /\ DeadKeysAreOff /\ DeadKeysOpenNothing

LEMMA KeysInitial == KeysInit => KeysInv
<1>1. SomeService \in ServiceKeys
  BY DEF SomeService
<1>2. QED
  BY <1>1 DEF KeysInit, KeysInv, KeysTypeOK, ServiceRow, Key, ServiceCall, NoServiceCall,
    KeysOfServices, DeadKeysAreOff, DeadKeysOpenNothing

\* A service comes, or is switched on or off.
LEMMA ServiceStep ==
  ASSUME KeysInv, NEW s \in ServiceKeys, NEW row \in ServiceRow,
         service' = [service EXCEPT ![s] = row], UNCHANGED <<key, serviceCall, noting, dead>>,
         service[s].present => row.present /\ row.born = service[s].born
  PROVE  KeysInv'
<1> USE DEF KeysInv, KeysTypeOK
<1>1. /\ service' \in [ServiceKeys -> ServiceRow] /\ service'[s] = row
      /\ \A t \in ServiceKeys \ {s} : service'[t] = service[t]
  OBVIOUS
<1>2. KeysOfServices'
  BY <1>1 DEF KeysOfServices, Key
<1>3. QED
  BY <1>1, <1>2 DEF DeadKeysAreOff, DeadKeysOpenNothing

\* The calls move, and notes come and go.
LEMMA CallStep ==
  ASSUME KeysInv, NEW k \in ServiceCalls, NEW c \in ServiceCall,
         serviceCall' = [serviceCall EXCEPT ![k] = c],
         c.doing # "nothing" => c.good,
         noting' \subseteq KeyIds, UNCHANGED <<service, key, dead>>
  PROVE  KeysInv'
<1> USE DEF KeysInv, KeysTypeOK
<1>1. /\ serviceCall' \in [ServiceCalls -> ServiceCall] /\ serviceCall'[k] = c
      /\ \A j \in ServiceCalls \ {k} : serviceCall'[j] = serviceCall[j]
  OBVIOUS
<1>2. QED
  BY <1>1 DEF KeysOfServices, DeadKeysAreOff, DeadKeysOpenNothing

\* Keys are created, revoked or deleted.
LEMMA KeyStep ==
  ASSUME KeysInv, UNCHANGED <<serviceCall, noting>>,
         service' \in [ServiceKeys -> ServiceRow], key' \in [KeyIds -> Key],
         dead' \subseteq KeyIds, KeysOfServices', DeadKeysAreOff'
  PROVE  KeysInv'
BY DEF KeysInv, KeysTypeOK, DeadKeysOpenNothing

LEMMA DeleteServiceStep ==
  ASSUME KeysInv, NEW s \in ServiceKeys, DeleteService(s)
  PROVE  KeysInv'
<1> DEFINE gone == {i \in KeyIds : key[i].state = "stored" /\ key[i].service = s}
<1>1. /\ service' = [service EXCEPT ![s].present = FALSE] /\ dead' = dead \cup gone
      /\ key' = [i \in KeyIds |-> IF i \in gone THEN [key[i] EXCEPT !.state = "deleted"] ELSE key[i]]
      /\ UNCHANGED <<serviceCall, noting>>
      /\ service \in [ServiceKeys -> ServiceRow] /\ key \in [KeyIds -> Key] /\ dead \subseteq KeyIds
  BY DEF DeleteService, KeysInv, KeysTypeOK
<1>2. /\ service' \in [ServiceKeys -> ServiceRow]
      /\ \A t \in ServiceKeys \ {s} : service'[t] = service[t]
  BY <1>1 DEF ServiceRow
<1>3. \A i \in KeyIds : key[i] \in Key /\ key'[i] = IF i \in gone THEN [key[i] EXCEPT !.state = "deleted"] ELSE key[i]
  BY <1>1
<1>4. /\ \A i \in gone : key'[i] \in Key /\ key'[i].state = "deleted"
      /\ \A i \in KeyIds \ gone : key'[i] = key[i]
  BY <1>3 DEF Key
<1>5. key' \in [KeyIds -> Key] /\ dead' \subseteq KeyIds
  BY <1>1, <1>4
<1>6. KeysOfServices'
  <2>1. ASSUME NEW i \in KeyIds, key'[i].state = "stored"
        PROVE  /\ service'[key'[i].service].present
               /\ key'[i].born = service'[key'[i].service].born
    <3>1. i \notin gone /\ key'[i] = key[i] /\ key[i].state = "stored"
      BY <1>4, <2>1
    <3>2. key[i].service \in ServiceKeys \ {s}
      BY <1>3, <3>1 DEF Key
    <3>3. QED
      BY <1>2, <3>1, <3>2 DEF KeysInv, KeysOfServices
  <2>2. QED
    BY <2>1 DEF KeysOfServices
<1>7. DeadKeysAreOff'
  BY <1>1, <1>4 DEF KeysInv, DeadKeysAreOff
<1>8. QED
  BY <1>1, <1>2, <1>5, <1>6, <1>7, KeyStep

LEMMA KeysStep ==
  ASSUME KeysInv, [KeysNext]_keyVars
  PROVE  KeysInv'
<1> /\ service \in [ServiceKeys -> ServiceRow] /\ key \in [KeyIds -> Key]
    /\ serviceCall \in [ServiceCalls -> ServiceCall]
    /\ noting \subseteq KeyIds /\ dead \subseteq KeyIds
  BY DEF KeysInv, KeysTypeOK
<1>1. ASSUME NEW s \in ServiceKeys, NEW active \in BOOLEAN, CreateService(s, active)
      PROVE  KeysInv'
  <2>1. service[s].born \in Nat
    BY DEF ServiceRow
  <2>2. PICK n \in Nat : n = service[s].born + 1
    BY <2>1
  <2>3. PICK row \in ServiceRow : row = [present |-> TRUE, active |-> active, born |-> n]
    BY DEF ServiceRow
  <2>4. QED
    BY <1>1, <2>2, <2>3, ServiceStep DEF CreateService
<1>2. ASSUME NEW s \in ServiceKeys, ToggleService(s)
      PROVE  KeysInv'
  <2>1. PICK row \in ServiceRow :
          row = [service[s] EXCEPT !.active = ~service[s].active]
    BY DEF ServiceRow
  <2>2. row.present = service[s].present /\ row.born = service[s].born
    BY <2>1 DEF ServiceRow
  <2>3. service' = [service EXCEPT ![s] = row]
    BY <1>2, <2>1 DEF ToggleService
  <2>4. QED
    BY <1>2, <2>2, <2>3, ServiceStep DEF ToggleService
<1>3. ASSUME NEW i \in KeyIds, NEW s \in ServiceKeys, CreateApiKey(i, s)
      PROVE  KeysInv'
  <2>1. PICK row \in Key : row = [state |-> "stored", active |-> TRUE, service |-> s,
                                 born |-> service[s].born]
    BY DEF Key, ServiceRow
  <2>2. /\ key' \in [KeyIds -> Key] /\ key'[i] = row
        /\ \A j \in KeyIds \ {i} : key'[j] = key[j]
        /\ service[s].present /\ key[i].state = "none"
        /\ UNCHANGED <<service, serviceCall, noting, dead>>
    BY <1>3, <2>1 DEF CreateApiKey
  <2>3. KeysOfServices'
    BY <2>1, <2>2 DEF KeysInv, KeysOfServices
  <2>4. DeadKeysAreOff'
    BY <2>2 DEF KeysInv, DeadKeysAreOff
  <2>5. QED
    BY <2>2, <2>3, <2>4, KeyStep
<1>4. ASSUME NEW i \in KeyIds, RevokeApiKey(i)
      PROVE  KeysInv'
  <2>1. PICK row \in Key : row = [key[i] EXCEPT !.active = FALSE]
    BY DEF Key
  <2>2. /\ row.state = key[i].state /\ ~row.active
        /\ row.service = key[i].service /\ row.born = key[i].born
    BY <2>1 DEF Key
  <2>3. key' = [key EXCEPT ![i] = row]
    BY <1>4, <2>1 DEF RevokeApiKey
  <2>4. /\ key' \in [KeyIds -> Key] /\ key'[i] = row
        /\ \A j \in KeyIds \ {i} : key'[j] = key[j]
    BY <2>3
  <2>5. /\ key[i].state = "stored" /\ dead' = dead \cup {i}
        /\ UNCHANGED <<service, serviceCall, noting>>
    BY <1>4 DEF RevokeApiKey
  <2>6. KeysOfServices'
    BY <2>2, <2>4, <2>5 DEF KeysInv, KeysOfServices
  <2>7. DeadKeysAreOff'
    BY <2>2, <2>4, <2>5 DEF KeysInv, DeadKeysAreOff
  <2>8. QED
    BY <2>4, <2>5, <2>6, <2>7, KeyStep
<1>5. ASSUME NEW k \in ServiceCalls, NEW i \in KeyIds, Admit(k, i)
      PROVE  KeysInv'
  <2>1. PICK c \in ServiceCall :
          c = [doing |-> "admitted", service |-> key[i].service,
               good |-> /\ i \notin dead /\ service[key[i].service].present
                        /\ service[key[i].service].born = key[i].born]
    BY DEF ServiceCall, Key
  <2>2. key[i].state = "stored" /\ key[i].active
    BY <1>5 DEF Admit
  <2>3. c.good
    BY <2>1, <2>2 DEF KeysInv, KeysOfServices, DeadKeysAreOff
  <2>4. QED
    BY <1>5, <2>1, <2>3, CallStep DEF Admit
<1>6. ASSUME NEW k \in ServiceCalls,
             NEW what \in {"reading", "writing", "login"}, Does(k, what)
      PROVE  KeysInv'
  <2>1. PICK c \in ServiceCall : c = [serviceCall[k] EXCEPT !.doing = what]
    BY DEF ServiceCall
  <2>2. c.good = serviceCall[k].good
    BY <2>1 DEF ServiceCall
  <2>3. serviceCall' = [serviceCall EXCEPT ![k] = c]
    BY <1>6, <2>1 DEF Does
  <2>4. serviceCall[k].good
    BY <1>6 DEF Does, KeysInv, DeadKeysOpenNothing
  <2>5. QED
    BY <1>6, <2>2, <2>3, <2>4, CallStep DEF Does
<1>7. ASSUME NEW k \in ServiceCalls, EndServiceCall(k)
      PROVE  KeysInv'
  <2>1. NoServiceCall.doing = "nothing"
    BY DEF NoServiceCall
  <2>2. NoServiceCall \in ServiceCall
    BY DEF NoServiceCall, ServiceCall, SomeService
  <2>3. QED
    BY <1>7, <2>1, <2>2, CallStep DEF EndServiceCall
<1>8. ASSUME NEW i \in KeyIds, NoteUse(i)
      PROVE  KeysInv'
  BY <1>8 DEF NoteUse, KeysInv, KeysTypeOK, KeysOfServices, DeadKeysAreOff, DeadKeysOpenNothing
<1>9. CASE UNCHANGED keyVars
  BY <1>9 DEF keyVars, KeysInv, KeysTypeOK, KeysOfServices, DeadKeysAreOff, DeadKeysOpenNothing
<1>10. QED
  BY <1>1, <1>2, <1>3, <1>4, <1>5, <1>6, <1>7, <1>8, <1>9, DeleteServiceStep
  DEF KeysNext, ReadPadron, WritePadron, ServiceLogin

LEMMA KeysInvariant == KeysSpec => []KeysInv
<1>1. KeysInv /\ [KeysNext]_keyVars => KeysInv'
  BY KeysStep
<1>2. QED
  BY <1>1, KeysInitial, PTL DEF KeysSpec

\* A key revoked, or of a service deleted, lets no call through from then on
\* (ApiKeyGuard), whatever notes of its use land late.
THEOREM DeadKeys == KeysSpec => []DeadKeysOpenNothing
BY KeysInvariant, PTL DEF KeysInv

-----------------------------------------------------------------------------
(* Clients.  A code that is open or was consumed has its client, and the    *)
(* call that shows it read the registration of the client that stands       *)
(* still, unless the client and the code are gone.                          *)

CodesHaveClients ==
  \A x \in CodeIds : code[x].state \in {"open", "consumed"} => client[code[x].client].present

Exchanges == {"read", "consumed", "opened"}

CallReadsClient(g) ==
  /\ code[grant[g].code].state \in {"open", "consumed", "deleted"}
  /\ code[grant[g].code].client = grant[g].client
  /\ \/ code[grant[g].code].state = "deleted"
     \/ client[grant[g].client].born = grant[g].read

CallsReadClients == \A g \in Grants : grant[g].phase \in Exchanges => CallReadsClient(g)

PresentAreBorn == \A c \in ClientIds : client[c].present => client[c].born # 0

ClientsInv ==
  /\ ClientsTypeOK
  /\ PresentAreBorn /\ CodesHaveClients /\ CallsReadClients
  /\ RemovalEndsExchanges /\ OnlySeedSecretReturns

Validated(c) == [Idle EXCEPT !.phase = "validated", !.client = c]
Renewing(c) == [Idle EXCEPT !.phase = "renewing", !.client = c]
Reading(c, x, b) == [Idle EXCEPT !.phase = "read", !.client = c, !.code = x, !.read = b]
Moved(n, phase) == [n EXCEPT !.phase = phase]
Granted(n, b) == [n EXCEPT !.phase = "granted", !.last = b]

\* The records a call goes through.
LEMMA CallRecords ==
  /\ Idle \in TokenCall /\ Idle.phase = "idle"
  /\ \A c \in ClientIds : /\ Validated(c) \in TokenCall /\ Validated(c).phase = "validated"
                          /\ Renewing(c) \in TokenCall /\ Renewing(c).phase = "renewing"
BY DEF Idle, Validated, Renewing, TokenCall, GrantPhase

LEMMA ReadingCall ==
  ASSUME NEW c \in ClientIds, NEW x \in CodeIds, NEW b \in Nat
  PROVE  /\ Reading(c, x, b) \in TokenCall /\ Reading(c, x, b).phase = "read"
         /\ Reading(c, x, b).client = c /\ Reading(c, x, b).code = x /\ Reading(c, x, b).read = b
BY DEF Idle, Reading, TokenCall, GrantPhase

LEMMA MovedCall ==
  ASSUME NEW n \in TokenCall, NEW phase \in GrantPhase
  PROVE  /\ Moved(n, phase) \in TokenCall /\ Moved(n, phase).phase = phase
         /\ Moved(n, phase).client = n.client /\ Moved(n, phase).code = n.code
         /\ Moved(n, phase).read = n.read
BY DEF Moved, TokenCall

LEMMA GrantedCall ==
  ASSUME NEW n \in TokenCall, NEW b \in Nat
  PROVE  /\ Granted(n, b) \in TokenCall /\ Granted(n, b).phase = "granted"
         /\ Granted(n, b).last = b /\ Granted(n, b).read = n.read
BY DEF Granted, TokenCall, GrantPhase

LEMMA ClientsInitial == ClientsInit => ClientsInv
<1>1. SUFFICES ASSUME ClientsInit
               PROVE  ClientsInv
  OBVIOUS
<1>2. /\ client \in [ClientIds -> Client]
      /\ \A c \in ClientIds : ~client[c].present
  <2>1. 0 \in NoClientSecret .. MaxClientSecrets
    BY DEF NoClientSecret
  <2>2. QED
    BY <1>1, <2>1 DEF ClientsInit, Absent, Client, NoClientSecret
<1>3. /\ code \in [CodeIds -> Code]
      /\ \A x \in CodeIds : code[x].state = "none"
  BY <1>1 DEF ClientsInit, NoCode, Code
<1>4. /\ grant \in [Grants -> TokenCall]
      /\ \A g \in Grants : grant[g].phase = "idle"
  BY <1>1, CallRecords DEF ClientsInit
<1>5. /\ generated \in 1 .. MaxClientSecrets
      /\ newest \in [ClientIds -> NoClientSecret .. MaxClientSecrets]
  BY <1>1 DEF ClientsInit, SeedSecret, NoClientSecret
<1>6. QED
  BY <1>2, <1>3, <1>4, <1>5 DEF ClientsInv, ClientsTypeOK, PresentAreBorn, CodesHaveClients,
    CallsReadClients, Exchanges, RemovalEndsExchanges, OnlySeedSecretReturns

\* A row is stored that is of the registration that stands, or of the first one
\* after it was removed.
LEMMA RegisterStep ==
  ASSUME ClientsInv, NEW c \in ClientIds, NEW row \in Client,
         client' = [client EXCEPT ![c] = row], UNCHANGED <<code, grant>>,
         generated' \in 1 .. MaxClientSecrets,
         newest' \in [ClientIds -> NoClientSecret .. MaxClientSecrets],
         \A d \in ClientIds \ {c} : newest'[d] = newest[d],
         row.present, row.born # 0,
         client[c].present => row.born = client[c].born,
         row.secret = newest'[c] \/ (c \in SeedClients /\ row.secret = SeedSecret)
  PROVE  ClientsInv'
<1>1. /\ client \in [ClientIds -> Client] /\ code \in [CodeIds -> Code]
      /\ grant \in [Grants -> TokenCall]
  BY DEF ClientsInv, ClientsTypeOK
<1>2. /\ client' \in [ClientIds -> Client] /\ client'[c] = row
      /\ \A d \in ClientIds \ {c} : client'[d] = client[d]
  BY <1>1
<1>3. ClientsTypeOK'
  BY <1>1, <1>2 DEF ClientsInv, ClientsTypeOK
<1>4. PresentAreBorn' /\ CodesHaveClients'
  BY <1>1, <1>2 DEF ClientsInv, PresentAreBorn, CodesHaveClients, Code
<1>5. CallsReadClients'
  <2>1. ASSUME NEW g \in Grants, grant[g].phase \in Exchanges
        PROVE  CallReadsClient(g)'
    <3>1. CallReadsClient(g) /\ grant[g].code \in CodeIds /\ grant[g].client \in ClientIds
      BY <1>1, <2>1 DEF ClientsInv, CallsReadClients, TokenCall
    <3>2. CASE code[grant[g].code].state = "deleted"
      BY <3>1, <3>2 DEF CallReadsClient
    <3>3. CASE code[grant[g].code].state # "deleted"
      <4>1. /\ client[grant[g].client].present
            /\ client[grant[g].client].born = grant[g].read
        BY <3>1, <3>3 DEF CallReadsClient, ClientsInv, CodesHaveClients
      <4>2. client'[grant[g].client].born = grant[g].read
        BY <1>2, <3>1, <4>1
      <4>3. QED
        BY <3>1, <4>2 DEF CallReadsClient
    <3>4. QED
      BY <3>2, <3>3
  <2>2. QED
    BY <2>1 DEF CallsReadClients
<1>6. RemovalEndsExchanges'
  BY DEF ClientsInv, RemovalEndsExchanges
<1>7. OnlySeedSecretReturns'
  BY <1>2 DEF ClientsInv, OnlySeedSecretReturns
<1>8. QED
  BY <1>3, <1>4, <1>5, <1>6, <1>7 DEF ClientsInv

\* The codes of a client go with it.
LEMMA RemoveStep ==
  ASSUME ClientsInv, NEW c \in ClientIds, RemoveClient(c)
  PROVE  ClientsInv'
<1>1. /\ client \in [ClientIds -> Client] /\ code \in [CodeIds -> Code]
      /\ grant \in [Grants -> TokenCall] /\ UNCHANGED <<grant, generated, newest>>
  BY DEF RemoveClient, ClientsInv, ClientsTypeOK
<1>2. PICK row \in Client : row = [Absent EXCEPT !.born = client[c].born]
  <2>1. PICK b \in Nat : b = client[c].born
    BY <1>1 DEF Client
  <2>2. 0 \in NoClientSecret .. MaxClientSecrets
    BY DEF NoClientSecret
  <2>3. [Absent EXCEPT !.born = b] \in Client
    BY <2>2 DEF Absent, Client, NoClientSecret
  <2>4. QED
    BY <2>1, <2>3
<1>3. ~row.present /\ row.born = client[c].born
  BY <1>2 DEF Absent
<1>4. /\ client' \in [ClientIds -> Client] /\ client'[c] = row
      /\ \A d \in ClientIds \ {c} : client'[d] = client[d]
  BY <1>1, <1>2 DEF RemoveClient
<1>5. \A x \in CodeIds : code'[x] = IF code[x].state # "none" /\ code[x].client = c
                                    THEN [code[x] EXCEPT !.state = "deleted"] ELSE code[x]
  BY DEF RemoveClient
<1>6. /\ code' \in [CodeIds -> Code]
      /\ \A x \in CodeIds :
           /\ code'[x].client = code[x].client
           /\ code[x].state # "none" /\ code[x].client = c => code'[x].state = "deleted"
           /\ code[x].state = "none" \/ code[x].client # c => code'[x].state = code[x].state
  <2>1. \A x \in CodeIds : /\ code'[x] \in Code /\ code'[x].client = code[x].client
                           /\ code[x].state # "none" /\ code[x].client = c => code'[x].state = "deleted"
                           /\ code[x].state = "none" \/ code[x].client # c => code'[x].state = code[x].state
    BY <1>1, <1>5 DEF Code
  <2>2. QED
    BY <2>1 DEF RemoveClient
<1>7. ClientsTypeOK'
  BY <1>1, <1>4, <1>6 DEF ClientsInv, ClientsTypeOK
<1>8. PresentAreBorn'
  BY <1>3, <1>4 DEF ClientsInv, PresentAreBorn
<1>9. CodesHaveClients'
  BY <1>1, <1>4, <1>6 DEF ClientsInv, CodesHaveClients, Code
<1>10. CallsReadClients'
  <2>1. ASSUME NEW g \in Grants, grant[g].phase \in Exchanges
        PROVE  CallReadsClient(g)'
    <3>1. CallReadsClient(g) /\ grant[g].code \in CodeIds /\ grant[g].client \in ClientIds
      BY <1>1, <2>1 DEF ClientsInv, CallsReadClients, TokenCall
    <3>2. client'[grant[g].client].born = client[grant[g].client].born
      BY <1>3, <1>4, <3>1
    <3>3. QED
      BY <1>1, <1>6, <3>1, <3>2 DEF CallReadsClient
  <2>2. QED
    BY <1>1, <2>1 DEF CallsReadClients
<1>11. RemovalEndsExchanges'
  BY <1>1 DEF ClientsInv, RemovalEndsExchanges
<1>12. OnlySeedSecretReturns'
  BY <1>1, <1>3, <1>4 DEF ClientsInv, OnlySeedSecretReturns
<1>13. QED
  BY <1>7, <1>8, <1>9, <1>10, <1>11, <1>12 DEF ClientsInv

\* A call moves, and at most writes its code.
LEMMA GrantStep ==
  ASSUME ClientsInv, NEW g \in Grants, NEW n \in TokenCall, NEW x \in CodeIds, NEW v \in Code,
         grant' = [grant EXCEPT ![g] = n], code' = [code EXCEPT ![x] = v],
         UNCHANGED <<client, generated, newest>>,
         v.state \in {"open", "consumed"} => client[v.client].present,
         code[x].state # "none" => v.client = code[x].client,
         v.state = code[x].state \/ v.state \in {"open", "consumed"},
         code[x].state = "deleted" => v.state = "deleted",
         n.phase \in Exchanges => CallReadsClient(g)',
         n.phase = "granted" => n.last = n.read
  PROVE  ClientsInv'
<1>1. /\ client \in [ClientIds -> Client] /\ code \in [CodeIds -> Code]
      /\ grant \in [Grants -> TokenCall]
  BY DEF ClientsInv, ClientsTypeOK
<1>2. /\ code' \in [CodeIds -> Code] /\ code'[x] = v
      /\ \A y \in CodeIds \ {x} : code'[y] = code[y]
      /\ grant' \in [Grants -> TokenCall] /\ grant'[g] = n
      /\ \A h \in Grants \ {g} : grant'[h] = grant[h]
  BY <1>1
<1>3. ClientsTypeOK'
  BY <1>1, <1>2 DEF ClientsInv, ClientsTypeOK
<1>4. PresentAreBorn' /\ OnlySeedSecretReturns'
  BY DEF ClientsInv, PresentAreBorn, OnlySeedSecretReturns
<1>5. CodesHaveClients'
  BY <1>2 DEF ClientsInv, CodesHaveClients
<1>6. CallsReadClients'
  <2>1. ASSUME NEW h \in Grants \ {g}, grant[h].phase \in Exchanges
        PROVE  CallReadsClient(h)'
    <3>1. CallReadsClient(h) /\ grant[h].code \in CodeIds /\ grant'[h] = grant[h]
      BY <1>1, <1>2, <2>1 DEF ClientsInv, CallsReadClients, TokenCall
    <3>2. CASE grant[h].code = x
      BY <1>2, <3>1, <3>2 DEF CallReadsClient
    <3>3. CASE grant[h].code # x
      BY <1>2, <3>1, <3>3 DEF CallReadsClient
    <3>4. QED
      BY <3>2, <3>3
  <2>2. QED
    BY <1>2, <2>1 DEF CallsReadClients
<1>7. RemovalEndsExchanges'
  BY <1>2 DEF ClientsInv, RemovalEndsExchanges
<1>8. QED
  BY <1>3, <1>4, <1>5, <1>6, <1>7 DEF ClientsInv

\* A call moves and leaves the codes alone.
LEMMA GrantOnlyStep ==
  ASSUME ClientsInv, NEW g \in Grants, NEW n \in TokenCall,
         grant' = [grant EXCEPT ![g] = n], UNCHANGED <<client, code, generated, newest>>,
         n.phase \in Exchanges => CallReadsClient(g)',
         n.phase = "granted" => n.last = n.read
  PROVE  ClientsInv'
<1>1. PICK x \in CodeIds : code[x] \in Code /\ code \in [CodeIds -> Code]
  BY DEF ClientsInv, ClientsTypeOK
<1>2. code' = [code EXCEPT ![x] = code[x]]
  BY <1>1
<1>3. code[x].state \in {"open", "consumed"} => client[code[x].client].present
  BY DEF ClientsInv, CodesHaveClients
<1>4. QED
  BY <1>1, <1>2, <1>3, GrantStep

-----------------------------------------------------------------------------
LEMMA ClientsStep ==
  ASSUME ClientsInv, [ClientsNext]_clientVars
  PROVE  ClientsInv'
<1>0. /\ client \in [ClientIds -> Client] /\ code \in [CodeIds -> Code]
      /\ grant \in [Grants -> TokenCall] /\ generated \in 1 .. MaxClientSecrets
      /\ newest \in [ClientIds -> NoClientSecret .. MaxClientSecrets]
  BY DEF ClientsInv, ClientsTypeOK
<1>1. ASSUME NEW c \in ClientIds, NEW confidential \in BOOLEAN, CreateClient(c, confidential)
      PROVE  ClientsInv'
  <2>1. /\ client[c].born = 0 /\ ~client[c].present
        /\ UNCHANGED <<code, grant>>
    <3>1. PICK n \in Nat : n = client[c].born
      BY <1>0 DEF Client
    <3>2. n + 1 = 1
      BY <1>1, <3>1 DEF CreateClient, Births
    <3>3. n = 0
      BY <3>2
    <3>4. UNCHANGED <<code, grant>>
      BY <1>1 DEF CreateClient, Stores
    <3>5. QED
      BY <3>1, <3>3, <3>4 DEF ClientsInv, PresentAreBorn
  <2>2. generated' \in 1 .. MaxClientSecrets
    BY <1>0, <1>1 DEF CreateClient
  <2>3. PICK secret \in NoClientSecret .. MaxClientSecrets :
          secret = IF confidential THEN generated' ELSE NoClientSecret
    BY <2>2 DEF NoClientSecret
  <2>4. PICK accepts \in BOOLEAN, row \in Client :
          /\ row = [present |-> TRUE, accepts |-> accepts, confidential |-> confidential,
                    secret |-> secret, born |-> 1]
          /\ Stores(c, row)
    <3>1. Births(c) = 1
      BY <1>1 DEF CreateClient
    <3>2. PICK accepts \in BOOLEAN :
            Stores(c, [present |-> TRUE, accepts |-> accepts, confidential |-> confidential,
                       secret |-> secret, born |-> 1])
      BY <1>1, <2>3, <3>1 DEF CreateClient
    <3>3. QED
      BY <3>2 DEF Client
  <2>5. row.present /\ row.born = 1 /\ row.secret = secret
    BY <2>4
  <2>6. QED
    <3>1. client' = [client EXCEPT ![c] = row] /\ newest' = [newest EXCEPT ![c] = row.secret]
      BY <2>4 DEF Stores
    <3>2. /\ newest' \in [ClientIds -> NoClientSecret .. MaxClientSecrets]
          /\ newest'[c] = row.secret /\ \A d \in ClientIds \ {c} : newest'[d] = newest[d]
      BY <1>0, <2>5, <3>1
    <3>3. row.born # 0
      BY <2>5
    <3>4. QED
      BY <2>1, <2>2, <2>5, <3>1, <3>2, <3>3, RegisterStep
<1>2. ASSUME NEW c \in ClientIds, NEW accepts \in BOOLEAN, UpdateClient(c, accepts)
      PROVE  ClientsInv'
  <2>1. PICK row \in Client : row = [client[c] EXCEPT !.accepts = accepts]
    BY <1>0 DEF Client
  <2>2. /\ row.present = client[c].present /\ row.born = client[c].born
        /\ row.secret = client[c].secret
    BY <1>0, <2>1 DEF Client
  <2>3. client' = [client EXCEPT ![c] = row]
    BY <1>0, <1>2, <2>1 DEF UpdateClient
  <2>4. client[c].present /\ UNCHANGED <<code, grant, generated, newest>>
    BY <1>2 DEF UpdateClient
  <2>5. /\ row.born # 0
        /\ row.secret = newest[c] \/ (c \in SeedClients /\ row.secret = SeedSecret)
    BY <2>2, <2>4 DEF ClientsInv, PresentAreBorn, OnlySeedSecretReturns
  <2>6. QED
    BY <1>0, <2>2, <2>3, <2>4, <2>5, RegisterStep
<1>3. ASSUME NEW c \in ClientIds, RotateSecret(c)
      PROVE  ClientsInv'
  <2>1. /\ client[c].present /\ generated' \in 1 .. MaxClientSecrets
        /\ generated' \in NoClientSecret .. MaxClientSecrets
    BY <1>0, <1>3 DEF RotateSecret, NoClientSecret
  <2>2. PICK row \in Client :
          row = [client[c] EXCEPT !.secret = generated', !.confidential = TRUE]
    BY <1>0, <2>1 DEF Client
  <2>3. /\ row.present = client[c].present /\ row.born = client[c].born
    BY <1>0, <2>2 DEF Client
  <2>4. Stores(c, row)
    BY <1>3, <2>2 DEF RotateSecret
  <2>5. row.secret \in NoClientSecret .. MaxClientSecrets
    BY DEF Client
  <2>6. QED
    BY <1>0, <2>1, <2>3, <2>4, <2>5, RegisterStep DEF Stores, ClientsInv, PresentAreBorn
<1>4. ASSUME NEW c \in ClientIds, SeedUpdate(c)
      PROVE  ClientsInv'
  <2>1. SeedSecret \in NoClientSecret .. MaxClientSecrets
    BY DEF SeedSecret, NoClientSecret
  <2>2. PICK row \in Client : row = [client[c] EXCEPT !.secret = SeedSecret, !.accepts = TRUE]
    BY <1>0, <2>1 DEF Client
  <2>3. /\ row.present = client[c].present /\ row.born = client[c].born
        /\ row.secret = SeedSecret
    BY <1>0, <2>2 DEF Client
  <2>4. client' = [client EXCEPT ![c] = row]
    BY <1>0, <1>4, <2>2 DEF SeedUpdate
  <2>5. /\ c \in SeedClients /\ client[c].present
        /\ UNCHANGED <<code, grant, generated, newest>>
    BY <1>4 DEF SeedUpdate
  <2>6. QED
    BY <1>0, <2>3, <2>4, <2>5, RegisterStep DEF ClientsInv, PresentAreBorn
<1>5. ASSUME NEW c \in ClientIds, SeedCreate(c)
      PROVE  ClientsInv'
  <2>1. SeedSecret \in NoClientSecret .. MaxClientSecrets
    BY DEF SeedSecret, NoClientSecret
  <2>2. PICK b \in Nat : b = Births(c) /\ b # 0
    BY <1>0 DEF Births, Client
  <2>3. PICK row \in Client : row = [present |-> TRUE, accepts |-> TRUE, confidential |-> TRUE,
                                    secret |-> SeedSecret, born |-> b]
    BY <2>1 DEF Client
  <2>4. row.present /\ row.born # 0 /\ row.secret = SeedSecret
    BY <2>2, <2>3
  <2>5. /\ ~client[c].present /\ Stores(c, row) /\ generated' = generated
        /\ c \in SeedClients
    BY <1>5, <2>2, <2>3 DEF SeedCreate
  <2>6. QED
    BY <1>0, <2>1, <2>4, <2>5, RegisterStep DEF Stores
<1>6. ASSUME NEW g \in Grants, NEW c \in ClientIds, NEW n \in {Idle, Validated(c), Renewing(c)},
             CallGoes(g, n), UNCHANGED code
      PROVE  ClientsInv'
  <2>1. n \in TokenCall /\ n.phase \in {"idle", "validated", "renewing"}
    BY CallRecords
  <2>2. QED
    BY <1>6, <2>1, GrantOnlyStep DEF CallGoes, Exchanges
<1>7. ASSUME NEW g \in Grants, NEW x \in CodeIds, IssueCode(g, x)
      PROVE  ClientsInv'
  <2>1. grant[g].client \in ClientIds
    BY <1>0 DEF TokenCall
  <2>2. PICK v \in Code : v = [state |-> "open", client |-> grant[g].client]
    BY <2>1 DEF Code
  <2>3. QED
    BY <1>7, <2>2, CallRecords, GrantStep DEF IssueCode, CallGoes, Exchanges
<1>8. ASSUME NEW g \in Grants, NEW x \in CodeIds, NEW secret, ReadClientOfCode(g, x, secret)
      PROVE  ClientsInv'
  <2> DEFINE c == code[x].client
  <2>1. code[x].state = "open" /\ c \in ClientIds /\ client[c].born \in Nat
    BY <1>0, <1>8 DEF ReadClientOfCode, Code, Client
  <2>2. PICK n \in TokenCall :
          /\ n = Reading(c, x, client[c].born)
          /\ n.phase = "read" /\ n.client = c /\ n.code = x /\ n.read = client[c].born
    BY <2>1, ReadingCall
  <2>3. /\ grant' = [grant EXCEPT ![g] = n]
        /\ UNCHANGED <<client, code, generated, newest>>
    BY <1>8, <2>2 DEF ReadClientOfCode, CallGoes, Reading
  <2>4. grant'[g] = n
    BY <1>0, <2>3
  <2>5. CallReadsClient(g)'
    BY <2>1, <2>2, <2>3, <2>4 DEF CallReadsClient
  <2>6. QED
    BY <2>2, <2>3, <2>5, GrantOnlyStep
<1>9. ASSUME NEW g \in Grants, ConsumeCode(g)
      PROVE  ClientsInv'
  <2>1. /\ grant[g] \in TokenCall /\ grant[g].phase = "read" /\ grant[g].code \in CodeIds
        /\ CallReadsClient(g)
    BY <1>0, <1>9 DEF ConsumeCode, TokenCall, ClientsInv, CallsReadClients, Exchanges
  <2>2. PICK x \in CodeIds : x = grant[g].code /\ code[x].state = "open"
    BY <1>9, <2>1 DEF ConsumeCode
  <2>3. PICK v \in Code : /\ v = [code[x] EXCEPT !.state = "consumed"]
                         /\ v.state = "consumed" /\ v.client = code[x].client
    <3>1. code[x] \in Code
      BY <1>0
    <3>2. \A y \in Code : LET u == [y EXCEPT !.state = "consumed"] IN
            u \in Code /\ u.state = "consumed" /\ u.client = y.client
      BY DEF Code
    <3>3. QED
      BY <3>1, <3>2, Zenon
  <2>4. "consumed" \in GrantPhase
    BY DEF GrantPhase
  <2>5. PICK n \in TokenCall : /\ n = Moved(grant[g], "consumed") /\ n.phase = "consumed"
                              /\ n.client = grant[g].client /\ n.code = x
                              /\ n.read = grant[g].read
    BY <2>1, <2>2, <2>4, MovedCall
  <2>6. code' = [code EXCEPT ![x] = v]
    BY <1>0, <1>9, <2>2, <2>3 DEF ConsumeCode
  <2>7. grant' = [grant EXCEPT ![g] = n] /\ UNCHANGED <<client, generated, newest>>
    BY <1>9, <2>5 DEF ConsumeCode, CallGoes, Moved
  <2>8. grant'[g] = n /\ code'[x] = v
    BY <1>0, <2>6, <2>7
  <2>9. CallReadsClient(g)'
    <3>1. /\ code[x].client = grant[g].client
          /\ client[grant[g].client].born = grant[g].read
      BY <2>1, <2>2 DEF CallReadsClient
    <3>2. /\ grant'[g].code = x /\ grant'[g].client = grant[g].client
          /\ grant'[g].read = grant[g].read
          /\ code'[x].state = "consumed" /\ code'[x].client = code[x].client
      BY <2>3, <2>5, <2>8
    <3>3. QED
      BY <2>7, <3>1, <3>2 DEF CallReadsClient
  <2>10. client[v.client].present
    BY <2>2, <2>3 DEF ClientsInv, CodesHaveClients
  <2>11. QED
    BY <2>2, <2>3, <2>5, <2>6, <2>7, <2>9, <2>10, GrantStep
<1>10. ASSUME NEW g \in Grants, OpenCodeSession(g)
       PROVE  ClientsInv'
  <2>1. /\ grant[g] \in TokenCall /\ grant[g].phase = "consumed"
        /\ CallReadsClient(g)
    BY <1>0, <1>10 DEF OpenCodeSession, ClientsInv, CallsReadClients, Exchanges
  <2>2. "opened" \in GrantPhase
    BY DEF GrantPhase
  <2>3. PICK n \in TokenCall : /\ n = Moved(grant[g], "opened") /\ n.phase = "opened"
                              /\ n.client = grant[g].client /\ n.code = grant[g].code
                              /\ n.read = grant[g].read
    BY <2>1, <2>2, MovedCall
  <2>4. grant' = [grant EXCEPT ![g] = n] /\ UNCHANGED <<client, code, generated, newest>>
    BY <1>10, <2>3 DEF OpenCodeSession, CallGoes, Moved
  <2>5. grant'[g] = n
    BY <1>0, <2>4
  <2>6. CallReadsClient(g)'
    BY <2>1, <2>3, <2>4, <2>5 DEF CallReadsClient
  <2>7. QED
    BY <2>3, <2>4, <2>6, GrantOnlyStep
<1>11. ASSUME NEW g \in Grants, HandOutTokens(g)
       PROVE  ClientsInv'
  <2>1. /\ grant[g] \in TokenCall /\ grant[g].phase = "opened"
        /\ grant[g].code \in CodeIds
        /\ code[grant[g].code].state = "consumed" /\ CallReadsClient(g)
    BY <1>0, <1>11 DEF HandOutTokens, TokenCall, ClientsInv, CallsReadClients, Exchanges
  <2>2. client[grant[g].client].present /\ client[grant[g].client].born = grant[g].read
    BY <2>1 DEF CallReadsClient, ClientsInv, CodesHaveClients
  <2>3. grant[g].read \in Nat
    BY <2>1 DEF TokenCall
  <2>4. PICK n \in TokenCall : /\ n = Granted(grant[g], grant[g].read) /\ n.phase = "granted"
                              /\ n.last = grant[g].read /\ n.read = grant[g].read
    <3>1. PICK q \in TokenCall, b \in Nat : q = grant[g] /\ b = grant[g].read
      BY <2>1, <2>3
    <3>2. /\ Granted(q, b) \in TokenCall /\ Granted(q, b).phase = "granted"
          /\ Granted(q, b).last = b /\ Granted(q, b).read = q.read
      BY GrantedCall
    <3>3. QED
      BY <3>1, <3>2
  <2>5. grant' = [grant EXCEPT ![g] = n] /\ UNCHANGED <<client, code, generated, newest>>
    BY <1>11, <2>2, <2>4 DEF HandOutTokens, CallGoes, Granted
  <2>6. QED
    BY <2>4, <2>5, GrantOnlyStep DEF Exchanges
<1>12. CASE UNCHANGED clientVars
  BY <1>12 DEF clientVars, ClientsInv, ClientsTypeOK, PresentAreBorn, CodesHaveClients,
    CallsReadClients, CallReadsClient, RemovalEndsExchanges, OnlySeedSecretReturns
<1>13. ASSUME NEW g \in Grants, NEW c \in ClientIds,
              \/ ValidateClient(g, c) \/ SendBack(g) \/ EndCall(g)
              \/ \E secret \in NoClientSecret .. generated : AuthenticateRefresh(g, c, secret)
       PROVE  ClientsInv'
  <2>1. PICK n \in {Idle, Validated(c), Renewing(c)} : CallGoes(g, n) /\ UNCHANGED code
    BY <1>13 DEF ValidateClient, SendBack, EndCall, AuthenticateRefresh, Validated, Renewing
  <2>2. QED
    BY <1>6, <2>1
<1>14. QED
  BY <1>1, <1>2, <1>3, <1>4, <1>5, <1>7, <1>8, <1>9, <1>10, <1>11, <1>12, <1>13, RemoveStep
  DEF ClientsNext

LEMMA ClientsInvariant == ClientsSpec => []ClientsInv
<1>1. ClientsInv /\ [ClientsNext]_clientVars => ClientsInv'
  BY ClientsStep
<1>2. QED
  BY <1>1, ClientsInitial, PTL DEF ClientsSpec

\* The exchanges of a client's codes end when it is removed, in flight or not
\* (ClientsService.remove, OidcService.exchangeAuthorizationCode).
THEOREM RemovalEnds == ClientsSpec => []RemovalEndsExchanges
BY ClientsInvariant, PTL DEF ClientsInv

\* A secret that rotateSecret replaced comes back by the seed alone.
THEOREM SecretReturns == ClientsSpec => []OnlySeedSecretReturns
BY ClientsInvariant, PTL DEF ClientsInv

-----------------------------------------------------------------------------
(* ForcedChange.  What the script holds: the temporaries in the rows of a   *)
(* run and in the accounts were made, a run that is idle holds none, an     *)
(* unmarked account has a password of its owner's, and a run that skips     *)
(* marked accounts works on one whose password nobody had been handed.      *)

HoldsMade ==
  /\ \A a \in Affected : owner[a].password <= made
  /\ \A r \in Runs : /\ run[r].rows \subseteq 1 .. made
                     /\ run[r].seen \in handed \cup {Other}
                     /\ run[r].phase = "idle" => run[r].rows = {}

MarkedHoldTemporaries ==
  /\ \A a \in Affected : ~owner[a].marked => owner[a].password = Other
  /\ \A r \in Runs : run[r].phase = "hashing" /\ ~run[r].including => run[r].seen = Other

ForcedInv == ForcedTypeOK /\ HoldsMade /\ MarkedHoldTemporaries /\ StrandedOnlyByStop

LEMMA WaitingRun ==
  /\ Waiting \in Run
  /\ Waiting.phase = "idle" /\ ~Waiting.including /\ Waiting.seen = Other
  /\ Waiting.rows = {}
  /\ \A including \in BOOLEAN :
       LET q == [Waiting EXCEPT !.phase = "looking", !.including = including,
                                !.left = Affected] IN
       q \in Run /\ q.phase = "looking" /\ q.seen = Other /\ q.rows = {}
BY DEF Waiting, Run, Temporaries, Other

\* The records a run goes through, named so that their fields need be looked
\* up only once.
Skipped(q, S) == [q EXCEPT !.left = S]
Hashing(q, a, t) == [q EXCEPT !.phase = "hashing", !.account = a, !.seen = t]
Replaced(q, S, R) == [q EXCEPT !.phase = "looking", !.left = S, !.rows = R]

LEMMA SkippedRun ==
  ASSUME NEW q \in Run, NEW S \in SUBSET Affected
  PROVE  /\ Skipped(q, S) \in Run
         /\ Skipped(q, S).phase = q.phase /\ Skipped(q, S).including = q.including
         /\ Skipped(q, S).seen = q.seen /\ Skipped(q, S).rows = q.rows
BY DEF Run, Skipped

LEMMA HashingRun ==
  ASSUME NEW q \in Run, NEW a \in Affected, NEW t \in Temporaries \cup {Other}
  PROVE  /\ Hashing(q, a, t) \in Run
         /\ Hashing(q, a, t).phase = "hashing" /\ Hashing(q, a, t).including = q.including
         /\ Hashing(q, a, t).seen = t /\ Hashing(q, a, t).rows = q.rows
BY DEF Run, Hashing

LEMMA ReplacedRun ==
  ASSUME NEW q \in Run, NEW S \in SUBSET Affected, NEW R \in SUBSET Temporaries
  PROVE  /\ Replaced(q, S, R) \in Run
         /\ Replaced(q, S, R).phase = "looking" /\ Replaced(q, S, R).including = q.including
         /\ Replaced(q, S, R).seen = q.seen /\ Replaced(q, S, R).rows = R
BY DEF Run, Replaced

-----------------------------------------------------------------------------
LEMMA ForcedInitial == ForcedInit => ForcedInv
<1>1. SUFFICES ASSUME ForcedInit
               PROVE  ForcedInv
  OBVIOUS
<1>2. run \in [Runs -> Run] /\ \A r \in Runs : run[r] = Waiting
  BY <1>1, WaitingRun DEF ForcedInit
<1>3. /\ owner \in [Affected -> Owner]
      /\ \A a \in Affected : owner[a].password = Other
  BY <1>1 DEF ForcedInit, Owner
<1>4. made = 0 /\ handed = {} /\ lost = {} /\ cancelled = {}
  BY <1>1 DEF ForcedInit
<1>5. ForcedTypeOK
  BY <1>2, <1>3, <1>4 DEF ForcedTypeOK
<1>6. HoldsMade
  <2>1. \A a \in Affected : owner[a].password <= made
    BY <1>3, <1>4 DEF Other
  <2>2. \A r \in Runs : run[r].rows = {} /\ run[r].seen = Other
    BY <1>2, WaitingRun
  <2>3. QED
    BY <2>1, <2>2 DEF HoldsMade
<1>7. MarkedHoldTemporaries
  BY <1>2, <1>3, WaitingRun DEF MarkedHoldTemporaries
<1>8. StrandedOnlyByStop
  BY <1>3 DEF StrandedOnlyByStop
<1>9. QED
  BY <1>5, <1>6, <1>7, <1>8 DEF ForcedInv

\* One run changes its record, and nothing else does.
LEMMA RunOnlyStep ==
  ASSUME ForcedInv, NEW r \in Runs, NEW q \in Run, run' = [run EXCEPT ![r] = q],
         UNCHANGED <<owner, made, handed, lost, cancelled>>,
         q.rows = run[r].rows, q.seen \in handed \cup {Other},
         q.phase = "idle" => q.rows = {},
         q.phase = "hashing" /\ ~q.including => q.seen = Other
  PROVE  ForcedInv'
<1> USE DEF ForcedInv, ForcedTypeOK
<1>1. run' \in [Runs -> Run] /\ run'[r] = q /\ \A x \in Runs \ {r} : run'[x] = run[x]
  OBVIOUS
<1>2. HoldsMade'
  BY <1>1 DEF HoldsMade
<1>3. MarkedHoldTemporaries'
  BY <1>1 DEF MarkedHoldTemporaries
<1>4. StrandedOnlyByStop'
  BY <1>1 DEF StrandedOnlyByStop
<1>5. QED
  BY <1>1, <1>2, <1>3, <1>4

\* Somebody writes a password that is no temporary.
LEMMA OtherPasswordStep ==
  ASSUME ForcedInv, NEW a \in Affected, NEW marked \in BOOLEAN, WritesPassword(a, marked)
  PROVE  ForcedInv'
<1> USE DEF ForcedInv, ForcedTypeOK, WritesPassword
<1>1. /\ owner' \in [Affected -> Owner]
      /\ owner'[a].password = Other
      /\ \A b \in Affected \ {a} : owner'[b] = owner[b]
  BY DEF Owner
<1>2. HoldsMade'
  BY <1>1 DEF HoldsMade, Other
<1>3. MarkedHoldTemporaries'
  BY <1>1 DEF MarkedHoldTemporaries
<1>4. StrandedOnlyByStop'
  BY <1>1 DEF StrandedOnlyByStop
<1>5. QED
  BY <1>1, <1>2, <1>3, <1>4

LEMMA ReplaceStep ==
  ASSUME ForcedInv, NEW r \in Runs, ReplacePassword(r)
  PROVE  ForcedInv' /\ (RerunsCancelNothing => RerunsCancelNothing')
<1> USE DEF ForcedInv, ForcedTypeOK
<1>1. PICK a \in Affected, S \in SUBSET Affected, R \in SUBSET Temporaries :
        /\ made < MaxTemporaries /\ made' = made + 1 /\ made \in Nat
        /\ run[r].phase = "hashing" /\ run[r] \in Run
        /\ a = run[r].account /\ S = run[r].left \ {a} /\ R = run[r].rows \cup {made + 1}
        /\ UNCHANGED <<handed, lost>>
        /\ owner' = [owner EXCEPT ![a] = [marked |-> TRUE, password |-> made + 1]]
        /\ run' = [run EXCEPT ![r] = Replaced(run[r], S, R)]
  <2>1. /\ run[r] \in Run /\ run[r].account \in Affected /\ run[r].left \subseteq Affected
        /\ run[r].rows \subseteq Temporaries
    BY DEF Run
  <2>2. made + 1 \in Temporaries /\ made \in Nat
    BY DEF ReplacePassword, Replaces, Temporaries
  <2>3. /\ run[r].left \ {run[r].account} \in SUBSET Affected
        /\ run[r].rows \cup {made + 1} \in SUBSET Temporaries
    BY <2>1, <2>2
  <2>4. PICK a \in Affected, S \in SUBSET Affected, R \in SUBSET Temporaries :
          a = run[r].account /\ S = run[r].left \ {a} /\ R = run[r].rows \cup {made + 1}
    BY <2>1, <2>3
  <2>5. run' = [run EXCEPT ![r] = Replaced(run[r], S, R)]
    BY <2>4 DEF ReplacePassword, Replaces, Replaced
  <2>6. /\ made < MaxTemporaries /\ made' = made + 1 /\ run[r].phase = "hashing"
        /\ UNCHANGED <<handed, lost>>
        /\ owner' = [owner EXCEPT ![a] = [marked |-> TRUE, password |-> made + 1]]
    BY <2>4 DEF ReplacePassword, Replaces
  <2> HIDE DEF ForcedInv, ForcedTypeOK
  <2>7. QED
    BY <2>1, <2>2, <2>4, <2>5, <2>6
<1>2. R \subseteq 1 .. made'
  <2>1. run[r].rows \subseteq 1 .. made
    BY DEF HoldsMade
  <2>2. QED
    BY <1>1, <2>1
<1>3. PICK n \in Run : /\ run' = [run EXCEPT ![r] = n]
                      /\ n.phase = "looking" /\ n.including = run[r].including
                      /\ n.seen = run[r].seen /\ n.rows = R
  <2> HIDE DEF ForcedInv, ForcedTypeOK
  <2> DEFINE m == Replaced(run[r], S, R)
  <2>1. /\ m \in Run /\ m.phase = "looking" /\ m.including = run[r].including
        /\ m.seen = run[r].seen /\ m.rows = R
    <3>1. run[r] \in Run
      BY <1>1
    <3>2. QED
      BY <3>1, ReplacedRun, ZenonT(40)
  <2> HIDE DEF m
  <2>2. run' = [run EXCEPT ![r] = m]
    BY <1>1 DEF m
  <2>3. QED
    BY <2>1, <2>2
<1>4. run' \in [Runs -> Run] /\ run'[r] = n /\ \A x \in Runs \ {r} : run'[x] = run[x]
  BY <1>1, <1>3
<1>5. /\ owner' \in [Affected -> Owner]
      /\ owner'[a].marked /\ owner'[a].password = made'
      /\ \A b \in Affected \ {a} : owner'[b] = owner[b]
  BY <1>1 DEF Owner, Temporaries
<1>6. \/ cancelled' = cancelled
      \/ /\ ~run[r].including /\ run[r].seen # Other
         /\ cancelled' = cancelled \cup {run[r].seen}
  BY DEF ReplacePassword, Replaces
<1>7. cancelled' = cancelled
  BY <1>1, <1>6 DEF MarkedHoldTemporaries
<1>8. ForcedTypeOK'
  BY <1>1, <1>4, <1>5, <1>7
<1>9. HoldsMade'
  <2>1. \A b \in Affected : owner'[b].password <= made'
    BY <1>1, <1>5 DEF HoldsMade, Owner, Temporaries, Other
  <2>2. \A x \in Runs : /\ run'[x].rows \subseteq 1 .. made'
                        /\ run'[x].seen \in handed' \cup {Other}
                        /\ run'[x].phase = "idle" => run'[x].rows = {}
    BY <1>1, <1>2, <1>3, <1>4 DEF HoldsMade
  <2>3. QED
    BY <2>1, <2>2 DEF HoldsMade
<1>10. MarkedHoldTemporaries'
  BY <1>3, <1>4, <1>5 DEF MarkedHoldTemporaries
<1>11. StrandedOnlyByStop'
  <2>1. ASSUME NEW b \in Affected, owner'[b].password # Other
        PROVE  \/ owner'[b].password \in handed' \cup lost'
               \/ \E x \in Runs : owner'[b].password \in run'[x].rows
    <3>1. CASE b = a
      BY <1>1, <1>3, <1>4, <1>5, <3>1
    <3>2. CASE b # a /\ owner[b].password \notin handed \cup lost
      <4>1. PICK x \in Runs : owner[b].password \in run[x].rows
        BY <1>5, <2>1, <3>2 DEF StrandedOnlyByStop
      <4>2. run[x].rows \subseteq run'[x].rows
        BY <1>1, <1>3, <1>4
      <4>3. QED
        BY <1>5, <3>2, <4>1, <4>2
    <3>3. QED
      BY <1>1, <1>5, <3>1, <3>2
  <2>2. QED
    BY <2>1 DEF StrandedOnlyByStop
<1>12. QED
  BY <1>7, <1>8, <1>9, <1>10, <1>11 DEF RerunsCancelNothing

\* The run ends, and its temporaries go to its file or are lost.
LEMMA EndStep ==
  ASSUME ForcedInv, NEW r \in Runs, run' = [run EXCEPT ![r] = Waiting],
         UNCHANGED <<owner, made, cancelled>>,
         \/ handed' = handed \cup run[r].rows /\ lost' = lost
         \/ lost' = lost \cup run[r].rows /\ handed' = handed
  PROVE  ForcedInv'
<1> USE DEF ForcedInv, ForcedTypeOK
<1>2. run' \in [Runs -> Run] /\ run'[r] = Waiting /\ \A x \in Runs \ {r} : run'[x] = run[x]
  BY WaitingRun
<1>3. ForcedTypeOK'
  BY <1>2 DEF HoldsMade
<1>4. HoldsMade'
  BY <1>2, WaitingRun DEF HoldsMade
<1>5. MarkedHoldTemporaries'
  BY <1>2, WaitingRun DEF MarkedHoldTemporaries
<1>6. StrandedOnlyByStop'
  BY <1>2 DEF StrandedOnlyByStop
<1>7. QED
  BY <1>3, <1>4, <1>5, <1>6

LEMMA ForcedStep ==
  ASSUME ForcedInv, [ForcedNext]_forcedVars
  PROVE  ForcedInv' /\ (RerunsCancelNothing => RerunsCancelNothing')
<1> USE DEF ForcedInv, ForcedTypeOK
<1> \A r \in Runs : run[r] \in Run /\ run[r].account \in Affected /\ run[r].left \subseteq Affected
  BY DEF Run
<1>1. ASSUME NEW r \in Runs, NEW including \in BOOLEAN, Start(r, including)
      PROVE  ForcedInv' /\ cancelled' = cancelled
  <2>2. PICK q \in Run : /\ q = [Waiting EXCEPT !.phase = "looking", !.including = including,
                                                !.left = Affected]
                         /\ q.phase = "looking" /\ q.seen = Other /\ q.rows = {}
    BY WaitingRun
  <2>3. /\ run' = [run EXCEPT ![r] = q] /\ run[r].phase = "idle"
        /\ UNCHANGED <<owner, made, handed, lost, cancelled>>
    BY <1>1, <2>2 DEF Start
  <2>4. q.rows = run[r].rows
    BY <2>2, <2>3 DEF HoldsMade
  <2> HIDE DEF ForcedInv
  <2>5. QED
    BY <2>2, <2>3, <2>4, RunOnlyStep
<1>2. ASSUME NEW r \in Runs, NEW a \in Affected, LookUp(r, a)
      PROVE  ForcedInv' /\ cancelled' = cancelled
  <2>1. /\ run[r].phase = "looking" /\ UNCHANGED <<owner, made, handed, lost, cancelled>>
        /\ run[r].seen \in handed \cup {Other}
    BY <1>2 DEF LookUp, HoldsMade
  <2>2. \/ run' = [run EXCEPT ![r] = Skipped(run[r], run[r].left \ {a})]
        \/ /\ ~owner[a].marked \/ run[r].including
           /\ run' = [run EXCEPT ![r] = Hashing(run[r], a, Seen(a))]
    BY <1>2 DEF LookUp, Skipped, Hashing
  <2>3. CASE run' = [run EXCEPT ![r] = Skipped(run[r], run[r].left \ {a})]
    <3>1. PICK q \in Run : /\ run' = [run EXCEPT ![r] = q]
                           /\ q.phase = "looking" /\ q.seen = run[r].seen /\ q.rows = run[r].rows
      <4> HIDE DEF ForcedInv, ForcedTypeOK
      <4> DEFINE n == Skipped(run[r], run[r].left \ {a})
      <4>1. run[r] \in Run /\ run[r].left \ {a} \in SUBSET Affected
        OBVIOUS
      <4>2. /\ n \in Run
            /\ n.phase = run[r].phase /\ n.seen = run[r].seen /\ n.rows = run[r].rows
        BY <4>1, SkippedRun, Zenon
      <4> HIDE DEF n
      <4>3. run' = [run EXCEPT ![r] = n]
        BY <2>3 DEF n
      <4>4. QED
        BY <2>1, <4>2, <4>3
    <3>2. QED
      BY <2>1, <3>1, RunOnlyStep
  <2>4. CASE /\ ~owner[a].marked \/ run[r].including
             /\ run' = [run EXCEPT ![r] = Hashing(run[r], a, Seen(a))]
    <3>1. handed \subseteq Temporaries
      BY DEF Temporaries
    <3>2. Seen(a) \in Temporaries \cup {Other} /\ Seen(a) \in handed \cup {Other}
      BY <3>1 DEF Seen
    <3>3. ~run[r].including => Seen(a) = Other
      BY <2>4 DEF Seen, MarkedHoldTemporaries
    <3>4. PICK q \in Run : /\ run' = [run EXCEPT ![r] = q]
                           /\ q.phase = "hashing" /\ q.including = run[r].including
                           /\ q.seen = Seen(a) /\ q.rows = run[r].rows
      <4> HIDE DEF ForcedInv, ForcedTypeOK
      <4> DEFINE n == Hashing(run[r], a, Seen(a))
      <4>1. /\ n \in Run
            /\ n.phase = "hashing" /\ n.including = run[r].including
            /\ n.seen = Seen(a) /\ n.rows = run[r].rows
        BY <3>2, HashingRun, ZenonT(40)
      <4> HIDE DEF n
      <4>2. run' = [run EXCEPT ![r] = n]
        BY <2>4 DEF n
      <4>3. QED
        BY <4>1, <4>2
    <3>5. QED
      BY <2>1, <3>2, <3>3, <3>4, RunOnlyStep
  <2>5. QED
    BY <2>2, <2>3, <2>4
<1>3. ASSUME NEW r \in Runs, WriteFile(r) \/ Stop(r)
      PROVE  ForcedInv' /\ cancelled' = cancelled
  BY <1>3, EndStep DEF WriteFile, Stop
<1>4. ASSUME NEW a \in Affected, OwnerChooses(a) \/ AdminResets(a) \/ ImportAgain(a)
      PROVE  ForcedInv' /\ cancelled' = cancelled
  <2>1. owner[a].marked \in BOOLEAN
    BY DEF Owner
  <2>2. PICK marked \in BOOLEAN : WritesPassword(a, marked)
    BY <1>4, <2>1 DEF OwnerChooses, AdminResets, ImportAgain
  <2>3. QED
    BY <2>2, OtherPasswordStep DEF WritesPassword
<1>5. CASE UNCHANGED forcedVars
  BY <1>5 DEF forcedVars, HoldsMade, MarkedHoldTemporaries, StrandedOnlyByStop, RerunsCancelNothing
<1>6. QED
  BY <1>1, <1>2, <1>3, <1>4, <1>5, ReplaceStep DEF ForcedNext, RerunsCancelNothing

LEMMA ForcedInvariant == ForcedSpec => []ForcedInv
<1>1. ForcedInv /\ [ForcedNext]_forcedVars => ForcedInv'
  BY ForcedStep
<1>2. QED
  BY <1>1, ForcedInitial, PTL DEF ForcedSpec

\* An account whose password nobody was given is one a run still works for, or
\* one a run that stopped left so (forzar-cambio-clave.cjs).
THEOREM Stranded == ForcedSpec => []StrandedOnlyByStop
BY ForcedInvariant, PTL DEF ForcedInv

\* A run that skips marked accounts replaces no temporary that had been handed
\* out when it looked (forzar-cambio-clave.cjs, "re-ejecutar no invalide
\* temporales ya entregadas").
THEOREM RerunsCancel == ForcedSpec => []RerunsCancelNothing
<1>1. ForcedInit => RerunsCancelNothing
  BY DEF ForcedInit, RerunsCancelNothing
<1>2. ForcedInv /\ RerunsCancelNothing /\ [ForcedNext]_forcedVars => RerunsCancelNothing'
  BY ForcedStep
<1>3. QED
  BY <1>1, <1>2, ForcedInvariant, PTL DEF ForcedSpec

-----------------------------------------------------------------------------
(* MCFactors.  A step is a step of one part, and the others stand still.    *)

FactorsInv == TotpInv /\ PasskeyInv /\ ClaimsInv /\ ClientsInv /\ KeysInv /\ ForcedInv

LEMMA PartStep ==
  ASSUME FactorsInv, [Next]_factorVars
  PROVE  FactorsInv'
<1>1. /\ [TotpNext]_totpVars /\ [PasskeyNext]_passkeyVars /\ [ClaimsNext]_claimVars
      /\ [ClientsNext]_clientVars /\ [KeysNext]_keyVars /\ [ForcedNext]_forcedVars
  BY DEF Next, TotpPart, PasskeyPart, ClaimsPart, ClientsPart, KeysPart, ForcedPart, factorVars
<1>2. QED
  BY <1>1, TotpStep, PasskeyStep, ClaimsStep, ClientsStep, KeysStep, ForcedStep DEF FactorsInv

\* The rows and requests of the six parts keep their types.
THEOREM TypesCorrect == Spec => []FactorsTypeOK
<1>1. Init => FactorsInv
  BY TotpInitial, PasskeyInitial, ClaimsInitial, ClientsInitial, KeysInitial, ForcedInitial
  DEF Init, FactorsInv
<1>2. FactorsInv => FactorsTypeOK
  BY DEF FactorsInv, FactorsTypeOK, TotpInv, PasskeyInv, ClaimsInv, ClientsInv, KeysInv, ForcedInv
<1>3. QED
  BY <1>1, <1>2, PartStep, PTL DEF Spec
=============================================================================
