------------------------------ MODULE Passkeys ------------------------------
(***************************************************************************)
(* WebAuthnService: the challenges it keeps in the memory of the process,  *)
(* the table `webauthn_credentials` with a signature counter for each key, *)
(* and the requests that register a key, answer a challenge or delete a    *)
(* key.  Whether the account may come in at all is modelled in Login.      *)
(*                                                                         *)
(* getAuthenticationOptions stores one challenge for each user name, and   *)
(* one for everybody who gives none.  verifyAuthentication takes the       *)
(* challenge out of the map, without an await in between, before anything  *)
(* else; then it reads the key, verifies, writes the counter of the        *)
(* assertion and opens the session, a statement each.                      *)
(*                                                                         *)
(* Abstractions: challenges are numbered as they are generated; a          *)
(* signature verifies if it answers the challenge expected and its counter *)
(* is greater than the one read (or both are 0, for keys that keep none);  *)
(* a browser may send an assertion again; the five minutes of a challenge  *)
(* may run out at any moment.                                              *)
(***************************************************************************)
EXTENDS Integers, FiniteSets

CONSTANTS
  Keys,           \* passkeys, each with an authenticator that holds it
  Uncounted,      \* those whose authenticator always signs with counter 0
  Names,          \* keys of authChallenges: user names and __discoverable__
  Handlers,       \* requests that may be in flight at once
  MaxChallenges,  \* bound: challenges generated for logins
  MaxRestarts     \* bound: restarts of the process

ASSUME PasskeyAssumption ==
  /\ Keys # {}
  /\ Uncounted \subseteq Keys
  /\ MaxChallenges \in Nat
  /\ MaxRestarts \in Nat

VARIABLES
  pending,     \* authChallenges
  enrolling,   \* regChallenges: keys whose registration has a challenge
  credential,  \* the table webauthn_credentials
  signed,      \* the counter of each authenticator
  assertions,  \* the assertions browsers have obtained and may send
  handler,     \* the requests
  challenges,  \* challenges generated
  restarts,
  accepted,    \* history: the highest counter written for each key
  opened,      \* history: challenges that opened a session
  ahead,       \* history: keys whose counter was written over a later one
  admitted,    \* history: assertions counted, and not ended, when their key was deleted
  late         \* history: assertions that opened a session of a deleted key

passkeyVars == <<pending, enrolling, credential, signed, assertions, handler, challenges,
                 restarts, accepted, opened, ahead, admitted, late>>

-----------------------------------------------------------------------------
NoChallenge == 0

Credential == [state : {"none", "stored", "deleted"}, counter : Nat]

Assertion == [key : Keys, challenge : Nat, counter : Nat]

\* registering and deleting carry no assertion of their own.
Step == {"idle", "attested", "taken", "found", "verified", "counted", "deleting"}

\* read is the counter of the row as the request found it.
Handler == [step : Step, key : Keys, challenge : Nat, counter : Nat, read : Nat,
            expected : Nat]

PasskeyTypeOK ==
  /\ pending \in [Names -> Nat]
  /\ enrolling \subseteq Keys
  /\ credential \in [Keys -> Credential]
  /\ signed \in [Keys -> Nat]
  /\ assertions \subseteq Assertion
  /\ handler \in [Handlers -> Handler]
  /\ challenges \in Nat
  /\ restarts \in Nat
  /\ accepted \in [Keys -> Nat]
  /\ opened \subseteq Nat
  /\ ahead \subseteq Keys
  /\ admitted \subseteq Assertion
  /\ late \subseteq Assertion

Free == [step |-> "idle", key |-> CHOOSE k \in Keys : TRUE, challenge |-> NoChallenge,
         counter |-> 0, read |-> 0, expected |-> NoChallenge]

PasskeyInit ==
  /\ pending = [n \in Names |-> NoChallenge]
  /\ enrolling = {}
  /\ credential = [k \in Keys |-> [state |-> "none", counter |-> 0]]
  /\ signed = [k \in Keys |-> 0]
  /\ assertions = {}
  /\ handler = [h \in Handlers |-> Free]
  /\ challenges = 0 /\ restarts = 0
  /\ accepted = [k \in Keys |-> 0]
  /\ opened = {} /\ ahead = {} /\ admitted = {} /\ late = {}

Stored(k)  == credential[k].state = "stored"
Deleted(k) == credential[k].state = "deleted"

-----------------------------------------------------------------------------
\* A request begins, goes on, or ends.
Begins(h, request) == handler[h].step = "idle" /\ handler' = [handler EXCEPT ![h] = request]
Goes(h, step)      == handler' = [handler EXCEPT ![h].step = step]
Ends(h)            == handler' = [handler EXCEPT ![h] = Free]

\* The assertion a request carries
AssertionOf(h) ==
  [key |-> handler[h].key, challenge |-> handler[h].challenge,
   counter |-> handler[h].counter]

deletions == <<admitted, late>>
histories == <<accepted, opened, ahead, deletions>>
browser   == <<signed, assertions>>

-----------------------------------------------------------------------------
\* getRegistrationOptions: one challenge for each account, here for its key
RegistrationOptions(k) ==
  /\ enrolling' = enrolling \cup {k}
  /\ UNCHANGED <<pending, credential, browser, handler, challenges, restarts, histories>>

\* verifyRegistration, up to the verification
TakeRegistration(h, k) ==
  /\ k \in enrolling
  /\ enrolling' = enrolling \ {k}
  /\ Begins(h, [Free EXCEPT !.step = "attested", !.key = k])
  /\ UNCHANGED <<pending, credential, browser, challenges, restarts, histories>>

\* ... and the row: the id of a credential is unique, and a second one throws.
StoreCredential(h) ==
  LET k == handler[h].key IN
  /\ handler[h].step = "attested"
  /\ credential[k].state = "none"
  /\ credential' = [credential EXCEPT ![k] = [state |-> "stored", counter |-> signed[k]]]
  /\ Ends(h)
  /\ UNCHANGED <<pending, enrolling, browser, challenges, restarts, histories>>

-----------------------------------------------------------------------------
\* getAuthenticationOptions: the challenge the map had for that name is gone.
AuthenticationOptions(n) ==
  /\ challenges < MaxChallenges
  /\ challenges' = challenges + 1
  /\ pending' = [pending EXCEPT ![n] = challenges + 1]
  /\ UNCHANGED <<enrolling, credential, browser, handler, restarts, histories>>

\* The authenticator signs a challenge: any of those handed out, once.
Sign(k, c) ==
  LET counter == IF k \in Uncounted THEN 0 ELSE signed[k] + 1 IN
  /\ Stored(k)
  /\ \A a \in assertions : a.challenge # c
  /\ signed' = [signed EXCEPT ![k] = counter]
  /\ assertions' = assertions \cup {[key |-> k, challenge |-> c, counter |-> counter]}
  /\ UNCHANGED <<pending, enrolling, credential, handler, challenges, restarts, histories>>

\* The request that takes challenge c and carries assertion a
Taking(a, c) == [step |-> "taken", key |-> a.key, challenge |-> a.challenge,
                 counter |-> a.counter, read |-> 0, expected |-> c]

\* verifyAuthentication that leaves the challenge in the map
TakeLeavingChallenge(h, n, a) ==
  /\ pending[n] # NoChallenge
  /\ Begins(h, Taking(a, pending[n]))
  /\ UNCHANGED <<pending, enrolling, credential, browser, challenges, restarts, histories>>

\* verifyAuthentication: the challenge is taken out, whatever the assertion
\* answers ...
TakeChallenge(h, n, a) ==
  /\ pending[n] # NoChallenge
  /\ pending' = [pending EXCEPT ![n] = NoChallenge]
  /\ Begins(h, Taking(a, pending[n]))
  /\ UNCHANGED <<enrolling, credential, browser, challenges, restarts, histories>>

\* ... and the key is read; without a row the request fails.
FindCredential(h) ==
  LET k == handler[h].key IN
  /\ handler[h].step = "taken"
  /\ Stored(k)
  /\ handler' = [handler EXCEPT ![h].step = "found", ![h].read = credential[k].counter]
  /\ UNCHANGED <<pending, enrolling, credential, browser, challenges, restarts, histories>>

\* A verification that compares with the counter without being strict
VerifyAnyCounter(h) ==
  /\ handler[h].step = "found"
  /\ handler[h].challenge = handler[h].expected
  /\ Goes(h, "verified")
  /\ UNCHANGED <<pending, enrolling, credential, browser, challenges, restarts, histories>>

\* verifyAuthenticationResponse
Verify(h) ==
  LET r == handler[h] IN
  /\ r.step = "found"
  /\ r.challenge = r.expected
  /\ r.counter > r.read \/ (r.counter = 0 /\ r.read = 0)
  /\ Goes(h, "verified")
  /\ UNCHANGED <<pending, enrolling, credential, browser, challenges, restarts, histories>>

\* The counter written with updateMany, which finds no row and goes on
UpdateCounterOrNot(h) ==
  LET r == handler[h] IN
  /\ r.step = "verified"
  /\ credential' = [credential EXCEPT ![r.key].counter = IF Stored(r.key) THEN r.counter ELSE @]
  /\ accepted' = [accepted EXCEPT ![r.key] = IF r.counter > @ THEN r.counter ELSE @]
  /\ ahead' = ahead
  /\ Goes(h, "counted")
  /\ UNCHANGED <<pending, enrolling, browser, challenges, restarts, opened, deletions>>

\* The counter of the assertion, over whatever the row holds by now; update
\* throws only when the row is gone.
UpdateCounter(h) ==
  LET r == handler[h] IN
  /\ r.step = "verified"
  /\ Stored(r.key)
  /\ credential' = [credential EXCEPT ![r.key].counter = r.counter]
  /\ accepted' = [accepted EXCEPT ![r.key] = IF r.counter > @ THEN r.counter ELSE @]
  /\ ahead' = IF r.counter >= accepted[r.key] THEN ahead \ {r.key}
              ELSE IF credential[r.key].counter # r.read THEN ahead \cup {r.key} ELSE ahead
  /\ Goes(h, "counted")
  /\ UNCHANGED <<pending, enrolling, browser, challenges, restarts, opened, deletions>>

\* sessions.create, and the answer with the cookies: the key is not looked at again.
OpenSession(h) ==
  /\ handler[h].step = "counted"
  /\ opened' = opened \cup {handler[h].challenge}
  /\ late' = IF Deleted(handler[h].key) THEN late \cup {AssertionOf(h)} ELSE late
  /\ Ends(h)
  /\ UNCHANGED <<pending, enrolling, credential, browser, challenges, restarts, accepted,
                 ahead, admitted>>

-----------------------------------------------------------------------------
\* deleteCredential: the key is looked up ...
FindForDelete(h, k) ==
  /\ Stored(k)
  /\ Begins(h, [Free EXCEPT !.step = "deleting", !.key = k])
  /\ UNCHANGED <<pending, enrolling, credential, browser, challenges, restarts, histories>>

\* ... and deleted by id.
DeleteCredential(h) ==
  LET k == handler[h].key IN
  /\ handler[h].step = "deleting"
  /\ Stored(k)
  /\ credential' = [credential EXCEPT ![k].state = "deleted"]
  /\ admitted' = admitted \cup
       {AssertionOf(g) : g \in {f \in Handlers : handler[f].step = "counted" /\ handler[f].key = k}}
  /\ Ends(h)
  /\ UNCHANGED <<pending, enrolling, browser, challenges, restarts, accepted, opened, ahead,
                 late>>

\* A verification that fails, a statement that throws
Fail(h) ==
  /\ handler[h].step # "idle"
  /\ Ends(h)
  /\ UNCHANGED <<pending, enrolling, credential, browser, challenges, restarts, histories>>

\* Five minutes have passed.
ExpireRegistration(k) ==
  /\ enrolling' = enrolling \ {k}
  /\ UNCHANGED <<pending, credential, browser, handler, challenges, restarts, histories>>

Expire(n) ==
  /\ pending[n] # NoChallenge
  /\ pending' = [pending EXCEPT ![n] = NoChallenge]
  /\ UNCHANGED <<enrolling, credential, browser, handler, challenges, restarts, histories>>

\* The process restarts: both maps are empty, its requests are gone.
Restart ==
  /\ restarts < MaxRestarts
  /\ restarts' = restarts + 1
  /\ pending' = [n \in Names |-> NoChallenge]
  /\ enrolling' = {}
  /\ handler' = [h \in Handlers |-> Free]
  /\ UNCHANGED <<credential, browser, challenges, histories>>

-----------------------------------------------------------------------------
PasskeyNext ==
  \/ \E k \in Keys : RegistrationOptions(k) \/ ExpireRegistration(k)
  \/ \E n \in Names : AuthenticationOptions(n) \/ Expire(n)
  \/ \E k \in Keys, c \in 1 .. challenges : Sign(k, c)
  \/ \E h \in Handlers, k \in Keys : TakeRegistration(h, k) \/ FindForDelete(h, k)
  \/ \E h \in Handlers, n \in Names, a \in assertions : TakeChallenge(h, n, a)
  \/ \E h \in Handlers :
       \/ StoreCredential(h) \/ FindCredential(h) \/ Verify(h) \/ UpdateCounter(h)
       \/ OpenSession(h) \/ DeleteCredential(h) \/ Fail(h)
  \/ Restart

PasskeySpec == PasskeyInit /\ [][PasskeyNext]_passkeyVars

-----------------------------------------------------------------------------
(***************************************************************************)
(* Properties.                                                             *)
(***************************************************************************)

Verified(h) == handler[h].step \in {"verified", "counted"}

\* A challenge opens one session at most, however often its assertion is sent,
\* under whatever name, and across restarts (verifyAuthentication, delete).
ChallengeServesOnce ==
  \A h \in Handlers : Verified(h) =>
    /\ handler[h].challenge \notin opened
    /\ \A g \in Handlers \ {h} : Verified(g) => handler[g].challenge # handler[h].challenge

\* The counter of a stored key is the highest it ever proved, unless an
\* assertion was written over one verified meanwhile: verifyAuthentication
\* compares with the counter it read and writes without looking.
CounterIsHighestUnlessOverlap ==
  \A k \in Keys : Stored(k) /\ k \notin ahead => credential[k].counter = accepted[k]

\* verifyAuthentication does not look at the key again once it has written the
\* counter: a session may still open after deleteCredential.  It is then one of
\* those already counted when the key was deleted, and its counter is not above
\* the one the row was deleted with, unless an assertion was written over a
\* later one: nothing signed with a deleted key is verified late and let in.
LateSessionsWereCounted ==
  \A a \in late : a \in admitted /\ (a.counter <= credential[a.key].counter \/ a.key \in ahead)
=============================================================================
