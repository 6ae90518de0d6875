# iam-core: specifications, model checking and proofs

iam-core is the identity service of a family of applications: a NestJS server over PostgreSQL
(through Prisma) that keeps accounts, opens sessions for browsers with a rotating refresh token,
acts as an OpenID Connect provider for the other services, and keeps the roles and the register of
workers those services use. This directory holds TLA+ modules that model it from its source, the
TLC configurations that check them, and theorems about them checked by TLAPS.

The server is a Node process: JavaScript runs one piece at a time, but every `await` on the database
or on bcrypt lets any other request run, several instances may be deployed side by side, and next
to no operation uses a database transaction (`forzar-cambio-clave.cjs` does, for each account). So
**the atomic step everywhere in this project is one database statement or transaction** (with the
synchronous code around it), and requests interleave between statements. Any statement may throw, and a request then stops where it is, with what it
wrote so far in place.

## 1. Inventory

Paths are relative to `src/src/`.

| Component | State it keeps | Operations that change it | What is hard |
|---|---|---|---|
| Sessions service `modules/sessions/sessions.service.ts` | table `sessions`: owner, SHA-256 of the refresh token, `expiresAt`, `revokedAt` | `create`, `createWithId`, `rotate`, `revoke`, `revokeById`, `revokeAll`, nightly `cleanupExpiredSessions` | `rotate` writes by id what was checked by token earlier; revocations and the clean-up come in between |
| Auth service and controller `modules/auth/` | none of its own; two cookies in each browser; short-lived temporary tokens | password login, forced change of password, second factor, service login, `refresh`, `logout`, revoke all | chains of requests over minutes, against an administrator who changes the account meanwhile |
| Token service `infrastructure/token/` | keys only | signs access, id and temporary tokens, generates and hashes opaque ones | stateless tokens outlive what they were issued for |
| OIDC provider `modules/oidc/` | table `authorization_codes` | `/authorize` issues a code, `/token` exchanges it or renews, `/logout` | a code is consumed, its session created and recorded in three statements; reuse detection reads the record |
| OIDC clients `modules/oidc/clients.service.ts` | table `oauth_clients` | create, update, rotate the secret, remove; the seed of each deploy | removal takes the codes along while an exchange is under way; the seed brings clients and secrets back |
| Users service `modules/users/` | table `users`: password hash, `isActive`, `mustChangePassword`, failed attempts, lock | create, update, change of password, `validateCredentials` | counters computed from a value read before a slow hash comparison |
| Admin service `modules/admin/` | users, sessions, services, roles, workers, areas | reset of a password, (de)activation, forced logout, catalog and links | two-statement operations that may stop half-way |
| TOTP `modules/totp/` | secret, flag and backup codes of the account | setup, enable, disable, use of a backup code | one-time codes read, filtered and written back |
| WebAuthn `modules/webauthn/` | credentials with a signature counter; challenges in memory | registration, authentication, deletion | one shared key for all discoverable challenges |
| Role catalog `common/services/role-catalog.service.ts`, `modules/rbac/` | roles of each service, roles of each user in it | grant, revoke, change of the catalog, delete | check, then write |
| Register of workers `modules/padron/` | table `trabajadores`, link to the account | create or find, update, complete, link, unlink | find, then create; two services at once |
| Throttling `common/guards/throttler-por-sesion.guard.ts` | counters of a library, in memory | one per request | the key changes with each rotation |
| API keys `common/guards/api-key.guard.ts`, `modules/rbac/` | tables `services`, `api_keys` | create, revoke; every call notes the use of its key | the note is a statement nobody waits for; a service may be deleted and created again under its name |
| Claims of the tokens, in `auth`, `oidc` and `webauthn` | none: read from `users`, `services`, `user_service_access` | - | each claim is a statement of its own; three pieces of code build them |
| Seed and scripts `prisma/seed.ts`, `scripts/` (of `src/`) | all of the tables above | run by hand or by a deploy, beside the server | they do not check what the services check; one that stops half-way is run again |
| Audit log, RBAC guards, shell | - | - | see "Not modelled" |

How they interact: the controllers call the auth, admin and OIDC services; those call the users
service and the sessions service, which are the only writers of `users` and `sessions`; the OIDC
provider shares the table `sessions` with the portal (a session derived from a code is an ordinary
row, renewable through either endpoint), and reads the portal's cookies for single sign-on. There
are no messages and no callbacks: components meet in the database and in the browser's cookies.

What makes each correct:

* sessions: a revoked session never comes back; a refresh token has at most one successor, never
  becomes good again, and nobody gets in with it after a revocation; dead rows go away;
* auth: no session for an account whose password was reset or that was deactivated, except to a
  request that was already under way; no login or forced change that opens a session by itself when
  there is a second factor;
* OIDC: one session per code; a reused code kills what it gave; single sign-on obeys the mark;
* users: the lock opens only with time or a success; a reset is not undone by an older request;
* TOTP and WebAuthn: an enabled factor answers to the secret that was confirmed; a backup code and a
  challenge serve once; a counter does not go back;
* claims: a token says nothing that its owner did not have while it was being issued;
* clients and API keys: what was removed, revoked or replaced opens nothing any more;
* roles: nobody holds a role that is not in the catalog; register: one row for each person, one
  account for each worker, and copies of a name that agree with it;
* forced change: a leaked password goes, and its owner gets the one that replaces it.

The hazards that come from this reading, each at its line and with the properties aimed at it, are
in `PROJECT.json`.

## 2. Modules

| Module | Models | Extends |
|---|---|---|
| `SessionStore` | the table `sessions` and each statement of SessionsService, as operators | - |
| `TokenLedger` | abstract: what a refresh token promises | - |
| `Sessions` | browsers, `refresh`, `logout`, revoke-all, forced logout, clean-up, the clock | `SessionStore` |
| `Login` | the ways in (password, forced change, second factor, service, passkey, temporary token at `/oidc/authorize`) against reset, deactivation and own change of password | `SessionStore` |
| `AuthorizationCode` | authorization codes, their exchange, reuse and derived sessions, against a reset | `SessionStore` |
| `Credentials` | one row of `users`: password, failed attempts, lock, under overlapping logins and changes | - |
| `Totp` | the second factor of one account: secret, flag, backup codes | - |
| `Passkeys` | challenges in memory, passkeys with their counters, assertions that browsers may send again, restarts | - |
| `Claims` | what a token says of its owner, while roles, accesses and services change | - |
| `Clients` | the register of OAuth clients, under `/authorize` and `/token` | - |
| `ApiKeys` | services and their keys, the guard, the calls behind it | - |
| `ForcedChange` | `forzar-cambio-clave.cjs`: runs that overlap or stop, owners, administrators, the import | - |
| `Roles` | catalogs of services, roles of accounts and accesses, every operation and script that writes them | - |
| `Workers` | the register of workers and their links to accounts | - |
| `Areas` | areas and superintendencias, and the copies of their names | - |
| `SessionStoreProofs` | lemmas: what each statement does to a row, which the next three cite | `SessionStore` |
| `SessionsProofs`, `LoginProofs`, `AuthorizationCodeProofs` | theorems of their namesakes | the module proved about, `SessionStoreProofs` |
| `StaleWrites` | lemmas: how often calls that overlap can raise a counter each of them writes as one more than it read | - |
| `CredentialsProofs` | theorems of its namesake | `Credentials`, `StaleWrites` |
| `MCSessions`, `MCLogin`, `MCAuthorizationCode`, `MCCredentials` | constants of the small instances | the module checked |
| `MCFactors` | one run for `Totp`, `Passkeys`, `Claims`, `Clients`, `ApiKeys` and `ForcedChange` | all six |
| `MCDirectory` | one run for `Roles`, `Workers` and `Areas` | all three |
| `FactorsProofs` | theorems about the six parts of `MCFactors`, and the types of all six | `MCFactors`, `StaleWrites` |
| `DirectoryProofs` | theorems about roles, workers and areas, and their types | `MCDirectory` |

How the modules meet. `SessionStore` is the table that `Sessions`, `Login` and `AuthorizationCode`
share, each walking through the requests that use it in its own way. The other modules keep tables of
their own and are seen by these through what they leave behind: `Login` takes from `Totp` that an
account has a second factor and from `Passkeys` that an assertion was verified, `AuthorizationCode`
takes from `Clients` that the client may proceed. `MCFactors` and `MCDirectory` put modules that share
no variable in one run: a variable `part`, chosen at the start, says whose steps a behaviour takes, so
that the states of the parts add up instead of multiplying.

### State and code

`SessionStore`. `sessions[id]` is a row. `state` is `revokedAt` together with the row's existence:
"unused" and "deleted" are ids without a row, "live" has `revokedAt` null. `left` is `expiresAt`
counted from now and `revokedFor` the time since `revokedAt`; both stop at the point after which no
statement can tell the difference. `tokenHash` is the hash of the token: tokens are numbered in the
order they are generated, which stands for the UUIDs never repeating, and a hash is a record
`[sha256 |-> t]`, so a hash cannot be used where a token is expected. `FindValidSession`,
`InsertSession`, `RotateSession`, `RevokeById`, `RevokeByToken`, `RevokeAll` and
`CleanupExpiredSessions` are the seven kinds of statement. A row's id is never used again.

`Sessions`. A request walks through the phases of its handler: `sent`, `found` (after
`findValidSession`), `rotated`, `signed` (the access token exists), `revoked`. `Deliver` puts the
answer's cookies in the browser; `Lose` stands for an answer lost and for a handler that throws
after its write. Two answers may arrive in either order. `jar` is the refresh cookie; `access` the
time left on the newest access token of the browser, which `JwtStrategy.validate` and the guard
require for a logout. A completed login inserts the row and sets the cookie in one step here; `Login`
opens that step up. The cookies' own `maxAge` is not modelled: a browser may keep a cookie longer
than the server honours it, never the other way round that matters to the server.

`Login`. A request records what its chain knew of the account (`knows`: how many resets and
deactivations had happened when the account was last found unmarked or active, and when the password
was checked). This is history: no guard reads it. Temporary tokens are a set; one may be presented
again until it expires, as the code keeps no list of used ones. A password is right or wrong as the
environment chooses; `totpEnabled` is fixed per account; a lock refuses a login, which is a login that
does not happen. `ResetPassword` and `DeactivateUser` are two statements and may stop after the first
(`Abandon`); `unswept` remembers the accounts whose sessions were not revoked after the first.
`ForceChange` is the transaction of `forzar-cambio-clave.cjs`: mark and revocation in one step.
`VerifyAuthentication` is the passkey way in: an assertion already verified, then the flags of the
account, then the session, with no second factor asked for. A temporary token is signed with the key
and the issuer of an access token, and `verifyAccessToken` looks at neither its `type` nor an audience.
So `AuthorizeByTempToken` is a way in too: `resolveSsoContext` finds the account active and unmarked, and
the code it issues and the exchange are the rest of that request, taken apart in
`AuthorizationCode`. At the endpoints behind `JwtStrategy` a temporary token passes for the same reason:
`CheckOwnPassword` and the operations on a second factor or a passkey ask for no token in the models, so they
include it; a logout in `Sessions` asks for an access token, and one with a temporary token is left out.

`AuthorizationCode`. The exchange is cut in its statements: `ReadCode`, then either `DetectReuse` or
`CheckCode` (expiry, `redirect_uri`, PKCE), `Consume` (the conditional `updateMany`),
`OpenDerivedSession`, `RecordSession`. The request carries the row as it was read. The checks of the
client, its secret, the redirection and PKCE have no state: when they fail the request ends
(`Abandon`). The 60 seconds of a code may run out at any moment. A reuse whose `revokeById` throws is
answered all the same; `excused` remembers it, and the reuses that found no session recorded.

`Credentials`. `validateCredentials` is a read of the row (`ReadUser`, with the test of the lock) and
at most one write computed from it: `RegisterFailure`, `MigrateHash` (an imported SHA-256 hash becomes
bcrypt) or `ResetCounter`. In between it compares hashes, which takes a good part of a second, so calls
overlap. `seen[r]` is the row as the call read it. Whether the password was right is left open.
`changePassword` is one action: what it reads only decides whether it goes on, and what it writes
does not depend on it. `ForceChange`, `ImportAgain` and `SeedInspector` are the scripts' writes to the
row. Passwords are numbered as they are set, 0 being the first one. `guesses` is history: failures
written since the last lock or success.

`Totp`. Every operation is a read (`Read`, with the row in `call[c].row`) and a write computed from it,
with QR codes, bcrypt or comparisons in between. `disturbed` remembers a write computed from columns
that had changed since they were read, and the import, which writes the flag without a secret.

`Passkeys`. `pending` is the map of challenges in the memory of the process: one for each user name and
one for everybody who gives none, so the options of one browser overwrite those of another.
`verifyAuthentication` takes the challenge out of the map with no `await` before it (`TakeChallenge`), then
reads the key (`FindCredential`), verifies, writes the counter and opens the session. `Restart` loses the
map. A signature cannot be forged: an assertion is one that an authenticator made. `admitted` and `late`
are history: the assertions already counted when their key was deleted, and those that opened a
session after it.

`Claims`. An issuer reads services, user and details by a statement each; the roles of an account are
read twice. `held` is history: what the account had at some moment since the request began.

`Clients`. A row's `born` tells a registration of a client_id from a later one; nothing in the code
does. A removed client takes its codes with it (`onDelete: Cascade`), so the exchange in flight finds
that `update` on the code throws. `accepts` is `isActive` together with the redirect URIs.

`ApiKeys`. The guard reads key and service in one statement (`Admit`); the use of the key is noted by
a statement nobody waits for, `NoteUse`, at any later moment.

`ForcedChange`. A run looks an account up, hashes, and writes password, mark and revocation in one
transaction; only its last step writes the temporaries to the file from which they reach their owners.
`Stop` is a run that throws or dies. Sessions are those of `Login`, the password's counters those of
`Credentials`.

`Roles`. An operation begins with what it reads and checks (the catalogs, one count after another of
those who hold a role) and ends with its write; `overlapped` says whether anything was written in
between. `create-role-inspector-asignado.cjs` is cut at each of its statements (`ScriptReads` to
`ScriptGrants`), with the ones it skips. `excused` collects the roles that came by such an operation, by a script, which checks
nothing, or that lost their catalog with a service; `loose` the services whose map of permissions was
written apart from their catalog.

`Workers`. `row` has unique CI and unique account, as the schema says; the JDE is not unique. An
operation reads a row, then writes what it computed: the whole link, or the columns to complete. The
columns of the area are one of three: none filled, the two texts (`area`, `superintendencia`), or the texts
with `areaCodigo`. A completion that gives an `areaCodigo` to a row with the texts alone replaces the
texts, as `Object.assign` does in the code.

`Areas`. The name of a superintendencia is written in its row, then in its areas by another statement
(`rename`, `spread`), and is copied from an area to a worker whenever a worker is written.

## 3. Runs

| Run | Instance | Distinct states | Shows |
|---|---|---|---|
| `sessions` | 1 browser, 2 requests, 2 sessions, 3 tokens, access 1 tick, refresh 2, retention 2, request 1 | 521,454 | `LateWorkersCameEarly`, `AccessIsBackedBySession`, `CookieFollowsRotation`, `RevocationIsFinal`, refinement of `TokenLedger`; with fairness, `DeadRowsArePurged` |
| `sessions_logout` | as `sessions` | violation | `LogoutClosesTheSession` |
| `login` | 1 account (second factor or not, also a service account, a passkey), 2 requests, 1 session, 1 reset or forced change, 1 deactivation | 3,461,990 | `MarkedAccountsHoldEarlySessions`, `InactiveAccountsHoldEarlySessions`, `FirstFactorOpensNothing` |
| `login_challenge` | same | violation | `ChallengeDiesWithPassword` |
| `login_second_factor` | same | violation | `SecondStepIsTaken` |
| `credentials` | 3 overlapping calls, a lock after 4 failures that lasts 2 ticks, 2 changes of password, fair clock | 758,658 | `GuessesBounded`, `OnlyImportedPasswordReturns`, `LockEnds` |
| `code` | 1 account, 1 code, 2 requests, 2 sessions, 3 tokens, 1 reset; requests and session ids symmetric | 727,054 | `OneSessionPerCode`, `ReuseKillsRecordedSession`, `MarkedAccountsHoldEarlyCodes` |
| `code_reuse` | same | violation | `ReuseRevokesDerivedSession` |
| `code_mark` | same | violation | `NoSessionWhileMustChange` |
| `factors` | `Totp`: 2 calls, 3 backup codes, 2 setups, 2 enrolments; `Passkeys`: 1 key, 2 names, 2 handlers, 3 challenges, 1 restart; `Claims`: 2 services, 1 role, 1 issuer; `Clients`: the seed's and another, 2 codes, 2 calls, 2 secrets, 2 registrations; `ApiKeys`: 2 services, 2 keys, 1 call, 2 creations; `ForcedChange`: 2 accounts, 2 runs, 3 temporaries | 701,631 | `EnabledAsConfirmed`, `UsesBounded`, `StuckStaysStuck`; `ChallengeServesOnce`, `CounterIsHighestUnlessOverlap`, `LateSessionsWereCounted`; `ClaimsWereHeld`; `RemovalEndsExchanges`, `OnlySeedSecretReturns`; `DeadKeysOpenNothing`; `StrandedOnlyByStop`, `RerunsCancelNothing` |
| `claims_passkey` | 1 service, 1 role, 1 issuer | violation | `PasskeyServicesLikeLogin` |
| `directory` | `Roles`: 1 account, 1 service, 1 role, 2 editors; `Workers`: 2 accounts and 1 worker, or 2 workers and no account, or 1 worker and the columns of his area, 1 CI, 1 JDE, 2 requests; `Areas`: 2 superintendencias, 1 area, 1 worker, 2 names, 2 clerks | 709,287 | `HeldRolesAreOffered`, `MapFollowsCatalog`; `SameJdeOnlyIfRepeated`, `AccessFollowsLink`, `WritesOnlyOnWhatItRead`; `AreaNamesItsSuper`, `PersonAgreesWithArea` |

Why the instances are large enough. Every race of the code is between two requests, or between one
request and an operation that needs no request slot of its own here (administrator, clean-up, clock,
login), so two requests suffice to exhibit it; a third only repeats a role. Two sessions allow the
portal session and a derived one, or an old session and a new one of the same browser. Three tokens
are a login and two rotations, the least with which the two answers of a double refresh differ from
each other and from the token both came with. One reset and one deactivation give each history its
"before" and "after". The times are the least that keep access token < refresh token, and satisfy
the assumption that the refresh expiry and the retention are at least the access expiry plus the
longest request (in the code 8 hours and 7 days against 15 minutes and seconds). In `credentials` the counter stops at the lock's threshold, since the code only
tests for zero and for reaching it; three calls let a late write overtake a late write. In `directory` two operations in
flight suffice for the same reason: each writes once or twice, and what it may have read too early is
the write of another. One role is enough in `Roles`, where no statement compares two; both kinds of
holder, accounts and accesses, are there. `Workers` is walked three times, since a link concerns one worker and
two accounts, a repeated JDE two workers and no account, and an area one worker and no account. Two superintendencias let an area move
from one to the other while either is renamed.

In `factors` two calls overlap in each part but two. One issuer suffices for `Claims`, which says nothing of two
tokens. One call suffices for `ApiKeys`, because the note of an earlier call, the only thing that one
call leaves for another, is a step of its own. Three backup codes give two overlapping calls the longest
play, in which the one writes back what the other used. Three challenges are one under each name and
one that overwrites. Two registrations of the seed's client give a removed client a successor of the
same client_id, two creations do so for a service. Three temporaries are one more than there are
accounts, so that a run replaces what another handed out.

Symmetry is used in `code`, over ids that occur in no ordered expression, and in `factors` and
`directory`, over the calls in flight and over the rows; there the parts share model values (`t1`, `t2`
are the calls of each, `x1`, `x2` its rows), so that one set of permutations serves them all. No
liveness property is checked with it. Where an idle call or an empty row has to carry some id, it is
one chosen once and for all, and no statement reads it.

`MaxTokens`, `MaxResets`, `MaxDeactivations`, `MaxPasswords`, `MaxRequestTicks`, `MaxSecrets`, `MaxEnrolments`,
`MaxChallenges`, `MaxRestarts`, `MaxClientSecrets`, `MaxBirths`, `MaxServices`, `MaxTemporaries` and `MaxRows` are
bounds of the models and not of the program. Only `factors` switches deadlock checking off: its bounds may
leave a part nothing to do, when every client was removed and the seed has registered its own as often
as `MaxBirths` allows. In the other runs some step is always possible (the clock and the clean-up, the
administrator, a temporary token or a code that expires).

Fairness. In `credentials`: the clock advances (`WF` of `Tick`) and nothing else. In `sessions`: the clock advances, the cron job runs again and again, and a request
that was sent is served, by one of its own steps. Node's event loop and the scheduler of
`@nestjs/schedule` give that as long as the process lives, and nothing is assumed of browsers,
administrators or logins. No strong fairness is used. Requests are served within `MaxRequestTicks`,
which the clock respects; a handler of the code lives seconds while a tick stands for minutes.

### How many guesses a lock allows

The counter of failures is one more than what the call read before comparing, so failures that overlap
are counted once, and one that lands late sets the counter back. `GuessesBounded` says what is left of
the limit: with a limit of m and k calls in flight, no more failures than there are multisets of size
k over m values, C(m + k - 1, k), fit before a lock: 5 for one call, 15 for two, 35 for three with
the limit of 5 of the code. The bound is exact: TLC reaches it. `UsesBounded` is of the same kind: the backup codes of one
enrolment, n of them, open the second step at most C(n + k, k) - 1 times when k calls overlap, once
each with one call, because each late write may bring back what others used. `OnlyImportedPasswordReturns` says the
same of the password: the migration of an imported hash writes back the password it read, over a
reset made in the meantime; no later password can return.

### What the violations say

1. `sessions_logout`. A logout revokes the row that has the hash of its cookie. If a refresh of the
   same browser rotates the row between the sending of the logout and its statement, no row matches:
   the logout answers "ok", and the session stays live under a token the browser may or may not get.
2. `login_challenge`. `verify2FA` reads the current `mustChangePassword`. A challenge obtained with
   a password that was since reset is accepted again once the mark is cleared, which happens within
   the five minutes of the temporary token if the owner changes the password at once.
3. `login_second_factor`. A temporary token of a login or a forced change stands, for `verifyAccessToken`, for
   an access token of its account. `/oidc/authorize` issues a code on it, and the exchange opens a
   session, although `signTempToken` says of the two kinds of temporary token that one does not do for
   another. `FirstFactorOpensNothing` says what holds: the login and the forced change open none themselves.
4. `code_reuse`. A reuse detected after the code is consumed and before its session is recorded finds
   `sessionId` null and revokes nothing.
5. `code_mark`. The exchange does not read `mustChangePassword`: a code issued just before a reset
   opens a session after it, which the reset's `revokeAll` does not reach.
6. `claims_passkey`. The token of a passkey login lists every access that is not revoked, those that
   expired and those to services switched off too; the token of a password login does not.

The passing properties beside them state exactly what does hold: `ReuseKillsRecordedSession` (once
recorded, the session is revoked and stays so) and the three `...HoldEarly...` invariants (a session
of a reset or deactivated account was opened by a chain of requests that had seen the account in
order before). These are of the kind "checked, then used": the code does not close the window, and
the invariants bound what may pass through it. The properties of `factors` and `directory` that speak of
`disturbed`, `ahead`, `excused`, `loose`, `repeated`, `skewed` or `behind` are alike: each of these is a set of what
was written over, or by somebody who does not check, and the property says that nothing goes wrong
outside it. It is therefore true of operations done one after another in any order, and of every
overlap in which nothing is written between an operation's read and its write. It does not catch the
overlap itself, which in this code does go wrong; the notes of the hazards in `PROJECT.json` say for each
what is left outside.

One divergence has no run of its own. `padron.service.ts` promises that a completion writes empty fields
only and that no datum of the IAM is ever replaced (lines 15-16, and
`completar-trabajador.dto.ts`, lines 4-8), but with an `areaCodigo` it writes `area` and `superintendencia`
without testing them (168-171). `Complete` does the same, and `WritesOnlyOnWhatItRead` claims no more
than what the code tests: the JDE and the `areaCodigo`.

## 4. Proofs

`SessionsProofs` holds for any accounts, browsers, sessions, requests, expiries and bounds that
satisfy `StoreAssumption` and `SessionsAssumption`.

* `TypeCorrect`: `Spec => []TypeOK`. The type invariant has one conjunct that is not about types: a
  refresh past `findValidSession` has a session. `Rotate` needs it.
* `RevocationFinal`: `Spec => RevocationIsFinal`, an action property, statement by statement from
  the type invariant.
* `FreshTokens`: `Spec => []TokensAreFresh`: two stored rows never carry the hash of the same token,
  and no row carries a token not generated yet. It is what makes the ledger's step `Replace` exact:
  without it a rotation could leave the old token good in another row.
* `Refinement`: `Spec => LedgerSpec`, with the set of good tokens as refinement mapping. A login
  is `Open`, a rotation of a live row `Replace`, of a revoked one `Waste`, every revocation and
  clean-up `Retire`, and all else stutters.
* `LateWorkers`: `Spec => []LateWorkersCameEarly`. Inductive as it stands, with the types.
* `AccessBacked`: `Spec => []AccessIsBackedBySession`. Not inductive: a refresh signs an access token
  from a session found and rotated earlier, so the invariant also says of each such request that its
  session belongs to its browser's account (`OwnersInvariant`) and that a rotated one is stored, has
  enough time left and was not revoked for longer than the request has been in flight
  (`RotatedInvariant`). The assumption on the expiries is used in the steps of the clean-up and
  the clock.
* `CookieFollows`: `Spec => []CookieFollowsRotation`. Far from inductive: a rotation supersedes a token,
  and what must be excluded is that it was somebody else's. `CookieInvariant` says that two browsers
  never have to do with the same row (`RowsApart`: their cookies, the tokens their requests carry or
  were answered, the sessions they work on), and follows what an orderly browser will end up with
  (`CookieOrder`): it has one request at most, whose answer is current once the rotation is done, and
  its cookie is current until then. `TouchStep` shows that a browser comes to a row only by the login
  that inserts it, `CurrentStep` that nobody else's rotation reaches its token, `QuietStep` treats
  together all steps that give the browser nothing. Deleted rows keep the hash they had, which is
  what makes the statement hold whatever the clean-up does.

`LoginProofs` holds for any accounts, service accounts, sessions and requests and any number of
resets and deactivations (`StoreAssumption`, `LoginAssumption`).

* `TypeCorrect`: `Spec => []TypeOK`, with the fact that a row that exists has an owner.
* `MarkedHoldEarly`, `InactiveHoldEarly`, `FirstFactor`: the three invariants of the run `login`.
  What they need beside the types is `Chains`: every request on its way to a session, and every
  temporary token, knows of a moment at which the account was unmarked (unless it is a service login)
  and of one at which it was active, so that a mark or an inactivity found now comes from a later
  reset or deactivation; and a request about to open a session of an account with a second factor
  is not a login or a forced change. `SoundnessKept` shows that nothing done to an account makes
  that false, `AccountStep` that a new mark leaves the account unswept, `SweepStep` that what sweeps
  it is the revocation of its sessions. `FirstFactor` goes through `EveryOpeningHolds`, the same of
  rows that have been deleted since.

Second factors, passkeys, service logins and temporary tokens at `/oidc/authorize` all open sessions in
`EveryOpeningHolds`, as in the code; a forced change by the script is a new mark and the revocation of
the sessions in one step.

`StaleWrites` holds for any finite set of writers and any limit of a counter. Each writer reads the
counter and later writes one more than it read, so a late write sets it back and the others climb again.
Level `j` is the set of writers that can no longer bring the counter to `j + 1`: it is above `j`, and so
is what they read, if they have read. Levels are nested, and only a write from `a` to `a + 1` shrinks
any: it adds its writer to level `a` and may empty the ones above. Read from the top level down they
are a number that such a write makes larger: `Explains` gives level `j`, with `u` writers and `m` levels up
to the top, the worth `choose(u - 1 + m, m)` (`Gain`), and a write adds at least one to the sum. `Grow` is
the step that writes nothing, `Raise` the write, `Limit` the bound, which is the number of multisets. It rests on
Pascal's rule for `choose` of `Combinatorics` (`WaysFacts`), from the definition by factorials, and that on
induction over a set of naturals (`SetInduction`), from the library's theorem that `<` is well-founded.

`CredentialsProofs` (`CredentialsAssumption`) proves `TypeCorrect` and two invariants.

* `ImportedReturns`: `Spec => []OnlyImportedPasswordReturns`, from `ImportedOnly`: a hash of the old
  scheme, in the row or in a request, is the imported one, and it is in the row only while no password
  was set.
* `Guesses`: `Spec => []GuessesBounded`. The invariant `GuessesExplained` says that the levels of the
  attempts account for the guesses; no bound on the guesses alone is inductive, since what may still come depends
  on what each request in flight read.

`AuthorizationCodeProofs` holds for any accounts, codes, sessions, tokens and requests and any number
of resets (`StoreAssumption`, `CodeAssumption`).

* `TypeCorrect`: `Spec => []TypeOK`, with owners for rows and codes, and for each request past the
  reading of a code or the opening of a session the code or session it works on.
* `OneSession`: `Spec => []OneSessionPerCode`. The strengthening `SingleUse`: a consumed code has one
  request that goes on to open its session, or one session already opened, never both nor two.
* `ReuseKills`: `Spec => []ReuseKillsRecordedSession`. From `Recorded` (a session recorded for a code,
  or read with it, is the session the code gave) and `Killed` (a code whose reuse was answered with
  a revocation has already opened its session).
* `MarkedHoldEarlyCodes`: `Spec => []MarkedAccountsHoldEarlyCodes`. From `EarlyCodes`: what codes and
  requests on their way carry was seen, and a session of a marked and swept account is early.

`FactorsProofs` (`PasskeyAssumption`, with at least one key, whose absence would leave nothing to say,
`TotpAssumption`, `ApiKeysAssumption`, `ClientsAssumption`, and `ForcedChangeAssumption`, with a list that is not
empty) holds for any keys, calls, services, requests, clients, codes, accounts, runs and restarts.

* `ChallengeOnce`: `PasskeySpec => []ChallengeServesOnce`. A challenge is in one place
  (`ChallengeInv`): under one name in the map, in one request, or among those that opened a session;
  what leaves the map enters one request and never goes back, and a restart only empties places.
* `CounterHighest`: `PasskeySpec => []CounterIsHighestUnlessOverlap`. It is proved of deleted keys too
  (`HighestEver`), with `UnstoredUnsigned` (a key without a row has proved nothing) and `VerifiedForward`
  (a verification that passed saw a higher counter than it read, or two zeros).
* `LateSessions`: `PasskeySpec => []LateSessionsWereCounted`. `LateInv` follows an assertion from its counting,
  below what its key proved (`CountedAccepted`), over the deletion, which admits those counted
  (`CountedAdmitted`, `AdmittedAccepted`), to the session; `HighestEver` compares what was proved with the
  row as it was deleted.
* `EnabledConfirmed`: `TotpSpec => []EnabledAsConfirmed`. The invariant remembers for each call what it
  checked when it read the row (`ReadAllows`): the flag off before a new secret is stored, a secret
  there before the flag is written.
* `Uses`: `TotpSpec => []UsesBounded`, as `Guesses`: the counter is how many codes of the list are spent,
  a disabling spends them all, and `CodeLists` says that every list, stored or read, is finite and
  no longer than an enrolment's.
* `StuckStays`: `TotpSpec => StuckStaysStuck`, an action property.
* `ClaimsHeld`: `ClaimsSpec => []ClaimsWereHeld`. The history of a request in progress holds what is
  there now (`SeesThePresent`) and all it read so far (`SaysWhatWasHeld`), and while nothing changed
  the two are one (`ReadIsPresent`): a token that is signed says nothing that was never held.
* `DeadKeys`: a stored key belongs to the service that stands under its name (`KeysOfServices`) and a
  dead one is off or gone (`DeadKeysAreOff`).
* `RemovalEnds`: a code that is open or was consumed has its client (`CodesHaveClients`), a call that
  read it finds it deleted or its client's registration still the one it read (`CallsReadClients`), and
  a registration is never number 0 (`PresentAreBorn`). `SecretReturns` is inductive with the types.
* `Stranded`, `RerunsCancel`: what a run holds and what accounts carry was made (`HoldsMade`), and an account
  without a mark has a password of its owner's, so that a run which skips marked accounts has seen
  none handed out (`MarkedHoldTemporaries`).
* `TypesCorrect`: the type invariant of the run `factors`, as the conjunction of the six parts' own
  invariants: a step of one part leaves the variables of the others alone.

`DirectoryProofs` (`RolesAssumption`, with at least one account, `WorkersAssumption`, `AreasAssumption`)
holds for any services, roles, accounts, workers, areas and operations in flight. Its three components
have one argument. Operations read, and write later on the strength of it; what an operation holds
agrees with the tables unless it was overlapped, and a write marks every other operation in flight
as overlapped. So the invariant of an operation is of the form "`~overlapped` implies what it read
stands", a write has to keep it only for those who do not know of the write, which are none, and each
property follows at the moment of writing.

* `HeldRoles`, `MapFollows`: `Holds` says of a grant that its roles are in the catalog or excused, of an
  edit of a catalog that nobody holds the roles it has counted already. A service not created yet
  gives no permissions (`NoMapBefore`).
* `SameJde`, `AccessFollows`: `Trusts` says of a completion that no other worker had its JDE when it
  looked, of a link that the worker was free.
* `WritesFollowReads`: `WorkersSpec => WritesOnlyOnWhatItRead`, an action property: from the same
  invariant, which says of a completion that what it will fill was empty (the JDE, the `areaCodigo`), and
  from `ChangesAreSeen`, that no row changes unseen.
* `AreaNames`, `PersonAgrees`: `Knows` says of a renaming and of the copies it makes that the name is
  still that of the superintendencia, of a worker's derivation that the area it read stands.
* `TypesCorrect`: the type invariant of the run `directory`.

In all of them the bounds on counters (`MaxTokens`, `MaxChallenges`, `MaxRows`, ...) are arbitrary
numbers: the theorems hold whatever they are.

Only model-checked:

* `DeadRowsArePurged` and `LockEnds` are liveness under fairness, out of the prover's reach.
* That the bounds of `GuessesBounded` and `UsesBounded` are reached: the theorems say that they are never
  passed, TLC that a smaller one is.
* The six violations, which are counterexamples and not theorems.

## 5. Plan

1. (done) `SessionStore`, `Sessions`, `TokenLedger`: the heart, since every other component opens or
   closes sessions through it. Proofs.
2. (done) `Login` and `AuthorizationCode`, with the proofs of their invariants.
3. (done) `Credentials`, with the proof of its password invariant.
4. (done) `Totp` and `Passkeys`, the passkey as a way in of `Login`, `Claims`.
5. (done) `Roles`, `Workers`, `Areas`; `Clients`, `ApiKeys`, `ForcedChange`, the last three with proofs.
6. (done) Proofs of the safety and action properties of `Passkeys`, `Totp`, `Claims`, `Roles`, `Workers` and
   `Areas`, of their types, of `CookieFollowsRotation`, `GuessesBounded` and `UsesBounded`: every safety and
   action property of a passing run is now a theorem.
7. What a proof would still add: that the access token of `Login` and `AuthorizationCode` is backed as
   that of `Sessions` is.

## 6. Not modelled

* Throttling: its key is a pure function of the request (the refresh cookie, which changes with each
  rotation), its counters are a library's, in memory.
* The audit log: append-only, its errors swallowed, and nothing decides by it.
* Guards, decorators and enums: membership in constant tables, without state. What `JwtStrategy` and
  `ApiKeyGuard` read is in `Sessions` and `ApiKeys`.
* The shell: wiring, configuration, filters, logging.
* Discovery, user-info and redirects of the OIDC provider; the id token and its keys; the generation of
  keys; permissions and metadata in tokens: they compute, and change nothing.
* `migrate-service-roles-generic.cjs` and `read-service-roles.cjs`: the one takes the prefix of
  a service off the roles of old accesses, a name at a time; the other reads.
* One hazard has no property: `isActive` of a client is read when a code is issued and not when it is
  exchanged or renewed (`src/src/modules/oidc/oidc.service.ts:219`). `Clients` shows the code doing so; no
  comment or test says that it should not.
* Cryptography is out of reach: tokens cannot be forged and hashes do not collide, by construction.
