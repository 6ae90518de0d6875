---------------------------- MODULE SessionStore ----------------------------
(***************************************************************************)
(* The `sessions` table of iam-core and the statements SessionsService     *)
(* issues on it.  Each operator is one database statement: PostgreSQL runs *)
(* it atomically, and everything a request does between two statements     *)
(* interleaves with every other request.  The modules that model the       *)
(* requests (Sessions, Login, AuthorizationCode) extend this one.          *)
(*                                                                         *)
(* Abstractions:                                                           *)
(*   - refresh tokens (random UUIDs) are the numbers 1, 2, 3, ... in the   *)
(*     order they are generated: fresh by construction, never guessed;     *)
(*   - SHA-256 is an injective wrapper: a hash is not itself a token;      *)
(*   - `expiresAt` and `revokedAt` are kept relative to the clock: the     *)
(*     ticks left before expiry and the ticks gone by since revocation;    *)
(*   - a session id (a UUID) is used once: a deleted row leaves a          *)
(*     tombstone, so that no later row takes its id.                       *)
(***************************************************************************)
EXTENDS Integers

CONSTANTS
  Users,             \* ids of the accounts
  SessionIds,        \* ids the table may give to rows
  Nobody,            \* the owner of a row that was never inserted
  RefreshExpiry,     \* JWT_REFRESH_EXPIRY, in ticks
  RevokedRetention   \* ticks a revoked row is kept (7 days in the code)

ASSUME StoreAssumption ==
  /\ Nobody \notin Users
  /\ RefreshExpiry \in Nat
  /\ RevokedRetention \in Nat

VARIABLES
  sessions,   \* the table: one record per id
  issued      \* how many opaque tokens have been generated

storeVars == <<sessions, issued>>

-----------------------------------------------------------------------------
NoToken == 0

\* TokenService.hashToken
HashToken(t) == [sha256 |-> t]

\* A UUID generated once, when the module is loaded, and handed out again
StaleToken == IF issued = 0 THEN 1 ELSE issued

\* TokenService.generateOpaqueToken: the next token nobody has seen
FreshToken == issued + 1

SessionRow ==
  [ state      : {"unused", "live", "revoked", "deleted"},
    user       : Users \cup {Nobody},
    tokenHash  : [sha256 : Nat],
    left       : -1 .. RefreshExpiry,
    revokedFor : 0 .. RevokedRetention + 1 ]

StoreTypeOK ==
  /\ sessions \in [SessionIds -> SessionRow]
  /\ issued \in Nat

UnusedRow == [state |-> "unused", user |-> Nobody, tokenHash |-> HashToken(NoToken),
              left |-> 0, revokedFor |-> 0]

StoreInit ==
  /\ sessions = [s \in SessionIds |-> UnusedRow]
  /\ issued = 0

Live(s)    == sessions[s].state = "live"          \* revokedAt is null
Revoked(s) == sessions[s].state = "revoked"
Stored(s)  == Live(s) \/ Revoked(s)
Expired(s) == sessions[s].left < 0                \* expiresAt < now

\* findUnique({ where: { tokenHash } })
HasToken(s, t) == Stored(s) /\ sessions[s].tokenHash = HashToken(t)

-----------------------------------------------------------------------------
\* findValidSession without the test of revokedAt
FindIgnoringRevocation(t, s, isActive) ==
  HasToken(s, t) /\ ~Expired(s) /\ isActive[sessions[s].user]

\* findValidSession: s is the row t gives access to, isActive the users' flags
\* joined to the row in the same read.
FindValidSession(t, s, isActive) ==
  HasToken(s, t) /\ Live(s) /\ ~Expired(s) /\ isActive[sessions[s].user]

\* expirySeconds read as milliseconds by whoever adds it to the date
LifetimeInMillis == 1000 * RefreshExpiry

\* expirySeconds, in create, createWithId and rotate
Lifetime == RefreshExpiry

\* create and createWithId
InsertSession(s, u) ==
  /\ sessions[s].state = "unused"
  /\ sessions' = [sessions EXCEPT ![s] =
       [state |-> "live", user |-> u, tokenHash |-> HashToken(FreshToken),
        left |-> Lifetime, revokedFor |-> 0]]
  /\ issued' = FreshToken

\* rotate with a data block that also resets revokedAt
RotateClearingRevocation(s) ==
  /\ Stored(s)
  /\ sessions' = [sessions EXCEPT ![s] =
       [@ EXCEPT !.tokenHash = HashToken(FreshToken), !.left = Lifetime,
                 !.state = "live", !.revokedFor = 0]]
  /\ issued' = FreshToken

\* rotate that forgets to store the hash of the token it returns
RotateKeepingHash(s) ==
  /\ Stored(s)
  /\ sessions' = [sessions EXCEPT ![s].left = Lifetime]
  /\ issued' = FreshToken

\* rotate that forgets to push expiresAt forward
RotateKeepingExpiry(s) ==
  /\ Stored(s)
  /\ sessions' = [sessions EXCEPT ![s].tokenHash = HashToken(FreshToken)]
  /\ issued' = FreshToken

\* rotate: the row is addressed by id alone, so a row revoked, expired or
\* rotated since it was read is updated all the same; `update` throws only
\* when the row is gone.
RotateSession(s) ==
  /\ Stored(s)
  /\ sessions' = [sessions EXCEPT ![s] =
       [@ EXCEPT !.tokenHash = HashToken(FreshToken), !.left = Lifetime]]
  /\ issued' = FreshToken

\* updateMany({ where: ... revokedAt: null, data: { revokedAt: now } })
RevokeRows(S) ==
  /\ sessions' = [s \in SessionIds |->
       IF s \in S /\ Live(s)
         THEN [sessions[s] EXCEPT !.state = "revoked", !.revokedFor = 0]
         ELSE sessions[s]]
  /\ UNCHANGED issued

RevokeById(s)    == RevokeRows({s})
RevokeByToken(t) == RevokeRows({s \in SessionIds : HasToken(s, t)})
RevokeAll(u)     == RevokeRows({s \in SessionIds : sessions[s].user = u})

\* cleanupExpiredSessions whose second clause only reaches expired rows
CleanupNeverRevoked ==
  /\ sessions' = [s \in SessionIds |->
       IF Live(s) /\ Expired(s)
         THEN [sessions[s] EXCEPT !.state = "deleted", !.left = 0]
         ELSE sessions[s]]
  /\ UNCHANGED issued

\* cleanupExpiredSessions, the daily deleteMany
CleanupExpiredSessions ==
  /\ sessions' = [s \in SessionIds |->
       IF \/ Stored(s) /\ Expired(s)
          \/ Revoked(s) /\ sessions[s].revokedFor > RevokedRetention
         THEN [sessions[s] EXCEPT !.state = "deleted", !.left = 0, !.revokedFor = 0]
         ELSE sessions[s]]
  /\ UNCHANGED issued

\* One tick of the clock, as the table sees it.  Both counters stop where
\* no statement can tell later instants apart.
SessionsAge ==
  /\ sessions' = [s \in SessionIds |->
       [sessions[s] EXCEPT
          !.left       = IF Stored(s) /\ @ >= 0 THEN @ - 1 ELSE @,
          !.revokedFor = IF Revoked(s) /\ @ <= RevokedRetention THEN @ + 1 ELSE @]]
  /\ UNCHANGED issued
=============================================================================
