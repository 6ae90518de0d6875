----------------------------- MODULE Credentials -----------------------------
(***************************************************************************)
(* The password of an account, the failed attempts counted against it and  *)
(* its lock: UsersService.validateCredentials and changePassword, and the  *)
(* scripts that write passwords, on one row of `users` (no statement of    *)
(* theirs touches two rows).                                               *)
(*                                                                         *)
(* validateCredentials reads the row, compares hashes, which is slow, and  *)
(* writes what it computed from the row it read: requests overlap between  *)
(* the two statements, and either may throw.                               *)
(*                                                                         *)
(* Abstractions: passwords are numbered in the order they are set, 0 being *)
(* the one the row was created or imported with; whether the password of a *)
(* request is that of the row it read is for the environment to say; an    *)
(* inactive account refuses like a request that never comes; attempts stop *)
(* counting at MaxFailedAttempts, as the code only tests for zero and for  *)
(* reaching it; the lock is kept relative to the clock.                    *)
(***************************************************************************)
EXTENDS Integers, FiniteSets, Combinatorics

CONSTANTS
  Requests,            \* calls of validateCredentials that may be in flight
  MaxFailedAttempts,   \* MAX_FAILED_ATTEMPTS
  LockoutTicks,        \* LOCKOUT_MINUTES
  MaxPasswords         \* bound: changes of the password

ASSUME CredentialsAssumption ==
  /\ IsFiniteSet(Requests)
  /\ MaxFailedAttempts \in Nat \ {0}
  /\ LockoutTicks \in Nat \ {0}
  /\ MaxPasswords \in Nat

VARIABLES
  row,       \* the account's row
  seen,      \* the row as each request read it; Nothing of a request not in flight
  newest,    \* history: the last password set
  guesses    \* history: failures since the last lock or the last success

vars == <<row, seen, newest, guesses>>

-----------------------------------------------------------------------------
NoLock == -1    \* lockedUntil is null; 0 is a lock that has expired

Row == [ scheme   : {"legacy", "bcrypt"},
         password : Nat,
         attempts : 0 .. MaxFailedAttempts,
         lock     : NoLock .. LockoutTicks ]

Nothing == [scheme |-> "none"]

TypeOK ==
  /\ row \in Row
  /\ seen \in [Requests -> Row \cup {Nothing}]
  /\ newest \in Nat
  /\ guesses \in Nat

Init ==
  /\ \E scheme \in {"legacy", "bcrypt"} :
       row = [scheme |-> scheme, password |-> 0, attempts |-> 0, lock |-> NoLock]
  /\ seen = [r \in Requests |-> Nothing]
  /\ newest = 0
  /\ guesses = 0

Locked == row.lock > 0

InFlight(r) == seen[r] # Nothing

Finish(r) == seen' = [seen EXCEPT ![r] = Nothing]

-----------------------------------------------------------------------------
\* validateCredentials without the test of lockedUntil
ReadLockedToo(r) ==
  /\ ~InFlight(r)
  /\ seen' = [seen EXCEPT ![r] = row]
  /\ UNCHANGED <<row, newest, guesses>>

\* findByUsernameForAuth, and the test of lockedUntil right after it
ReadUser(r) ==
  /\ ~InFlight(r)
  /\ ~Locked
  /\ seen' = [seen EXCEPT ![r] = row]
  /\ UNCHANGED <<row, newest, guesses>>

\* A lock for thousands of minutes
FailInMillis(r) ==
  /\ InFlight(r)
  /\ row' = [row EXCEPT !.attempts = MaxFailedAttempts, !.lock = LockoutTicks * 1000]
  /\ guesses' = 0
  /\ Finish(r)
  /\ UNCHANGED newest

\* A lock one failure late
FailOneMore(r) ==
  LET attempts == seen[r].attempts + 1 IN
  /\ InFlight(r)
  /\ row' = [row EXCEPT !.attempts = IF attempts > MaxFailedAttempts THEN @ ELSE attempts,
                        !.lock = IF attempts > MaxFailedAttempts THEN LockoutTicks ELSE @]
  /\ guesses' = IF attempts > MaxFailedAttempts THEN 0 ELSE guesses + 1
  /\ Finish(r)
  /\ UNCHANGED newest

\* The password was wrong: one attempt more than the row read had.
RegisterFailure(r) ==
  LET attempts == seen[r].attempts + 1 IN
  /\ InFlight(r)
  /\ \/ /\ attempts < MaxFailedAttempts
        /\ row' = [row EXCEPT !.attempts = attempts]
        /\ guesses' = guesses + 1
     \/ /\ attempts >= MaxFailedAttempts
        /\ row' = [row EXCEPT !.attempts = MaxFailedAttempts, !.lock = LockoutTicks]
        /\ guesses' = 0
  /\ Finish(r)
  /\ UNCHANGED newest

\* A migration that hashes again whatever scheme the row had
MigrateAnyHash(r) ==
  /\ InFlight(r)
  /\ row' = [scheme |-> "bcrypt", password |-> seen[r].password, attempts |-> 0, lock |-> NoLock]
  /\ guesses' = 0
  /\ Finish(r)
  /\ UNCHANGED newest

\* The password was right and its hash is an imported one: it is hashed again.
MigrateHash(r) ==
  /\ InFlight(r) /\ seen[r].scheme = "legacy"
  /\ row' = [scheme |-> "bcrypt", password |-> seen[r].password, attempts |-> 0, lock |-> NoLock]
  /\ guesses' = 0
  /\ Finish(r)
  /\ UNCHANGED newest

\* The password was right: counter and lock are cleared if the row read had any.
ResetCounter(r) ==
  /\ InFlight(r) /\ seen[r].scheme = "bcrypt"
  /\ \/ /\ seen[r].attempts > 0 \/ seen[r].lock # NoLock
        /\ row' = [row EXCEPT !.attempts = 0, !.lock = NoLock]
        /\ guesses' = 0
     \/ /\ seen[r].attempts = 0 /\ seen[r].lock = NoLock
        /\ UNCHANGED <<row, guesses>>
  /\ Finish(r)
  /\ UNCHANGED newest

\* A statement throws: the request goes no further.
Abandon(r) ==
  /\ InFlight(r)
  /\ Finish(r)
  /\ UNCHANGED <<row, newest, guesses>>

\* changePassword, of the owner or of an administrator: what it read before
\* only decides whether it goes on; attempts and lock stay as they are.
ChangePassword ==
  /\ newest < MaxPasswords
  /\ newest' = newest + 1
  /\ row' = [row EXCEPT !.scheme = "bcrypt", !.password = newest + 1]
  /\ UNCHANGED <<seen, guesses>>

\* forzar-cambio-clave.cjs: a temporary password instead of the leaked one, and
\* no failures nor lock any more.
ForceChange ==
  /\ newest < MaxPasswords
  /\ newest' = newest + 1
  /\ row' = [scheme |-> "bcrypt", password |-> newest + 1, attempts |-> 0, lock |-> NoLock]
  /\ guesses' = 0
  /\ UNCHANGED seen

\* import-mongodb-data.ts run again: the imported hash over the one there is
ImportAgain ==
  /\ row' = [row EXCEPT !.scheme = "bcrypt", !.password = 0]
  /\ UNCHANGED <<seen, newest, guesses>>

\* The seed of a deploy, for the account of the inspector: the password of its
\* environment, and no failures nor lock
SeedInspector ==
  /\ row' = [scheme |-> "bcrypt", password |-> 0, attempts |-> 0, lock |-> NoLock]
  /\ guesses' = 0
  /\ UNCHANGED <<seen, newest>>

\* A minute goes by.
Tick ==
  /\ Locked
  /\ row' = [row EXCEPT !.lock = @ - 1]
  /\ UNCHANGED <<seen, newest, guesses>>

-----------------------------------------------------------------------------
Next ==
  \/ \E r \in Requests :
       \/ ReadUser(r) \/ RegisterFailure(r) \/ MigrateHash(r) \/ ResetCounter(r) \/ Abandon(r)
  \/ ChangePassword \/ ForceChange \/ ImportAgain \/ SeedInspector
  \/ Tick

Spec == Init /\ [][Next]_vars

\* The clock advances, whatever the requests do.
FairSpec == Spec /\ WF_vars(Tick)

-----------------------------------------------------------------------------
(***************************************************************************)
(* Properties.                                                             *)
(***************************************************************************)

\* How many guesses fit before a lock when k requests overlap and each writes
\* one more than it read: with k = 1 the MaxFailedAttempts of the code, and
\* then as many as there are multisets of k values of the counter below it.
MaxGuesses ==
  LET k == Cardinality(Requests) IN choose(MaxFailedAttempts + k - 1, k)

\* The lock comes (validateCredentials, failedLoginAttempts): a failure written
\* late sets the counter back, but not for ever.
GuessesBounded == guesses < MaxGuesses

\* The password an account was imported or created with comes back over a
\* newer one, be it the temporary that replaced it because it had leaked: an
\* import or a seed run again, or a rehash of it that was on its way.  No other
\* password that was replaced comes back.
OnlyImportedPasswordReturns ==
  row.password # newest => row.password = 0 /\ row.scheme = "bcrypt"

\* A lock ends: attempts made while it lasts do not extend it, and those that
\* were on their way extend it a few times at most.
LockEnds == []<>~Locked
=============================================================================
