-------------------------------- MODULE Totp --------------------------------
(***************************************************************************)
(* The second factor of one account: TotpService on the columns            *)
(* totpEnabled, totpSecret and backupCodes of its row, and the script that *)
(* imports accounts and sets the flag alone.                               *)
(*                                                                         *)
(* Every operation reads the row, works for a while (QR code, ten bcrypt   *)
(* hashes, up to ten comparisons) and writes: calls overlap in between.    *)
(*                                                                         *)
(* Abstractions: secrets are numbered as they are generated; an enrolment  *)
(* gives CodesPerEnrolment backup codes instead of ten; a six-digit code   *)
(* is right or wrong as the caller likes, and a right one at login writes  *)
(* nothing (verify), so only backup codes show there.                      *)
(***************************************************************************)
EXTENDS Integers, FiniteSets, Combinatorics

CONSTANTS
  Calls,               \* requests that may be in flight at once
  CodesPerEnrolment,   \* the 10 of enable
  MaxSecrets,          \* bound: setups
  MaxEnrolments        \* bound: enrolments confirmed

ASSUME TotpAssumption ==
  /\ IsFiniteSet(Calls)
  /\ CodesPerEnrolment \in Nat \ {0}
  /\ MaxSecrets \in Nat
  /\ MaxEnrolments \in Nat

VARIABLES
  factor,      \* the three columns
  call,        \* what each call is doing, and the columns as it read them
  secrets,     \* secrets generated
  enrolments,  \* history: enrolments written
  confirmed,   \* history: the secret whose code the last enrolment checked
  used,        \* history: backup codes that opened the second step
  uses,        \* history: how many times one did since the last enrolment
  disturbed    \* history: a write since the last disabling was computed from
               \* columns that had changed, or the import wrote the flag

totpVars == <<factor, call, secrets, enrolments, confirmed, used, uses, disturbed>>

-----------------------------------------------------------------------------
NoSecret == 0

BackupCode == [enrolment : Nat, index : 1 .. CodesPerEnrolment]

\* The codes of an enrolment, counted from 0
CodesFromZero(e) == [enrolment : {e}, index : 0 .. CodesPerEnrolment - 1]

Codes(e) == [enrolment : {e}, index : 1 .. CodesPerEnrolment]

Factor == [enabled : BOOLEAN, secret : Nat, codes : SUBSET BackupCode]

Operation == {"none", "setup", "enable", "disable", "verify"}

Call == [op : Operation, row : Factor]

TotpTypeOK ==
  /\ factor \in Factor
  /\ call \in [Calls -> Call]
  /\ secrets \in Nat
  /\ enrolments \in Nat
  /\ confirmed \in Nat
  /\ used \subseteq BackupCode
  /\ uses \in Nat
  /\ disturbed \in BOOLEAN

NoFactor == [enabled |-> FALSE, secret |-> NoSecret, codes |-> {}]

NoCall == [op |-> "none", row |-> NoFactor]

TotpInit ==
  /\ factor = NoFactor
  /\ call = [c \in Calls |-> NoCall]
  /\ secrets = 0 /\ enrolments = 0 /\ confirmed = NoSecret
  /\ used = {} /\ uses = 0
  /\ disturbed = FALSE

-----------------------------------------------------------------------------
\* findUnique: the call keeps the columns as they are now.
Reads(c, op) ==
  /\ call[c].op = "none"
  /\ call' = [call EXCEPT ![c] = [op |-> op, row |-> factor]]
  /\ UNCHANGED <<factor, secrets, enrolments, confirmed, used, uses, disturbed>>

\* The last statement of a call.
Writes(c, op, row) ==
  /\ call[c].op = op
  /\ factor' = row
  /\ call' = [call EXCEPT ![c] = NoCall]

\* Another write came between the read and the write of this call.
Overtaken(c) == call[c].row # factor

-----------------------------------------------------------------------------
\* initiateSetup that replaces the secret of an enabled factor
ReadForSetupAlways(c) == Reads(c, "setup")

\* initiateSetup
ReadForSetup(c) == ~factor.enabled /\ Reads(c, "setup")

WriteSecret(c) ==
  /\ secrets < MaxSecrets
  /\ secrets' = secrets + 1
  /\ Writes(c, "setup", [factor EXCEPT !.secret = secrets + 1])
  /\ disturbed' = (disturbed \/ Overtaken(c))
  /\ UNCHANGED <<enrolments, confirmed, used, uses>>

\* enable: the six digits are those of the secret read.
ReadForEnable(c) ==
  /\ factor.secret # NoSecret /\ ~factor.enabled
  /\ Reads(c, "enable")

\* enable with the secret read and not the one stored: only the flag and the
\* new codes are written.
WriteEnrolment(c) ==
  /\ enrolments < MaxEnrolments
  /\ enrolments' = enrolments + 1
  /\ Writes(c, "enable", [factor EXCEPT !.enabled = TRUE, !.codes = Codes(enrolments + 1)])
  /\ confirmed' = call[c].row.secret
  /\ uses' = 0
  /\ disturbed' = (disturbed \/ Overtaken(c))
  /\ UNCHANGED <<secrets, used>>

\* disable that takes a missing secret for an empty one
ReadForDisableAnyway(c) == factor.enabled /\ Reads(c, "disable")

\* disable: without a secret there is nothing to decrypt, and it throws.
ReadForDisable(c) ==
  /\ factor.enabled /\ factor.secret # NoSecret
  /\ Reads(c, "disable")

WriteDisabled(c) ==
  /\ Writes(c, "disable", NoFactor)
  /\ disturbed' = FALSE
  /\ confirmed' = NoSecret
  /\ UNCHANGED <<secrets, enrolments, used, uses>>

\* verify, with a code that is not the six digits of the moment
ReadForVerify(c) ==
  /\ factor.enabled /\ factor.secret # NoSecret
  /\ Reads(c, "verify")

\* verifyBackupCode that leaves the list as it was
AcceptBackupCode(c, code) ==
  /\ code \in call[c].row.codes
  /\ Writes(c, "verify", factor)
  /\ used' = used \cup {code}
  /\ uses' = uses + 1
  /\ disturbed' = (disturbed \/ Overtaken(c))
  /\ UNCHANGED <<secrets, enrolments, confirmed>>

\* verifyBackupCode: a code of the list read opens the second step, and the
\* list read, without it, becomes the list stored.
UseBackupCode(c, code) ==
  /\ code \in call[c].row.codes
  /\ Writes(c, "verify", [factor EXCEPT !.codes = call[c].row.codes \ {code}])
  /\ used' = used \cup {code}
  /\ uses' = uses + 1
  /\ disturbed' = (disturbed \/ Overtaken(c))
  /\ UNCHANGED <<secrets, enrolments, confirmed>>

\* A wrong code, or a statement that throws
GiveUp(c) ==
  /\ call[c].op # "none"
  /\ call' = [call EXCEPT ![c] = NoCall]
  /\ UNCHANGED <<factor, secrets, enrolments, confirmed, used, uses, disturbed>>

\* import-mongodb-data, importUsers: the flag as it was in the other system,
\* with the server stopped; secret and codes are left as they are.
ImportFlag(flag) ==
  /\ \A c \in Calls : call[c].op = "none"
  /\ factor.enabled # flag
  /\ factor' = [factor EXCEPT !.enabled = flag]
  /\ disturbed' = TRUE
  /\ UNCHANGED <<call, secrets, enrolments, confirmed, used, uses>>

-----------------------------------------------------------------------------
TotpNext ==
  \/ \E c \in Calls :
       \/ ReadForSetup(c) \/ WriteSecret(c)
       \/ ReadForEnable(c) \/ WriteEnrolment(c)
       \/ ReadForDisable(c) \/ WriteDisabled(c)
       \/ ReadForVerify(c) \/ \E code \in call[c].row.codes : UseBackupCode(c, code)
       \/ GiveUp(c)
  \/ \E flag \in BOOLEAN : ImportFlag(flag)

TotpSpec == TotpInit /\ [][TotpNext]_totpVars

-----------------------------------------------------------------------------
(***************************************************************************)
(* Properties.                                                             *)
(***************************************************************************)

\* An enabled factor answers to the secret its owner proved to hold when it
\* was enabled (totp.service enable), and to codes of that enrolment that were
\* never used: unless, since it was last disabled, some call wrote from
\* columns that had changed under it, or the import wrote the flag alone.
EnabledAsConfirmed ==
  factor.enabled /\ ~disturbed =>
    /\ factor.secret = confirmed /\ confirmed # NoSecret
    /\ factor.codes \subseteq Codes(enrolments) \ used

\* A factor enabled without a secret: verify refuses it, disable cannot
\* decrypt, initiateSetup sends the owner to disable.
Stuck == factor.enabled /\ factor.secret = NoSecret

\* Only an enabling that a disabling overtook, or the import, leads there; and
\* only the import, or a call that had read the row before, leads out.
StuckStaysStuck ==
  [][Stuck => \/ Stuck'
              \/ call' = call
              \/ \E c \in Calls : call[c].op \in {"setup", "disable"} /\ Overtaken(c) /\ call'[c] = NoCall]_totpVars

\* How often the backup codes of an enrolment open the second step when k
\* calls overlap: once each with k = 1, and a bounded number of times however
\* often a late write brings codes back (verifyBackupCode).
MaxUses ==
  LET k == Cardinality(Calls) IN choose(CodesPerEnrolment + k, k) - 1

UsesBounded == uses <= MaxUses
=============================================================================
