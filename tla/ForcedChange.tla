---------------------------- MODULE ForcedChange ----------------------------
(***************************************************************************)
(* scripts/forzar-cambio-clave.cjs: the accounts of a list whose passwords *)
(* leaked get a random temporary one and must change it.  The temporaries  *)
(* are known to nobody but the run that made them until it writes them all *)
(* to a file, its last step; a run that stops before takes them with it,   *)
(* and the next run skips the accounts already marked.                     *)
(*                                                                         *)
(* Abstractions: a password is one of the script's temporaries, numbered   *)
(* as they are made, or another; a run visits the list in any order; two   *)
(* runs do not end in the same second, which names their files; sessions   *)
(* closed with the change are those of Login, counters those of            *)
(* Credentials; a dry run writes nothing.                                  *)
(***************************************************************************)
EXTENDS Integers, FiniteSets

CONSTANTS
  Affected,         \* accounts of the list
  Runs,             \* executions of the script that may overlap
  MaxTemporaries    \* bound: temporaries made

ASSUME ForcedChangeAssumption == Affected # {} /\ MaxTemporaries \in Nat

VARIABLES
  owner,       \* the accounts' rows in `users`
  run,         \* the executions
  made,        \* how many temporaries were made
  handed,      \* temporaries written to a file
  lost,        \* history: temporaries of runs that stopped before the file
  cancelled    \* history: temporaries replaced after they were handed out, by a
               \* run that had seen them handed out and was not told to do so

forcedVars == <<owner, run, made, handed, lost, cancelled>>

-----------------------------------------------------------------------------
Temporaries == 1 .. MaxTemporaries

Other == 0    \* a password that is no temporary of the script

Owner == [marked : BOOLEAN, password : Temporaries \cup {Other}]

\* seen is history: the temporary found handed out at the look-up, if any.
Run == [ phase     : {"idle", "looking", "hashing"},
         including : BOOLEAN,                          \* --incluir-marcadas
         left      : SUBSET Affected,
         account   : Affected,
         seen      : Temporaries \cup {Other},
         rows      : SUBSET Temporaries ]              \* filas

ForcedTypeOK ==
  /\ owner \in [Affected -> Owner]
  /\ run \in [Runs -> Run]
  /\ made \in 0 .. MaxTemporaries
  /\ handed \subseteq 1 .. made
  /\ lost \subseteq 1 .. made
  /\ cancelled \subseteq handed

Waiting == [phase |-> "idle", including |-> FALSE, left |-> {},
            account |-> CHOOSE a \in Affected : TRUE, seen |-> Other, rows |-> {}]

ForcedInit ==
  /\ owner = [a \in Affected |-> [marked |-> FALSE, password |-> Other]]
  /\ run = [r \in Runs |-> Waiting]
  /\ made = 0
  /\ handed = {} /\ lost = {} /\ cancelled = {}

-----------------------------------------------------------------------------
Start(r, including) ==
  /\ run[r].phase = "idle"
  /\ run' = [run EXCEPT ![r] = [Waiting EXCEPT !.phase = "looking", !.including = including,
                                               !.left = Affected]]
  /\ UNCHANGED <<owner, made, handed, lost, cancelled>>

Seen(a) == IF owner[a].password \in handed THEN owner[a].password ELSE Other

\* A look-up that does not mind the mark
LookUpAny(r, a) ==
  /\ run[r].phase = "looking" /\ a \in run[r].left
  /\ run' = [run EXCEPT ![r] = [@ EXCEPT !.phase = "hashing", !.account = a, !.seen = Seen(a)]]
  /\ UNCHANGED <<owner, made, handed, lost, cancelled>>

\* The account is read; one already marked is skipped unless the run includes them.
LookUp(r, a) ==
  /\ run[r].phase = "looking" /\ a \in run[r].left
  /\ \/ /\ owner[a].marked /\ ~run[r].including
        /\ run' = [run EXCEPT ![r].left = @ \ {a}]
     \/ /\ ~owner[a].marked \/ run[r].including
        /\ run' = [run EXCEPT ![r] = [@ EXCEPT !.phase = "hashing", !.account = a, !.seen = Seen(a)]]
  /\ UNCHANGED <<owner, made, handed, lost, cancelled>>

\* The hash is ready: password and mark are written with one transaction.
Replaces(r, rows) ==
  LET a == run[r].account
      old == owner[a].password
  IN
  /\ run[r].phase = "hashing"
  /\ made < MaxTemporaries
  /\ made' = made + 1
  /\ owner' = [owner EXCEPT ![a] = [marked |-> TRUE, password |-> made + 1]]
  /\ run' = [run EXCEPT ![r] = [@ EXCEPT !.phase = "looking", !.left = run[r].left \ {a},
                                        !.rows = rows]]
  /\ cancelled' = IF old # Other /\ old = run[r].seen /\ ~run[r].including
                    THEN cancelled \cup {old} ELSE cancelled
  /\ UNCHANGED <<handed, lost>>

\* A list of rows that is set, not pushed to
ReplaceKeepingLast(r) == Replaces(r, {made + 1})

ReplacePassword(r) == Replaces(r, run[r].rows \cup {made + 1})

\* The end of a run: all its temporaries, for whoever takes them to their owners
WriteFile(r) ==
  /\ run[r].phase = "looking" /\ run[r].left = {}
  /\ handed' = handed \cup run[r].rows
  /\ run' = [run EXCEPT ![r] = Waiting]
  /\ UNCHANGED <<owner, made, lost, cancelled>>

\* A statement throws, or the process dies.
Stop(r) ==
  /\ run[r].phase # "idle"
  /\ lost' = lost \cup run[r].rows
  /\ run' = [run EXCEPT ![r] = Waiting]
  /\ UNCHANGED <<owner, made, handed, cancelled>>

-----------------------------------------------------------------------------
WritesPassword(a, marked) ==
  /\ owner' = [owner EXCEPT ![a] = [marked |-> marked, password |-> Other]]
  /\ UNCHANGED <<run, made, handed, lost, cancelled>>

\* completarCambioClave, of an owner who knows the password there is
OwnerChooses(a) ==
  /\ owner[a].marked
  /\ owner[a].password \in handed \cup {Other}
  /\ WritesPassword(a, FALSE)

\* AdminService.resetPassword
AdminResets(a) == WritesPassword(a, TRUE)

\* import-mongodb-data.ts run again: the imported hash, and the mark as it was
ImportAgain(a) == WritesPassword(a, owner[a].marked)

-----------------------------------------------------------------------------
ForcedNext ==
  \/ \E r \in Runs, including \in BOOLEAN : Start(r, including)
  \/ \E r \in Runs, a \in Affected : LookUp(r, a)
  \/ \E r \in Runs : ReplacePassword(r) \/ WriteFile(r) \/ Stop(r)
  \/ \E a \in Affected : OwnerChooses(a) \/ AdminResets(a) \/ ImportAgain(a)

ForcedSpec == ForcedInit /\ [][ForcedNext]_forcedVars

-----------------------------------------------------------------------------
(***************************************************************************)
(* Properties.                                                             *)
(***************************************************************************)

\* An account whose password nobody was given is one a run still works for, or
\* one that a run which stopped left so: the mark it carries hides it from the
\* runs that follow.
StrandedOnlyByStop ==
  \A a \in Affected : owner[a].password # Other =>
    \/ owner[a].password \in handed \cup lost
    \/ \E r \in Runs : owner[a].password \in run[r].rows

\* "re-ejecutar no invalide temporales ya entregadas": no run that was not told
\* to include marked accounts replaces a temporary that was handed out before
\* the run looked, however runs, owners and administrators overlap.
RerunsCancelNothing == cancelled = {}
=============================================================================
