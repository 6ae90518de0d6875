-------------------------------- MODULE Areas --------------------------------
(***************************************************************************)
(* The master catalogue of areas and superintendencias, and the copies of  *)
(* a name that it keeps: an area has the name of its superintendencia, a   *)
(* worker the one its area had.  AdminService, derivarDeArea, which every  *)
(* writer of workers calls, and the three migrations of the catalogue.     *)
(*                                                                         *)
(* A copy is made of a name read by an earlier statement, and a new name   *)
(* is written to the superintendencia first and to its areas afterwards.   *)
(*                                                                         *)
(* Abstractions: the areas' own names and the flags `activo` are left out; *)
(* every area of a dump names its superintendencia.                        *)
(***************************************************************************)
EXTENDS Integers, FiniteSets

CONSTANTS
  Supers,    \* ids of superintendencias
  Codes,     \* codes of areas
  People,    \* workers
  Names,
  None,
  Clerks     \* requests and scripts that may be in flight at once

ASSUME AreasAssumption == None \notin Supers \cup Codes \cup Names

VARIABLES
  super,    \* table superintendencias: the name of each, or None
  area,     \* table areas
  person,   \* the columns areaCodigo and superintendencia of trabajadores
  clerk,    \* the operations in flight
  skewed,   \* history: areas written while another write came in between, by a
            \* migration that sets the text alone, or left by a renaming cut short
  behind    \* history: workers whose area was given another name since it was
            \* read for them, or whose text was written by itself

areaVars == <<super, area, person, clerk, skewed, behind>>

-----------------------------------------------------------------------------
Area == [exists : BOOLEAN, super : Supers \cup {None}, text : Names \cup {None}]

Person == [code : Codes \cup {None}, text : Names \cup {None}]

Task == {"idle", "rename", "spread", "create", "update", "sync", "master", "relate", "derive"}

\* name is the one to be written; read the one found.
Clerk == [task : Task, super : Supers \cup {None}, code : Codes \cup {None},
          person : People \cup {None}, name : Names \cup {None}, read : Names \cup {None},
          overlapped : BOOLEAN]

AreasTypeOK ==
  /\ super \in [Supers -> Names \cup {None}]
  /\ area \in [Codes -> Area]
  /\ person \in [People -> Person]
  /\ clerk \in [Clerks -> Clerk]
  /\ skewed \subseteq Codes
  /\ behind \subseteq People

Idle == [task |-> "idle", super |-> None, code |-> None, person |-> None, name |-> None,
         read |-> None, overlapped |-> FALSE]

AreasInit ==
  /\ super = [i \in Supers |-> None]
  /\ area = [a \in Codes |-> [exists |-> FALSE, super |-> None, text |-> None]]
  /\ person = [p \in People |-> [code |-> None, text |-> None]]
  /\ clerk = [c \in Clerks |-> Idle]
  /\ skewed = {} /\ behind = {}

\* nombre is unique.
NameFree(i, n) == \A j \in Supers \ {i} : super[j] # n

AreasOf(i) == {a \in Codes : area[a].exists /\ area[a].super = i}

-----------------------------------------------------------------------------
Busy(c) == clerk[c].task # "idle"

Takes(c, new) ==
  /\ ~Busy(c)
  /\ clerk' = [clerk EXCEPT ![c] = new]
  /\ UNCHANGED <<super, area, person, skewed, behind>>

\* A write of c, seen by the others in flight
Wrote(c, next) ==
  clerk' = [x \in Clerks |->
    IF x = c THEN next ELSE [clerk[x] EXCEPT !.overlapped = Busy(x)]]

WroteAlone == clerk' = [x \in Clerks |-> [clerk[x] EXCEPT !.overlapped = Busy(x)]]

\* The areas a write has made right are skewed if it was overlapped.
Skews(areas, overlapped) ==
  skewed' = IF overlapped THEN skewed \cup areas ELSE skewed \ areas

\* Workers fall behind when the text of their area changes.
FallBehind ==
  behind' = behind \cup {p \in People : person[p].code # None
                           /\ area'[person[p].code].text # area[person[p].code].text}

-----------------------------------------------------------------------------
\* createSuperintendencia
CreateSuper(i, n) ==
  /\ super[i] = None
  /\ NameFree(i, n)
  /\ super' = [super EXCEPT ![i] = n]
  /\ WroteAlone
  /\ UNCHANGED <<area, person, skewed, behind>>

\* updateSuperintendencia: the row is read ...
ReadSuper(c, i, n) ==
  /\ super[i] # None
  /\ Takes(c, [Idle EXCEPT !.task = "rename", !.super = i, !.name = n, !.read = super[i]])

\* ... gets the name, and unless it is the name that was read ...
Rename(c) ==
  LET q == clerk[c] IN
  /\ q.task = "rename"
  /\ NameFree(q.super, q.name)
  /\ super' = [super EXCEPT ![q.super] = q.name]
  /\ skewed' = IF q.name = q.read /\ q.overlapped THEN skewed \cup AreasOf(q.super) ELSE skewed
  /\ Wrote(c, IF q.name = q.read THEN Idle ELSE [q EXCEPT !.task = "spread"])
  /\ UNCHANGED <<area, person, behind>>

\* updateMany that forgets the areas
SpreadNothing(c) ==
  LET q == clerk[c] IN
  /\ q.task = "spread"
  /\ Skews(AreasOf(q.super), q.overlapped)
  /\ Wrote(c, Idle)
  /\ UNCHANGED <<super, area, person, behind>>

\* ... so do its areas.
Spread(c) ==
  LET q == clerk[c] IN
  /\ q.task = "spread"
  /\ area' = [a \in Codes |->
       IF a \in AreasOf(q.super) THEN [area[a] EXCEPT !.text = q.name] ELSE area[a]]
  /\ Skews(AreasOf(q.super), q.overlapped)
  /\ FallBehind
  /\ Wrote(c, Idle)
  /\ UNCHANGED <<super, person>>

\* createArea, and updateArea with another superintendencia: its name is read.
ReadForArea(c, a, i) ==
  /\ super[i] # None
  /\ Takes(c, [Idle EXCEPT !.task = IF area[a].exists THEN "update" ELSE "create",
                 !.super = i, !.code = a, !.name = super[i]])

\* The write of both, and of migrate-sync-from-dump, which upserts
WriteArea(c) ==
  LET q == clerk[c] IN
  /\ q.task \in {"create", "update", "sync"}
  /\ q.task = "create" => ~area[q.code].exists
  /\ area' = [area EXCEPT ![q.code] = [exists |-> TRUE, super |-> q.super, text |-> q.name]]
  /\ Skews({q.code}, q.overlapped)
  /\ FallBehind
  /\ Wrote(c, Idle)
  /\ UNCHANGED <<super, person>>

-----------------------------------------------------------------------------
\* An upsert of a superintendencia by name
Upsert(i, n) ==
  \/ super[i] = n /\ UNCHANGED super
  \/ super[i] = None /\ NameFree(i, n) /\ super' = [super EXCEPT ![i] = n]

\* seedAreas of migrate-sync-from-dump: the superintendencias first
SyncSuper(c, a, i, n) ==
  /\ ~Busy(c)
  /\ Upsert(i, n)
  /\ Wrote(c, [Idle EXCEPT !.task = "sync", !.super = i, !.code = a, !.name = n])
  /\ UNCHANGED <<area, person, skewed, behind>>

\* migrate-sync-users: the text, and not the superintendencia
SyncText(a, n) ==
  /\ area' = [area EXCEPT ![a].exists = TRUE, ![a].text = n]
  /\ skewed' = skewed \cup {a}
  /\ FallBehind
  /\ WroteAlone
  /\ UNCHANGED <<super, person>>

\* migrate-master-data reads the areas ...
MasterRead(c, a) ==
  /\ area[a].exists
  /\ area[a].text # None
  /\ Takes(c, [Idle EXCEPT !.task = "master", !.code = a, !.name = area[a].text])

\* ... makes a superintendencia of every text ...
MasterSuper(c, i) ==
  /\ clerk[c].task = "master"
  /\ Upsert(i, clerk[c].name)
  /\ Wrote(c, [clerk[c] EXCEPT !.task = "relate", !.super = i])
  /\ UNCHANGED <<area, person, skewed, behind>>

\* ... and relates the area to it.
MasterRelate(c) ==
  LET q == clerk[c] IN
  /\ q.task = "relate"
  /\ area' = [area EXCEPT ![q.code].super = q.super]
  /\ Skews({q.code}, q.overlapped)
  /\ Wrote(c, Idle)
  /\ UNCHANGED <<super, person, behind>>

-----------------------------------------------------------------------------
\* derivarDeArea, for those who create, update or complete a worker; and
\* migrate-master-data, for a worker without a code
Derive(c, p, a) ==
  /\ area[a].exists
  /\ Takes(c, [Idle EXCEPT !.task = "derive", !.person = p, !.code = a, !.name = area[a].text,
                 !.read = area[a].text])

\* A derivation that keeps the text the worker had
WriteCode(c) ==
  LET q == clerk[c] IN
  /\ q.task = "derive"
  /\ person' = [person EXCEPT ![q.person].code = q.code]
  /\ behind' = IF area[q.code].text # q.read THEN behind \cup {q.person} ELSE behind \ {q.person}
  /\ Wrote(c, Idle)
  /\ UNCHANGED <<super, area, skewed>>

\* ... and their write, of the text as it was derived
WritePerson(c) ==
  LET q == clerk[c] IN
  /\ q.task = "derive"
  /\ person' = [person EXCEPT ![q.person] = [code |-> q.code, text |-> q.name]]
  /\ behind' = IF area[q.code].text # q.read THEN behind \cup {q.person} ELSE behind \ {q.person}
  /\ Wrote(c, Idle)
  /\ UNCHANGED <<super, area, skewed>>

\* A worker written with a text and no code
WriteText(p, n) ==
  /\ person' = [person EXCEPT ![p].text = n]
  /\ behind' = behind \cup {p}
  /\ WroteAlone
  /\ UNCHANGED <<super, area, skewed>>

\* A check that fails, a statement that throws, a process that dies: a
\* renaming cut short leaves its areas with the old name, and the same request
\* sent again finds nothing to spread.
Abandon(c) ==
  /\ Busy(c)
  /\ skewed' = IF clerk[c].task = "spread" THEN skewed \cup AreasOf(clerk[c].super) ELSE skewed
  /\ clerk' = [clerk EXCEPT ![c] = Idle]
  /\ UNCHANGED <<super, area, person, behind>>

-----------------------------------------------------------------------------
AreasNext ==
  \/ \E i \in Supers, n \in Names :
       \/ CreateSuper(i, n)
       \/ \E c \in Clerks : ReadSuper(c, i, n)
       \/ \E c \in Clerks, a \in Codes : SyncSuper(c, a, i, n)
  \/ \E a \in Codes, n \in Names : SyncText(a, n)
  \/ \E p \in People, n \in Names : WriteText(p, n)
  \/ \E c \in Clerks, a \in Codes :
       \/ MasterRead(c, a)
       \/ \E i \in Supers : ReadForArea(c, a, i)
       \/ \E p \in People : Derive(c, p, a)
  \/ \E c \in Clerks, i \in Supers : MasterSuper(c, i)
  \/ \E c \in Clerks :
       \/ Rename(c) \/ Spread(c) \/ WriteArea(c) \/ MasterRelate(c) \/ WritePerson(c)
       \/ Abandon(c)

AreasSpec == AreasInit /\ [][AreasNext]_areaVars

-----------------------------------------------------------------------------
(***************************************************************************)
(* Properties.                                                             *)
(***************************************************************************)

BeingRenamed(i) == \E c \in Clerks : clerk[c].task = "spread" /\ clerk[c].super = i

\* AdminService, "re-denormalizar en las áreas hijas": an area carries the name
\* of its superintendencia, except while a new one is being spread, and unless
\* the operations that wrote the two overlapped, a renaming was cut short, or
\* migrate-sync-users wrote the text alone.
AreaNamesItsSuper ==
  \A a \in Codes :
    LET i == area[a].super IN
    area[a].exists /\ i # None /\ a \notin skewed /\ ~BeingRenamed(i) => area[a].text = super[i]

\* derivarDeArea, "El área maestra es la fuente de verdad": what a worker says
\* of its superintendencia is what its area says, until the area changes
\* (nothing carries that to the workers) or somebody writes the text by itself.
PersonAgreesWithArea ==
  \A p \in People :
    person[p].code # None /\ p \notin behind => person[p].text = area[person[p].code].text
=============================================================================
