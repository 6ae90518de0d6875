----------------------------- MODULE MCDirectory -----------------------------
(* The three parts of the directory share no variable: a behaviour takes the
   steps of one of them.  The workers are walked with three small instances. *)
EXTENDS Roles, Workers, Areas, TLC

VARIABLE part

Symmetry == Permutations(Editors) \cup Permutations(Requests)

Parts == {"roles", "links", "persons", "places", "areas"}

directoryVars == <<part, roleVars, workerVars, areaVars>>

RolesPart ==
  /\ part = "roles"
  /\ RolesNext
  /\ UNCHANGED <<part, workerVars, areaVars>>

NoAreas ==
  /\ \A w \in Ids : row'[w].area = "none"
  /\ \A r \in Requests : request'[r].area = "none"

\* links: one worker and all accounts; persons: all workers and no account;
\* places: one worker and his area.
WorkersPart ==
  /\ part \in {"links", "persons", "places"}
  /\ WorkersNext
  /\ part \in {"links", "places"} => rows' <= 1
  /\ part \in {"persons", "places"} => exists' = {}
  /\ part \in {"links", "persons"} => NoAreas
  /\ UNCHANGED <<part, roleVars, areaVars>>

AreasPart ==
  /\ part = "areas"
  /\ AreasNext
  /\ UNCHANGED <<part, roleVars, workerVars>>

Init == part \in Parts /\ RolesInit /\ WorkersInit /\ AreasInit

Next == RolesPart \/ WorkersPart \/ AreasPart

Spec == Init /\ [][Next]_directoryVars

-----------------------------------------------------------------------------
\* The rows and requests of the three parts keep their types.
DirectoryTypeOK == RolesTypeOK /\ WorkersTypeOK /\ AreasTypeOK
=============================================================================
