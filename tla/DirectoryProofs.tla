-------------------------- MODULE DirectoryProofs --------------------------
(***************************************************************************)
(* Proofs about the roles of services and accounts, the register of        *)
(* workers and the catalogue of areas (Roles, Workers, Areas), for every   *)
(* number of rows and of operations in flight, and about the three parts   *)
(* of MCDirectory side by side.                                            *)
(*                                                                         *)
(* The three have one argument.  What an operation in flight holds agrees  *)
(* with the tables as long as no other write came since it read them; a    *)
(* write tells all the others that they were overlapped, so that it can    *)
(* only disturb what those hold that know it.                              *)
(***************************************************************************)
EXTENDS MCDirectory, TLAPS

USE RolesAssumption, WorkersAssumption, AreasAssumption

-----------------------------------------------------------------------------
(* Roles.  What an operation in flight holds, unless another write came in  *)
(* between: its roles are known, what it read of a service is still there,  *)
(* and nobody holds the roles it has counted already.                       *)

KnownRoles == Catalog \cup excused

Unheld(count, accounts, accesses) ==
  IF count.of = "users"
    THEN \A u \in Accounts : count.role \notin accounts[u].roles
    ELSE \A u \in Accounts, s \in Services : count.role \notin accesses[u][s].roles

Giving == {"grant", "forms", "checkedUpdate", "create", "assign", "scriptAssign", "scriptRole",
           "consolidate"}

Fixed(q) ==
  /\ q.kind = "script" => ScriptRole \in q.roles
  /\ q.kind \in {"scriptAssign", "scriptRole"} => q.roles = {ScriptRole}

Sure(q, services, known, accounts, accesses) ==
  /\ q.kind \in Giving => q.roles \subseteq known
  /\ q.kind = "update" => q.read \subseteq known
  /\ q.kind = "script" => /\ q.roles = services[q.at].offered \cup {ScriptRole}
                          /\ q.map = services[q.at].mapped \cup {ScriptRole}
                          /\ q.read \subseteq known
  /\ q.kind = "catalog" =>
       \A role \in services[q.at].offered \ q.roles, of \in {"users", "accesses"} :
         LET count == [role |-> role, of |-> of] IN
         count \in q.checks \/ Unheld(count, accounts, accesses)

Holds(q, services, known, accounts, accesses) ==
  Fixed(q) /\ (~q.overlapped => Sure(q, services, known, accounts, accesses))

EditsHold == \A e \in Editors : Holds(edit[e], service, KnownRoles, account, access)

\* A service that is not created yet gives no permissions.
NoMapBefore == \A s \in Services : service[s].state = "none" => service[s].mapped = {}

RolesInv == RolesTypeOK /\ EditsHold /\ NoMapBefore /\ HeldRolesAreOffered /\ MapFollowsCatalog

LEMMA NoEditFields ==
  ASSUME NEW services, NEW known, NEW accounts, NEW accesses
  PROVE  /\ NoEdit \in Edit /\ NoEdit.kind = "none"
         /\ Holds(NoEdit, services, known, accounts, accesses)
<1>1. (CHOOSE u \in Accounts : TRUE) \in Accounts /\ (CHOOSE s \in Services : TRUE) \in Services
  OBVIOUS
<1>2. NoEdit \in Edit /\ NoEdit.kind = "none"
  BY <1>1 DEF NoEdit, Edit, Kind
<1>3. QED
  BY <1>2 DEF Holds, Fixed, Sure, Giving

LEMMA RolesInitial == RolesInit => RolesInv
<1> SUFFICES ASSUME RolesInit PROVE RolesInv
  OBVIOUS
<1>1. RolesTypeOK
  BY NoEditFields DEF RolesInit, RolesTypeOK, Service, Account, Access
<1>2. EditsHold
  BY NoEditFields DEF RolesInit, EditsHold
<1>3. NoMapBefore /\ HeldRolesAreOffered /\ MapFollowsCatalog
  BY DEF RolesInit, NoMapBefore, HeldRolesAreOffered, MapFollowsCatalog
<1>4. QED
  BY <1>1, <1>2, <1>3 DEF RolesInv

\* An operation that saw a write
Warned(q) == [q EXCEPT !.overlapped = q.kind # "none"]

LEMMA WarnedHolds ==
  ASSUME NEW q \in Edit, Fixed(q), NEW services, NEW known, NEW accounts, NEW accesses
  PROVE  Warned(q) \in Edit /\ Holds(Warned(q), services, known, accounts, accesses)
<1>1. PICK x : x = Warned(q)
  OBVIOUS
<1>2. x \in Edit /\ x.overlapped = (q.kind # "none") /\ x.kind = q.kind /\ x.roles = q.roles
  BY <1>1 DEF Warned, Edit
<1>3. Fixed(x)
  BY <1>2 DEF Fixed
<1>4. ~x.overlapped => Sure(x, services, known, accounts, accesses)
  BY <1>2 DEF Sure, Giving
<1>5. QED
  BY <1>1, <1>2, <1>3, <1>4 DEF Holds

LEMMA WriteSeenHolds ==
  ASSUME RolesInv, NEW e \in Editors, NEW next \in Edit, WriteSeen(e, next),
         Holds(next, service', KnownRoles', account', access')
  PROVE  edit' \in [Editors -> Edit] /\ EditsHold'
<1>1. \A x \in Editors : edit'[x] = IF x = e THEN next ELSE Warned(edit[x])
  BY DEF WriteSeen, Warned, InFlight
<1>2. ASSUME NEW x \in Editors
      PROVE  edit'[x] \in Edit /\ Holds(edit'[x], service', KnownRoles', account', access')
  <2>1. edit[x] \in Edit /\ Fixed(edit[x])
    BY DEF RolesInv, RolesTypeOK, EditsHold, Holds
  <2>2. QED
    BY <1>1, <2>1, WarnedHolds
<1>3. edit' = [x \in Editors |-> edit'[x]]
  BY Zenon DEF WriteSeen
<1>4. QED
  BY <1>2, <1>3 DEF EditsHold

LEMMA AllSeeHolds ==
  ASSUME RolesInv, AllSee
  PROVE  edit' \in [Editors -> Edit] /\ EditsHold'
<1>1. \A x \in Editors : edit'[x] = Warned(edit[x])
  BY DEF AllSee, Warned, InFlight
<1>2. ASSUME NEW x \in Editors
      PROVE  edit'[x] \in Edit /\ Holds(edit'[x], service', KnownRoles', account', access')
  <2>1. edit[x] \in Edit /\ Fixed(edit[x])
    BY DEF RolesInv, RolesTypeOK, EditsHold, Holds
  <2>2. QED
    BY <1>1, <2>1, WarnedHolds
<1>3. edit' = [x \in Editors |-> edit'[x]]
  BY Zenon DEF AllSee
<1>4. QED
  BY <1>2, <1>3 DEF EditsHold

\* An operation begins, goes on or ends.
LEMMA NoWriteStep ==
  ASSUME RolesInv, NEW e \in Editors, NEW q \in Edit, edit' = [edit EXCEPT ![e] = q],
         Holds(q, service, KnownRoles, account, access),
         UNCHANGED <<service, account, access, excused, loose>>
  PROVE  RolesInv'
<1>1. edit \in [Editors -> Edit] /\ KnownRoles' = KnownRoles
  BY DEF RolesInv, RolesTypeOK, KnownRoles, Catalog, Present
<1>2. /\ edit' \in [Editors -> Edit] /\ edit'[e] = q
      /\ \A x \in Editors \ {e} : edit'[x] = edit[x]
  BY <1>1
<1>3. RolesTypeOK'
  BY <1>2 DEF RolesInv, RolesTypeOK
<1>4. EditsHold'
  BY <1>1, <1>2 DEF RolesInv, EditsHold
<1>5. NoMapBefore' /\ HeldRolesAreOffered' /\ MapFollowsCatalog'
  BY <1>1 DEF RolesInv, NoMapBefore, HeldRolesAreOffered, MapFollowsCatalog, Present, KnownRoles
<1>6. QED
  BY <1>3, <1>4, <1>5 DEF RolesInv

\* Accounts and accesses are written, with roles that are known afterwards.
LEMMA GiveStep ==
  ASSUME RolesInv, UNCHANGED <<service, loose>>,
         account' \in [Accounts -> Account], access' \in [Accounts -> [Services -> Access]],
         excused \subseteq excused', excused' \subseteq RoleNames,
         \A u \in Accounts : account'[u].roles \subseteq KnownRoles \cup excused',
         \A u \in Accounts, s \in Services : access'[u][s].roles \subseteq KnownRoles \cup excused',
         edit' \in [Editors -> Edit], EditsHold'
  PROVE  RolesInv'
<1>1. Catalog' = Catalog
  BY DEF Catalog, Present
<1>2. HeldRolesAreOffered'
  BY <1>1 DEF HeldRolesAreOffered, KnownRoles
<1>3. RolesTypeOK' /\ NoMapBefore' /\ MapFollowsCatalog'
  BY DEF RolesInv, RolesTypeOK, NoMapBefore, MapFollowsCatalog, Present
<1>4. QED
  BY <1>2, <1>3 DEF RolesInv

\* One service is written.
LEMMA ServiceStep ==
  ASSUME RolesInv, NEW s \in Services, NEW new \in Service, service' = [service EXCEPT ![s] = new],
         account' = account, access' \in [Accounts -> [Services -> Access]],
         \A u \in Accounts, t \in Services : access'[u][t].roles \subseteq access[u][t].roles,
         excused \subseteq excused', excused' \subseteq RoleNames, loose' \subseteq Services,
         \A t \in Services \ {s} : t \in loose => t \in loose',
         new.state # "none" \/ new.mapped = {},
         new.state = "present" /\ s \notin loose' => new.mapped \subseteq new.offered,
         \A role \in service[s].offered :
           \/ Present(s) => new.state = "present" /\ role \in new.offered
           \/ role \in excused'
           \/ /\ \A u \in Accounts : role \notin account[u].roles
              /\ \A u \in Accounts, t \in Services : role \notin access[u][t].roles,
         edit' \in [Editors -> Edit], EditsHold'
  PROVE  RolesInv'
<1>1. /\ service \in [Services -> Service] /\ service' \in [Services -> Service]
      /\ service'[s] = new /\ \A t \in Services \ {s} : service'[t] = service[t]
  BY DEF RolesInv, RolesTypeOK
<1>2. RolesTypeOK'
  BY <1>1 DEF RolesInv, RolesTypeOK
<1>3. NoMapBefore' /\ MapFollowsCatalog'
  BY <1>1 DEF RolesInv, NoMapBefore, MapFollowsCatalog, Present
<1>4. ASSUME NEW role \in Catalog,
             ~ /\ \A u \in Accounts : role \notin account[u].roles
               /\ \A u \in Accounts, t \in Services : role \notin access[u][t].roles
      PROVE  role \in Catalog' \cup excused'
  <2>1. PICK t \in Services : Present(t) /\ role \in service[t].offered
    BY DEF Catalog
  <2>2. CASE t = s
    BY <1>1, <1>4, <2>1, <2>2 DEF Catalog, Present
  <2>3. CASE t # s
    BY <1>1, <2>1, <2>3 DEF Catalog, Present
  <2>4. QED
    BY <2>2, <2>3
<1>5. ASSUME NEW u \in Accounts, NEW role \in account[u].roles
      PROVE  role \in Catalog' \cup excused'
  BY <1>4 DEF RolesInv, HeldRolesAreOffered
<1>6. ASSUME NEW u \in Accounts, NEW t \in Services, NEW role \in access[u][t].roles
      PROVE  role \in Catalog' \cup excused'
  BY <1>4, <1>6 DEF RolesInv, HeldRolesAreOffered
<1>7. HeldRolesAreOffered'
  BY <1>5, <1>6 DEF HeldRolesAreOffered
<1>8. QED
  BY <1>2, <1>3, <1>7 DEF RolesInv

\* What the invariant says of an operation in flight
LEMMA EditFields ==
  ASSUME RolesInv, NEW e \in Editors
  PROVE  /\ edit[e] \in Edit /\ Fixed(edit[e])
         /\ ~edit[e].overlapped => Sure(edit[e], service, KnownRoles, account, access)
         /\ edit[e].of \in Accounts /\ edit[e].at \in Services /\ edit[e].roles \subseteq RoleNames
         /\ edit[e].overlapped \in BOOLEAN
<1>1. /\ edit[e] \in Edit /\ Fixed(edit[e])
      /\ ~edit[e].overlapped => Sure(edit[e], service, KnownRoles, account, access)
  BY DEF RolesInv, RolesTypeOK, EditsHold, Holds
<1>2. PICK q \in Edit : q = edit[e]
  BY <1>1
<1>3. q.of \in Accounts /\ q.at \in Services /\ q.roles \subseteq RoleNames /\ q.overlapped \in BOOLEAN
  BY DEF Edit
<1>4. QED
  BY <1>1, <1>2, <1>3

\* What a write excuses
LEMMA ExcuseFields ==
  ASSUME RolesInv, NEW e \in Editors, NEW roles \in SUBSET RoleNames, Excuse(e, roles)
  PROVE  /\ excused \subseteq excused' /\ excused' \subseteq RoleNames
         /\ edit[e].overlapped => roles \subseteq excused'
BY DEF Excuse, RolesInv, RolesTypeOK

LEMMA TableTypes ==
  ASSUME RolesInv
  PROVE  /\ service \in [Services -> Service] /\ account \in [Accounts -> Account]
         /\ access \in [Accounts -> [Services -> Access]] /\ edit \in [Editors -> Edit]
         /\ excused \subseteq RoleNames /\ loose \subseteq Services
         /\ \A s \in Services : service[s].offered \subseteq RoleNames
                                  /\ service[s].mapped \subseteq RoleNames
         /\ \A u \in Accounts : account[u].roles \subseteq RoleNames
                                  /\ account[u].roles \subseteq KnownRoles
         /\ \A u \in Accounts, s \in Services :
              access[u][s] \in Access /\ access[u][s].roles \subseteq RoleNames
                /\ access[u][s].roles \subseteq KnownRoles
         /\ KnownRoles \subseteq RoleNames
<1>1. /\ service \in [Services -> Service] /\ account \in [Accounts -> Account]
      /\ access \in [Accounts -> [Services -> Access]] /\ edit \in [Editors -> Edit]
      /\ excused \subseteq RoleNames /\ loose \subseteq Services
  BY DEF RolesInv, RolesTypeOK
<1>2. \A s \in Services : service[s].offered \subseteq RoleNames /\ service[s].mapped \subseteq RoleNames
  BY <1>1 DEF Service
<1>3. \A u \in Accounts : account[u].roles \subseteq RoleNames
  BY <1>1 DEF Account
<1>4. \A u \in Accounts, s \in Services : access[u][s] \in Access
  BY <1>1
<1>5. \A u \in Accounts, s \in Services : access[u][s].roles \subseteq RoleNames
  BY <1>4 DEF Access
<1>6. KnownRoles \subseteq RoleNames
  BY <1>1, <1>2 DEF KnownRoles, Catalog
<1>7. QED
  BY <1>1, <1>2, <1>3, <1>4, <1>5, <1>6 DEF RolesInv, HeldRolesAreOffered, KnownRoles

\* One access is written.
LEMMA AccessFields ==
  ASSUME access \in [Accounts -> [Services -> Access]], NEW u \in Accounts, NEW s \in Services,
         NEW new \in Access, access' = [access EXCEPT ![u][s] = new]
  PROVE  /\ access' \in [Accounts -> [Services -> Access]] /\ access'[u][s] = new
         /\ \A v \in Accounts, t \in Services : (v = u /\ t = s) \/ access'[v][t] = access[v][t]
OBVIOUS

LEMMA StartStep ==
  ASSUME RolesInv, NEW e \in Editors, NEW q \in Edit, Starts(e, q),
         Holds(q, service, KnownRoles, account, access)
  PROVE  RolesInv'
BY NoWriteStep DEF Starts

\* What a service offers is known, and so is what somebody holds.
LEMMA CatalogKnown == Catalog \subseteq KnownRoles
BY DEF KnownRoles

-----------------------------------------------------------------------------
\* Services and their catalogs

LEMMA CreateServiceStep ==
  ASSUME RolesInv, NEW s \in Services, CreateService(s)
  PROVE  RolesInv'
<1>1. PICK old \in Service : old = service[s]
  BY TableTypes
<1>2. PICK new : new = [old EXCEPT !.state = "present"]
  OBVIOUS
<1>3. /\ new \in Service /\ new.state = "present" /\ new.offered = old.offered
      /\ new.mapped = old.mapped
  BY <1>2 DEF Service
<1>4. service' = [service EXCEPT ![s] = new]
  BY <1>1, <1>2, TableTypes DEF CreateService
<1>5. /\ old.state = "none" /\ AllSee /\ UNCHANGED <<account, access, excused, loose>>
  BY <1>1 DEF CreateService
<1>6. old.mapped = {}
  BY <1>1, <1>5 DEF RolesInv, NoMapBefore
<1>7. QED
  BY <1>1, <1>3, <1>4, <1>5, <1>6, TableTypes, ServiceStep, AllSeeHolds

LEMMA ReadServiceStep ==
  ASSUME RolesInv, NEW e \in Editors, NEW s \in Services, NEW wanted \in SUBSET RoleNames,
         NEW map \in {service[s].mapped} \cup SUBSET wanted, ReadService(e, s, wanted, map)
  PROVE  RolesInv'
<1>1. PICK checks : checks = [role : service[s].offered \ wanted, of : {"users", "accesses"}]
  OBVIOUS
<1>2. checks \subseteq Count /\ map \subseteq RoleNames
  BY <1>1, TableTypes DEF Count
<1>3. PICK t \in Edit : t = NoEdit
  BY NoEditFields
<1>4. PICK q : q = [NoEdit EXCEPT !.kind = "catalog", !.at = s, !.roles = wanted, !.map = map,
                      !.checks = checks]
  OBVIOUS
<1>5. q \in Edit /\ q.kind = "catalog" /\ q.at = s /\ q.roles = wanted /\ q.checks = checks
  BY <1>2, <1>3, <1>4 DEF Edit, Kind
<1>6. Holds(q, service, KnownRoles, account, access)
  BY <1>1, <1>5 DEF Holds, Fixed, Sure, Giving
<1>7. Starts(e, q)
  BY <1>1, <1>4 DEF ReadService
<1>8. QED
  BY <1>5, <1>6, <1>7, StartStep

LEMMA CountStep ==
  ASSUME RolesInv, NEW e \in Editors, NEW count \in edit[e].checks, CountHolders(e, count)
  PROVE  RolesInv'
<1>1. PICK old \in Edit : old = edit[e]
  BY EditFields
<1>2. old.kind = "catalog" /\ (~old.overlapped => Sure(old, service, KnownRoles, account, access))
  BY <1>1, EditFields DEF CountHolders
<1>3. PICK q : q = [old EXCEPT !.checks = old.checks \ {count}]
  OBVIOUS
<1>4. /\ q \in Edit /\ q.kind = "catalog" /\ q.at = old.at /\ q.roles = old.roles
      /\ q.checks = old.checks \ {count} /\ q.overlapped = old.overlapped
  BY <1>2, <1>3 DEF Edit
<1>5. Unheld(count, account, access)
  BY DEF CountHolders, NobodyHas, Unheld
<1>6. ASSUME ~old.overlapped
      PROVE  Sure(q, service, KnownRoles, account, access)
  <2>1. ASSUME NEW role \in service[q.at].offered \ q.roles, NEW of \in {"users", "accesses"},
               NEW c, c = [role |-> role, of |-> of]
        PROVE  c \in q.checks \/ Unheld(c, account, access)
    <3>1. c \in old.checks \/ Unheld(c, account, access)
      BY <1>2, <1>4, <1>6, <2>1 DEF Sure
    <3>2. QED
      BY <1>4, <1>5, <3>1
  <2>2. QED
    BY <1>4, <2>1 DEF Sure, Giving
<1>7. Holds(q, service, KnownRoles, account, access)
  BY <1>4, <1>6 DEF Holds, Fixed
<1>8. edit' = [edit EXCEPT ![e] = q] /\ UNCHANGED <<service, account, access, excused, loose>>
  BY <1>1, <1>3, TableTypes DEF CountHolders
<1>9. QED
  BY <1>4, <1>7, <1>8, NoWriteStep

LEMMA WriteServiceStep ==
  ASSUME RolesInv, NEW e \in Editors, WriteService(e)
  PROVE  RolesInv'
<1>1. PICK q \in Edit : q = edit[e]
  BY EditFields
<1>2. /\ q.kind = "catalog" /\ q.checks = {} /\ q.at \in Services /\ q.roles \subseteq RoleNames
      /\ ~q.overlapped => Sure(q, service, KnownRoles, account, access)
      /\ q.map \subseteq RoleNames
  BY <1>1, EditFields DEF WriteService, Edit
<1>3. PICK s \in Services : s = q.at
  BY <1>2
<1>4. PICK old \in Service : old = service[s]
  BY TableTypes
<1>5. PICK new : new = [old EXCEPT !.offered = q.roles, !.mapped = q.map \cap q.roles]
  OBVIOUS
<1>6. /\ new \in Service /\ new.state = old.state /\ new.offered = q.roles
      /\ new.mapped = q.map \cap q.roles
  BY <1>2, <1>5 DEF Service
<1>7. service' = [service EXCEPT ![s] = new]
  BY <1>1, <1>3, <1>4, <1>5, TableTypes DEF WriteService
<1>8. /\ Present(s) /\ Excuse(e, service[s].offered \ q.roles) /\ loose' = loose \ {s}
      /\ WriteSeen(e, NoEdit) /\ UNCHANGED <<account, access>>
  BY <1>1, <1>3 DEF WriteService
<1>9. /\ excused \subseteq excused' /\ excused' \subseteq RoleNames
      /\ q.overlapped => service[s].offered \ q.roles \subseteq excused'
  BY <1>1, <1>8, TableTypes, ExcuseFields
<1>10. ASSUME NEW role \in service[s].offered, role \notin new.offered, role \notin excused'
       PROVE  /\ \A u \in Accounts : role \notin account[u].roles
              /\ \A u \in Accounts, t \in Services : role \notin access[u][t].roles
  <2>1. Sure(q, service, KnownRoles, account, access) /\ role \in service[q.at].offered \ q.roles
    BY <1>2, <1>3, <1>6, <1>9, <1>10
  <2>2. /\ Unheld([role |-> role, of |-> "users"], account, access)
        /\ Unheld([role |-> role, of |-> "accesses"], account, access)
    BY <1>2, <2>1 DEF Sure
  <2>3. QED
    BY <2>2 DEF Unheld
<1>11. new.state = "present" /\ new.mapped \subseteq new.offered
  BY <1>4, <1>6, <1>8 DEF Present
<1>12. edit' \in [Editors -> Edit] /\ EditsHold'
  BY <1>8, NoEditFields, WriteSeenHolds
<1>13. QED
  BY <1>6, <1>7, <1>8, <1>9, <1>10, <1>11, <1>12, TableTypes, ServiceStep

LEMMA WritePermissionsStep ==
  ASSUME RolesInv, NEW s \in Services, NEW map \in SUBSET RoleNames, WritePermissions(s, map)
  PROVE  RolesInv'
<1>1. PICK old \in Service : old = service[s]
  BY TableTypes
<1>2. PICK new : new = [old EXCEPT !.mapped = map]
  OBVIOUS
<1>3. new \in Service /\ new.state = old.state /\ new.offered = old.offered
  BY <1>2 DEF Service
<1>4. service' = [service EXCEPT ![s] = new]
  BY <1>1, <1>2, TableTypes DEF WritePermissions
<1>5. /\ old.state = "present" /\ loose' = loose \cup {s} /\ AllSee
      /\ UNCHANGED <<account, access, excused>>
  BY <1>1 DEF WritePermissions, Present
<1>6. edit' \in [Editors -> Edit] /\ EditsHold'
  BY <1>5, AllSeeHolds
<1>7. QED
  BY <1>1, <1>3, <1>4, <1>5, <1>6, TableTypes, ServiceStep

LEMMA DeleteServiceStep ==
  ASSUME RolesInv, NEW s \in Services, DeleteService(s)
  PROVE  RolesInv'
<1>1. PICK old \in Service : old = service[s]
  BY TableTypes
<1>2. PICK new : new = [old EXCEPT !.state = "deleted"]
  OBVIOUS
<1>3. new \in Service /\ new.state = "deleted"
  BY <1>2 DEF Service
<1>4. service' = [service EXCEPT ![s] = new]
  BY <1>1, <1>2, TableTypes DEF DeleteService
<1>5. /\ access' = [u \in Accounts |->
                      [access[u] EXCEPT ![s] = [state |-> "none", roles |-> {}]]]
      /\ excused' = excused \cup service[s].offered /\ AllSee /\ UNCHANGED <<account, loose>>
  BY DEF DeleteService
<1>6. PICK gone \in Access : gone = [state |-> "none", roles |-> {}]
  BY DEF Access
<1>7. gone.roles = {}
  BY <1>6
<1>8. access' = [u \in Accounts |-> [access[u] EXCEPT ![s] = gone]]
  BY <1>5, <1>6
<1>9. /\ access' \in [Accounts -> [Services -> Access]]
      /\ \A u \in Accounts, t \in Services : access'[u][t] = IF t = s THEN gone ELSE access[u][t]
  BY <1>8, TableTypes
<1>10. edit' \in [Editors -> Edit] /\ EditsHold'
  BY <1>5, AllSeeHolds
<1>11. QED
  BY <1>3, <1>4, <1>5, <1>7, <1>9, <1>10, TableTypes, ServiceStep

LEMMA SeedStep ==
  ASSUME RolesInv, NEW s \in Services, NEW whole \in BOOLEAN, Seed(s, whole)
  PROVE  RolesInv'
<1>1. PICK map : map = IF whole THEN SeededRoles ELSE service[s].mapped
  OBVIOUS
<1>2. PICK new : new = [state |-> "present", offered |-> SeededRoles, mapped |-> map]
  OBVIOUS
<1>3. /\ new \in Service /\ new.state = "present" /\ new.offered = SeededRoles /\ new.mapped = map
  BY <1>1, <1>2, TableTypes DEF Service
<1>4. service' = [service EXCEPT ![s] = new]
  BY <1>1, <1>2, TableTypes DEF Seed
<1>5. /\ excused' = excused \cup (service[s].offered \ SeededRoles)
      /\ loose' = IF whole THEN loose \ {s} ELSE loose \cup {s}
      /\ AllSee /\ UNCHANGED <<account, access>>
  BY DEF Seed
<1>6. edit' \in [Editors -> Edit] /\ EditsHold'
  BY <1>5, AllSeeHolds
<1>7. s \in loose' \/ new.mapped \subseteq new.offered
  BY <1>1, <1>3, <1>5
<1>8. QED
  BY <1>3, <1>4, <1>5, <1>6, <1>7, TableTypes, ServiceStep

-----------------------------------------------------------------------------
\* Accounts and their accesses

LEMMA GrantStarts ==
  ASSUME RolesInv, NEW e \in Editors, NEW u \in Accounts, NEW s \in Services,
         NEW roles \in SUBSET RoleNames, CheckGrant(e, u, s, roles)
  PROVE  RolesInv'
<1>1. PICK q : q = [NoEdit EXCEPT !.kind = "grant", !.of = u, !.at = s, !.roles = roles]
  OBVIOUS
<1>2. PICK t \in Edit : t = NoEdit
  BY NoEditFields
<1>3. q \in Edit /\ q.kind = "grant" /\ q.roles = roles
  BY <1>1, <1>2 DEF Edit, Kind
<1>4. roles \subseteq KnownRoles /\ Starts(e, q)
  BY <1>1 DEF CheckGrant, RolesOfService, KnownRoles, Catalog
<1>5. Holds(q, service, KnownRoles, account, access)
  BY <1>3, <1>4 DEF Holds, Fixed, Sure
<1>6. QED
  BY <1>3, <1>4, <1>5, StartStep

LEMMA RevokeStarts ==
  ASSUME RolesInv, NEW e \in Editors, NEW u \in Accounts, NEW s \in Services, CheckRevoke(e, u, s)
  PROVE  RolesInv'
<1>1. PICK roles \in SUBSET RoleNames : roles = access[u][s].roles
  BY TableTypes
<1>2. PICK q : q = [NoEdit EXCEPT !.kind = "revoke", !.of = u, !.at = s, !.roles = roles]
  OBVIOUS
<1>3. PICK t \in Edit : t = NoEdit
  BY NoEditFields
<1>4. q \in Edit /\ q.kind = "revoke"
  BY <1>2, <1>3 DEF Edit, Kind
<1>5. Holds(q, service, KnownRoles, account, access)
  BY <1>4 DEF Holds, Fixed, Sure, Giving
<1>6. Starts(e, q)
  BY <1>1, <1>2 DEF CheckRevoke
<1>7. QED
  BY <1>4, <1>5, <1>6, StartStep

\* The roles an operation gives are known once it has given them.
LEMMA GivenKnown ==
  ASSUME RolesInv, NEW e \in Editors, edit[e].kind \in Giving, Excuse(e, edit[e].roles)
  PROVE  /\ edit[e].roles \subseteq KnownRoles \cup excused'
         /\ excused \subseteq excused' /\ excused' \subseteq RoleNames
<1>1. PICK q \in Edit : q = edit[e]
  BY EditFields
<1>2. /\ q.roles \subseteq RoleNames /\ q.kind \in Giving
      /\ ~q.overlapped => Sure(q, service, KnownRoles, account, access)
  BY <1>1, EditFields
<1>3. ~q.overlapped => q.roles \subseteq KnownRoles
  BY <1>2 DEF Sure
<1>4. QED
  BY <1>1, <1>2, <1>3, ExcuseFields

LEMMA WriteAccessStep ==
  ASSUME RolesInv, NEW e \in Editors, WriteAccess(e)
  PROVE  RolesInv'
<1>1. PICK u \in Accounts, s \in Services, roles \in SUBSET RoleNames :
        u = edit[e].of /\ s = edit[e].at /\ roles = edit[e].roles
  BY EditFields
<1>2. /\ Excuse(e, roles) /\ WriteSeen(e, NoEdit) /\ UNCHANGED <<service, account, loose>>
  BY <1>1 DEF WriteAccess
<1>3. edit' \in [Editors -> Edit] /\ EditsHold'
  BY <1>2, NoEditFields, WriteSeenHolds
<1>4. excused \subseteq excused' /\ excused' \subseteq RoleNames
  BY <1>2, ExcuseFields
<1>5. ASSUME NEW new \in Access, access' = [access EXCEPT ![u][s] = new],
             new.roles \subseteq KnownRoles \cup excused'
      PROVE  RolesInv'
  BY <1>2, <1>3, <1>4, <1>5, AccessFields, TableTypes, GiveStep
<1>6. CASE /\ edit[e].kind \in {"grant", "forms"}
           /\ access' = [access EXCEPT ![u][s] = [state |-> "granted", roles |-> roles]]
  <2>1. PICK new : new = [state |-> "granted", roles |-> roles]
    OBVIOUS
  <2>2. new \in Access /\ new.roles = roles
    BY <2>1 DEF Access
  <2>3. roles \subseteq KnownRoles \cup excused'
    BY <1>1, <1>2, <1>6, GivenKnown DEF Giving
  <2>4. QED
    BY <1>5, <1>6, <2>1, <2>2, <2>3
<1>7. CASE access' = [access EXCEPT ![u][s].state = "revoked"]
  <2>1. PICK old \in Access : old = access[u][s]
    BY TableTypes
  <2>2. PICK new : new = [old EXCEPT !.state = "revoked"]
    OBVIOUS
  <2>3. new \in Access /\ new.roles = old.roles
    BY <2>2 DEF Access
  <2>4. access' = [access EXCEPT ![u][s] = new]
    BY <1>7, <2>1, <2>2, TableTypes
  <2>5. QED
    BY <1>5, <2>1, <2>3, <2>4, TableTypes
<1>8. QED
  BY <1>1, <1>6, <1>7 DEF WriteAccess

LEMMA ReadUserStep ==
  ASSUME RolesInv, NEW e \in Editors, NEW u \in Accounts, NEW roles \in SUBSET RoleNames,
         ReadUser(e, u, roles)
  PROVE  RolesInv'
<1>1. PICK read \in SUBSET RoleNames : read = account[u].roles
  BY TableTypes
<1>2. PICK q : q = [NoEdit EXCEPT !.kind = "update", !.of = u, !.roles = roles, !.read = read]
  OBVIOUS
<1>3. PICK t \in Edit : t = NoEdit
  BY NoEditFields
<1>4. q \in Edit /\ q.kind = "update" /\ q.read = read
  BY <1>2, <1>3 DEF Edit, Kind
<1>5. read \subseteq KnownRoles
  BY <1>1, TableTypes
<1>6. Holds(q, service, KnownRoles, account, access)
  BY <1>4, <1>5 DEF Holds, Fixed, Sure, Giving
<1>7. Starts(e, q)
  BY <1>1, <1>2 DEF ReadUser
<1>8. QED
  BY <1>4, <1>6, <1>7, StartStep

LEMMA CheckUserStep ==
  ASSUME RolesInv, NEW e \in Editors, CheckUser(e)
  PROVE  RolesInv'
<1>1. PICK old \in Edit : old = edit[e]
  BY EditFields
<1>2. /\ old.kind = "update" /\ RolesExist(old.roles, old.read)
      /\ ~old.overlapped => Sure(old, service, KnownRoles, account, access)
  BY <1>1, EditFields DEF CheckUser
<1>3. PICK q : q = [old EXCEPT !.kind = "checkedUpdate", !.read = {}]
  OBVIOUS
<1>4. /\ q \in Edit /\ q.kind = "checkedUpdate" /\ q.roles = old.roles
      /\ q.overlapped = old.overlapped
  BY <1>3 DEF Edit, Kind
<1>5. ~old.overlapped => old.roles \subseteq KnownRoles
  BY <1>2, CatalogKnown DEF Sure, RolesExist
<1>6. Holds(q, service, KnownRoles, account, access)
  BY <1>4, <1>5 DEF Holds, Fixed, Sure
<1>7. edit' = [edit EXCEPT ![e] = q] /\ UNCHANGED <<service, account, access, excused, loose>>
  BY <1>1, <1>3, TableTypes DEF CheckUser
<1>8. QED
  BY <1>4, <1>6, <1>7, NoWriteStep

LEMMA CheckCreateStep ==
  ASSUME RolesInv, NEW e \in Editors, NEW u \in Accounts, NEW roles \in SUBSET RoleNames,
         NEW kind \in {"create", "assign"}, CheckCreate(e, u, roles, kind)
  PROVE  RolesInv'
<1>1. PICK q : q = [NoEdit EXCEPT !.kind = kind, !.of = u, !.roles = roles]
  OBVIOUS
<1>2. PICK t \in Edit : t = NoEdit
  BY NoEditFields
<1>3. q \in Edit /\ q.kind = kind /\ q.roles = roles
  BY <1>1, <1>2 DEF Edit, Kind
<1>4. roles \subseteq KnownRoles /\ Starts(e, q)
  BY <1>1, CatalogKnown DEF CheckCreate, RolesExist
<1>5. Holds(q, service, KnownRoles, account, access)
  BY <1>3, <1>4 DEF Holds, Fixed, Sure
<1>6. QED
  BY <1>3, <1>4, <1>5, StartStep

LEMMA WriteUserStep ==
  ASSUME RolesInv, NEW e \in Editors, WriteUser(e)
  PROVE  RolesInv'
<1>1. PICK u \in Accounts, roles \in SUBSET RoleNames : u = edit[e].of /\ roles = edit[e].roles
  BY EditFields
<1>2. /\ edit[e].kind \in Giving /\ Excuse(e, roles) /\ UNCHANGED <<service, access, loose>>
      /\ account' = [account EXCEPT ![u] = [exists |-> TRUE, roles |-> roles]]
  BY <1>1 DEF WriteUser, Giving
<1>3. /\ roles \subseteq KnownRoles \cup excused'
      /\ excused \subseteq excused' /\ excused' \subseteq RoleNames
  BY <1>1, <1>2, GivenKnown
<1>4. PICK new : new = [exists |-> TRUE, roles |-> roles]
  OBVIOUS
<1>5. new \in Account /\ new.roles = roles
  BY <1>4 DEF Account
<1>6. /\ account' \in [Accounts -> Account]
      /\ \A v \in Accounts : account'[v] = IF v = u THEN new ELSE account[v]
  BY <1>2, <1>4, <1>5, TableTypes
<1>7. PICK t \in Edit : t = NoEdit
  BY NoEditFields
<1>8. PICK forms : forms = [NoEdit EXCEPT !.kind = "forms", !.of = u, !.at = Forms, !.roles = roles]
  OBVIOUS
<1>9. forms \in Edit /\ forms.kind = "forms" /\ forms.roles = roles
  BY <1>7, <1>8 DEF Edit, Kind
<1>10. KnownRoles \cup excused' \subseteq KnownRoles'
  BY <1>2, <1>3 DEF KnownRoles, Catalog, Present
<1>11. Holds(forms, service', KnownRoles', account', access')
  BY <1>3, <1>9, <1>10 DEF Holds, Fixed, Sure
<1>12. WriteSeen(e, forms) \/ WriteSeen(e, NoEdit)
  BY <1>1, <1>8 DEF WriteUser
<1>13. edit' \in [Editors -> Edit] /\ EditsHold'
  BY <1>9, <1>11, <1>12, NoEditFields, WriteSeenHolds
<1>14. QED
  BY <1>2, <1>3, <1>5, <1>6, <1>13, TableTypes, GiveStep

-----------------------------------------------------------------------------
\* Scripts

LEMMA ScriptReadsStep ==
  ASSUME RolesInv, NEW e \in Editors, NEW s \in Services, NEW u \in Accounts, ScriptReads(e, s, u)
  PROVE  RolesInv'
<1>1. PICK roles \in SUBSET RoleNames, map \in SUBSET RoleNames, read \in SUBSET RoleNames :
        /\ roles = service[s].offered \cup {ScriptRole} /\ map = service[s].mapped \cup {ScriptRole}
        /\ read = service[s].offered \cap service[s].mapped
  BY TableTypes
<1>2. PICK q : q = [NoEdit EXCEPT !.kind = "script", !.at = s, !.of = u, !.roles = roles, !.map = map,
                       !.read = read]
  OBVIOUS
<1>3. PICK t \in Edit : t = NoEdit
  BY NoEditFields
<1>4. /\ q \in Edit /\ q.kind = "script" /\ q.at = s /\ q.roles = roles /\ q.map = map
      /\ q.read = read
  BY <1>2, <1>3 DEF Edit, Kind
<1>5. read \subseteq KnownRoles
  BY <1>1 DEF ScriptReads, KnownRoles, Catalog
<1>6. Holds(q, service, KnownRoles, account, access)
  BY <1>1, <1>4, <1>5 DEF Holds, Fixed, Sure, Giving
<1>7. Starts(e, q)
  BY <1>1, <1>2 DEF ScriptReads
<1>8. QED
  BY <1>4, <1>6, <1>7, StartStep

LEMMA ScriptSkipsStep ==
  ASSUME RolesInv, NEW e \in Editors, ScriptSkips(e)
  PROVE  RolesInv'
<1>1. PICK old \in Edit : old = edit[e]
  BY EditFields
<1>2. /\ old.kind = "script" /\ ScriptRole \in old.read
      /\ ~old.overlapped => Sure(old, service, KnownRoles, account, access)
  BY <1>1, EditFields DEF ScriptSkips
<1>3. PICK q : q = [old EXCEPT !.kind = "scriptAssign", !.roles = {ScriptRole}, !.map = {},
                      !.read = {}]
  OBVIOUS
<1>4. /\ q \in Edit /\ q.kind = "scriptAssign" /\ q.roles = {ScriptRole}
      /\ q.overlapped = old.overlapped
  BY <1>3 DEF Edit, Kind
<1>5. ~old.overlapped => ScriptRole \in KnownRoles
  BY <1>2 DEF Sure
<1>6. Holds(q, service, KnownRoles, account, access)
  BY <1>4, <1>5 DEF Holds, Fixed, Sure
<1>7. edit' = [edit EXCEPT ![e] = q] /\ UNCHANGED <<service, account, access, excused, loose>>
  BY <1>1, <1>3, TableTypes DEF ScriptSkips
<1>8. QED
  BY <1>4, <1>6, <1>7, NoWriteStep

LEMMA ScriptWritesStep ==
  ASSUME RolesInv, NEW e \in Editors, ScriptWrites(e)
  PROVE  RolesInv'
<1>1. PICK q \in Edit : q = edit[e]
  BY EditFields
<1>2. /\ q.kind = "script" /\ q.at \in Services /\ q.of \in Accounts
      /\ q.roles \subseteq RoleNames /\ q.map \subseteq RoleNames /\ ScriptRole \in q.roles
      /\ ~q.overlapped => Sure(q, service, KnownRoles, account, access)
  BY <1>1, EditFields DEF ScriptWrites, Edit, Fixed
<1>3. PICK s \in Services : s = q.at
  BY <1>2
<1>4. PICK old \in Service : old = service[s]
  BY TableTypes
<1>5. PICK new : new = [old EXCEPT !.offered = q.roles, !.mapped = q.map]
  OBVIOUS
<1>6. new \in Service /\ new.state = old.state /\ new.offered = q.roles /\ new.mapped = q.map
  BY <1>2, <1>5 DEF Service
<1>7. service' = [service EXCEPT ![s] = new]
  BY <1>1, <1>3, <1>4, <1>5, TableTypes DEF ScriptWrites
<1>8. /\ Present(s) /\ Excuse(e, service[s].offered \ q.roles)
      /\ loose' = IF q.overlapped THEN loose \cup {s} ELSE loose
      /\ UNCHANGED <<account, access>>
  BY <1>1, <1>3 DEF ScriptWrites
<1>9. /\ excused \subseteq excused' /\ excused' \subseteq RoleNames
      /\ q.overlapped => service[s].offered \ q.roles \subseteq excused'
  BY <1>1, <1>8, TableTypes, ExcuseFields
<1>10. ~q.overlapped => /\ q.roles = service[s].offered \cup {ScriptRole}
                        /\ q.map = service[s].mapped \cup {ScriptRole}
  BY <1>2, <1>3 DEF Sure
<1>11. s \in loose' \/ new.mapped \subseteq new.offered
  BY <1>6, <1>8, <1>10 DEF RolesInv, MapFollowsCatalog
<1>12. new.state = "present"
  BY <1>4, <1>6, <1>8 DEF Present
<1>13. PICK t \in Edit : t = NoEdit
  BY NoEditFields
<1>14. PICK next : next = [NoEdit EXCEPT !.kind = "scriptAssign", !.at = s, !.of = q.of,
                             !.roles = {ScriptRole}]
  OBVIOUS
<1>15. next \in Edit /\ next.kind = "scriptAssign" /\ next.roles = {ScriptRole}
  BY <1>2, <1>13, <1>14 DEF Edit, Kind
<1>16. ScriptRole \in KnownRoles'
  <2>1. service'[s] = new
    BY <1>7, TableTypes
  <2>2. Present(s)' /\ ScriptRole \in service'[s].offered
    BY <1>2, <1>6, <1>12, <2>1 DEF Present
  <2>3. QED
    BY <2>2 DEF KnownRoles, Catalog
<1>17. Holds(next, service', KnownRoles', account', access')
  BY <1>15, <1>16 DEF Holds, Fixed, Sure
<1>18. WriteSeen(e, next)
  BY <1>1, <1>3, <1>14 DEF ScriptWrites
<1>19. edit' \in [Editors -> Edit] /\ EditsHold'
  BY <1>15, <1>17, <1>18, WriteSeenHolds
<1>20. \A role \in service[s].offered : role \in new.offered \/ role \in excused'
  BY <1>6, <1>9, <1>10
<1>21. QED
  BY <1>6, <1>7, <1>8, <1>9, <1>11, <1>12, <1>19, <1>20, TableTypes, ServiceStep

LEMMA ScriptFindsUserStep ==
  ASSUME RolesInv, NEW e \in Editors, ScriptFindsUser(e)
  PROVE  RolesInv'
<1>1. PICK old \in Edit : old = edit[e]
  BY EditFields
<1>2. /\ old.kind = "scriptAssign" /\ Fixed(old)
      /\ ~old.overlapped => Sure(old, service, KnownRoles, account, access)
  BY <1>1, EditFields DEF ScriptFindsUser
<1>3. PICK kind \in {"scriptAccess", "scriptRole"} :
        kind = IF ScriptRole \in account[edit[e].of].roles THEN "scriptAccess" ELSE "scriptRole"
  OBVIOUS
<1>4. PICK q : q = [old EXCEPT !.kind = kind]
  OBVIOUS
<1>5. /\ q \in Edit /\ q.kind = kind /\ q.roles = old.roles /\ q.overlapped = old.overlapped
  BY <1>4 DEF Edit, Kind
<1>6. Holds(q, service, KnownRoles, account, access)
  BY <1>2, <1>5 DEF Holds, Fixed, Sure, Giving
<1>7. edit' = [edit EXCEPT ![e] = q] /\ UNCHANGED <<service, account, access, excused, loose>>
  BY <1>1, <1>3, <1>4, TableTypes DEF ScriptFindsUser
<1>8. QED
  BY <1>5, <1>6, <1>7, NoWriteStep

LEMMA ScriptWritesRoleStep ==
  ASSUME RolesInv, NEW e \in Editors, ScriptWritesRole(e)
  PROVE  RolesInv'
<1>1. PICK u \in Accounts, s \in Services : u = edit[e].of /\ s = edit[e].at
  BY EditFields
<1>2. PICK next : next = [NoEdit EXCEPT !.kind = "scriptAccess", !.of = u, !.at = s]
  OBVIOUS
<1>3. /\ edit[e].kind = "scriptRole" /\ edit[e].roles = {ScriptRole}
      /\ Excuse(e, edit[e].roles) /\ WriteSeen(e, next) /\ UNCHANGED <<service, access, loose>>
      /\ account' = [account EXCEPT ![u].roles = {ScriptRole}]
  <2>1. edit[e].kind = "scriptRole" /\ edit[e].roles = {ScriptRole}
    BY EditFields DEF ScriptWritesRole, Fixed
  <2>2. QED
    BY <1>1, <1>2, <2>1 DEF ScriptWritesRole
<1>4. /\ {ScriptRole} \subseteq KnownRoles \cup excused'
      /\ excused \subseteq excused' /\ excused' \subseteq RoleNames
  BY <1>3, GivenKnown DEF Giving
<1>5. PICK was \in Account : was = account[u]
  BY TableTypes
<1>6. PICK now : now = [was EXCEPT !.roles = {ScriptRole}]
  OBVIOUS
<1>7. now \in Account /\ now.roles = {ScriptRole}
  BY <1>6 DEF Account
<1>8. account' = [account EXCEPT ![u] = now]
  BY <1>3, <1>5, <1>6, TableTypes
<1>9. /\ account' \in [Accounts -> Account]
      /\ \A v \in Accounts : account'[v] = IF v = u THEN now ELSE account[v]
  BY <1>7, <1>8, TableTypes
<1>10. PICK t \in Edit : t = NoEdit
  BY NoEditFields
<1>11. next \in Edit /\ next.kind = "scriptAccess"
  BY <1>2, <1>10 DEF Edit, Kind
<1>12. Holds(next, service', KnownRoles', account', access')
  BY <1>11 DEF Holds, Fixed, Sure, Giving
<1>13. edit' \in [Editors -> Edit] /\ EditsHold'
  BY <1>3, <1>11, <1>12, WriteSeenHolds
<1>14. QED
  BY <1>3, <1>4, <1>7, <1>9, <1>13, TableTypes, GiveStep

LEMMA ScriptGrantsStep ==
  ASSUME RolesInv, NEW e \in Editors, ScriptGrants(e)
  PROVE  RolesInv'
<1>1. PICK u \in Accounts, s \in Services : u = edit[e].of /\ s = edit[e].at
  BY EditFields
<1>2. UNCHANGED <<service, account, excused, loose>>
  BY DEF ScriptGrants
<1>3. CASE edit' = [edit EXCEPT ![e] = NoEdit] /\ UNCHANGED access
  BY <1>2, <1>3, NoEditFields, NoWriteStep
<1>4. CASE access' = [access EXCEPT ![u][s].state = "granted"] /\ WriteSeen(e, NoEdit)
  <2>1. PICK old \in Access : old = access[u][s]
    BY TableTypes
  <2>2. PICK new : new = [old EXCEPT !.state = "granted"]
    OBVIOUS
  <2>3. new \in Access /\ new.roles = old.roles
    BY <2>2 DEF Access
  <2>4. access' = [access EXCEPT ![u][s] = new]
    BY <1>4, <2>1, <2>2, TableTypes
  <2>5. /\ access' \in [Accounts -> [Services -> Access]]
        /\ \A v \in Accounts, t \in Services : access'[v][t].roles = access[v][t].roles
    BY <2>1, <2>3, <2>4, TableTypes, AccessFields
  <2>6. edit' \in [Editors -> Edit] /\ EditsHold'
    BY <1>4, NoEditFields, WriteSeenHolds
  <2>7. QED
    BY <1>2, <2>5, <2>6, TableTypes, GiveStep
<1>5. QED
  BY <1>1, <1>3, <1>4 DEF ScriptGrants

\* One account and one access are written by a script that does not check.
LEMMA UncheckedStep ==
  ASSUME RolesInv, NEW u \in Accounts, NEW s \in Services, NEW now \in Account, NEW new \in Access,
         account' = [account EXCEPT ![u] = now], access' = [access EXCEPT ![u][s] = new],
         NEW roles \in SUBSET RoleNames, excused' = excused \cup roles,
         now.roles \subseteq KnownRoles \cup roles, new.roles \subseteq KnownRoles \cup roles,
         AllSee, UNCHANGED <<service, loose>>
  PROVE  RolesInv'
<1>1. /\ account' \in [Accounts -> Account]
      /\ \A v \in Accounts : account'[v] = IF v = u THEN now ELSE account[v]
  BY TableTypes
<1>2. /\ access' \in [Accounts -> [Services -> Access]]
      /\ \A v \in Accounts, t \in Services : access'[v][t] \in {new, access[v][t]}
  BY TableTypes, AccessFields
<1>3. edit' \in [Editors -> Edit] /\ EditsHold'
  BY AllSeeHolds
<1>4. QED
  BY <1>1, <1>2, <1>3, TableTypes, GiveStep

LEMMA SeedAccountStep ==
  ASSUME RolesInv, NEW u \in Accounts, NEW s \in Services, NEW roles \in SUBSET RoleNames,
         NEW more \in SUBSET RoleNames, SeedAccount(u, s, roles, more)
  PROVE  RolesInv'
<1>1. PICK now : now = IF account[u].exists THEN account[u] ELSE [exists |-> TRUE, roles |-> roles]
  OBVIOUS
<1>2. PICK new : new = IF access[u][s].state = "none" THEN [state |-> "granted", roles |-> more]
                                                      ELSE access[u][s]
  OBVIOUS
<1>3. now \in Account /\ now.roles \subseteq KnownRoles \cup roles
  BY <1>1, TableTypes DEF Account
<1>4. new \in Access /\ new.roles \subseteq KnownRoles \cup more
  BY <1>2, TableTypes DEF Access
<1>5. /\ account' = [account EXCEPT ![u] = now] /\ access' = [access EXCEPT ![u][s] = new]
      /\ excused' = excused \cup (roles \cup more) /\ AllSee /\ UNCHANGED <<service, loose>>
  BY <1>1, <1>2, TableTypes DEF SeedAccount
<1>6. PICK all \in SUBSET RoleNames : all = roles \cup more
  OBVIOUS
<1>7. now.roles \subseteq KnownRoles \cup all /\ new.roles \subseteq KnownRoles \cup all
  BY <1>3, <1>4, <1>6
<1>8. QED
  BY <1>3, <1>4, <1>5, <1>6, <1>7, UncheckedStep

LEMMA ImportedStep ==
  ASSUME RolesInv, NEW u \in Accounts, NEW s \in Services, NEW roles \in SUBSET RoleNames,
         NEW new \in Access, Imported(u, s, roles, new)
  PROVE  RolesInv'
<1>1. PICK now : now = [exists |-> TRUE, roles |-> roles]
  OBVIOUS
<1>2. now \in Account /\ now.roles = roles /\ new.roles \subseteq RoleNames
  BY <1>1 DEF Account, Access
<1>3. /\ account' = [account EXCEPT ![u] = now] /\ access' = [access EXCEPT ![u][s] = new]
      /\ excused' = excused \cup (roles \cup new.roles) /\ AllSee /\ UNCHANGED <<service, loose>>
  BY <1>1 DEF Imported
<1>4. PICK all \in SUBSET RoleNames : all = roles \cup new.roles
  BY <1>2
<1>5. now.roles \subseteq KnownRoles \cup all /\ new.roles \subseteq KnownRoles \cup all
  BY <1>2, <1>4
<1>6. QED
  BY <1>2, <1>3, <1>4, <1>5, UncheckedStep

LEMMA ReadToConsolidateStep ==
  ASSUME RolesInv, NEW e \in Editors, NEW u \in Accounts, NEW role \in RoleNames,
         ReadToConsolidate(e, u, role)
  PROVE  RolesInv'
<1>1. PICK q : q = [NoEdit EXCEPT !.kind = "consolidate", !.of = u, !.roles = {role}]
  OBVIOUS
<1>2. PICK t \in Edit : t = NoEdit
  BY NoEditFields
<1>3. q \in Edit /\ q.kind = "consolidate" /\ q.roles = {role}
  BY <1>1, <1>2 DEF Edit, Kind
<1>4. role \in KnownRoles /\ Starts(e, q)
  BY <1>1, TableTypes DEF ReadToConsolidate
<1>5. Holds(q, service, KnownRoles, account, access)
  BY <1>3, <1>4 DEF Holds, Fixed, Sure
<1>6. QED
  BY <1>3, <1>4, <1>5, StartStep

LEMMA ConsolidateStep ==
  ASSUME RolesInv, NEW e \in Editors, Consolidate(e)
  PROVE  RolesInv'
<1>1. PICK u \in Accounts, roles \in SUBSET RoleNames : u = edit[e].of /\ roles = edit[e].roles
  BY EditFields
<1>2. /\ edit[e].kind \in Giving /\ Excuse(e, roles) /\ WriteSeen(e, NoEdit)
      /\ UNCHANGED <<service, access, loose>>
      /\ account' = [account EXCEPT ![u].roles = roles]
  BY <1>1 DEF Consolidate, Giving
<1>3. /\ roles \subseteq KnownRoles \cup excused'
      /\ excused \subseteq excused' /\ excused' \subseteq RoleNames
  BY <1>1, <1>2, GivenKnown
<1>4. PICK was \in Account : was = account[u]
  BY TableTypes
<1>5. PICK now : now = [was EXCEPT !.roles = roles]
  OBVIOUS
<1>6. now \in Account /\ now.roles = roles
  BY <1>5 DEF Account
<1>7. account' = [account EXCEPT ![u] = now]
  BY <1>2, <1>4, <1>5, TableTypes
<1>8. /\ account' \in [Accounts -> Account]
      /\ \A v \in Accounts : account'[v] = IF v = u THEN now ELSE account[v]
  BY <1>6, <1>7, TableTypes
<1>9. edit' \in [Editors -> Edit] /\ EditsHold'
  BY <1>2, NoEditFields, WriteSeenHolds
<1>10. QED
  BY <1>2, <1>3, <1>6, <1>8, <1>9, TableTypes, GiveStep

LEMMA RolesStep == RolesInv /\ [RolesNext]_roleVars => RolesInv'
<1> SUFFICES ASSUME RolesInv, [RolesNext]_roleVars PROVE RolesInv'
  OBVIOUS
<1>1. ASSUME NEW u \in Accounts, NEW s \in Services, NEW roles \in SUBSET RoleNames,
             ImportMongo(u, s, roles)
      PROVE  RolesInv'
  <2>1. [state |-> "granted", roles |-> roles] \in Access
    BY DEF Access
  <2>2. QED
    BY <1>1, <2>1, ImportedStep DEF ImportMongo
<1>2. ASSUME NEW u \in Accounts, NEW s \in Services, NEW role \in RoleNames, ImportSync(u, s, role)
      PROVE  RolesInv'
  <2>1. [state |-> "granted", roles |-> access[u][s].roles] \in Access
    BY TableTypes DEF Access
  <2>2. QED
    BY <1>2, <2>1, ImportedStep DEF ImportSync
<1>3. ASSUME NEW u \in Accounts, NEW s \in Services, NEW role \in RoleNames,
             ImportSyncUser(u, s, role)
      PROVE  RolesInv'
  <2>1. PICK state \in {"none", "granted", "revoked"} :
          state = IF access[u][s].state = "none" THEN "granted" ELSE access[u][s].state
    BY TableTypes DEF Access
  <2>2. [state |-> state, roles |-> {role}] \in Access
    BY DEF Access
  <2>3. Imported(u, s, account[u].roles, [state |-> state, roles |-> {role}])
    BY <1>3, <2>1 DEF ImportSyncUser
  <2>4. QED
    BY <2>2, <2>3, TableTypes, ImportedStep
<1>4. ASSUME NEW e \in Editors, Drop(e)
      PROVE  RolesInv'
  BY <1>4, NoEditFields, NoWriteStep DEF Drop
<1>5. CASE UNCHANGED roleVars
  BY <1>5 DEF roleVars, RolesInv, RolesTypeOK, EditsHold, KnownRoles, Catalog, NoMapBefore,
    HeldRolesAreOffered, MapFollowsCatalog, Present
<1>6. QED
  BY <1>1, <1>2, <1>3, <1>4, <1>5, CreateServiceStep, DeleteServiceStep, SeedStep,
     WritePermissionsStep, SeedAccountStep, ReadServiceStep, ReadUserStep, CheckCreateStep,
     GrantStarts, RevokeStarts, ScriptReadsStep, ReadToConsolidateStep, CountStep,
     WriteServiceStep, WriteAccessStep, CheckUserStep, WriteUserStep, ScriptWritesStep,
     ScriptSkipsStep, ScriptFindsUserStep, ScriptWritesRoleStep, ScriptGrantsStep, ConsolidateStep
  DEF RolesNext

LEMMA RolesInvariant == RolesSpec => []RolesInv
BY RolesInitial, RolesStep, PTL DEF RolesSpec

\* assertRolSinUso, assertRolesExisten and assertRolesDeServicio: a role that
\* somebody holds is in a catalog, or got out of it through operations that
\* overlapped, a script, the seed or the deletion of a service.
THEOREM HeldRoles == RolesSpec => []HeldRolesAreOffered
BY RolesInvariant, PTL DEF RolesInv

\* updateService: since the two were last written together, a service gives
\* permissions to no role that is not in its catalog.
THEOREM MapFollows == RolesSpec => []MapFollowsCatalog
BY RolesInvariant, PTL DEF RolesInv

-----------------------------------------------------------------------------
(* Workers.  What a request in flight holds: the id of a row there is, and, *)
(* unless another write came in between, what the rows still say.           *)

OnRow == {"update", "completeJde", "complete", "master", "link", "relink", "unlink", "linkAccount",
          "assign"}

Standing(q, n) ==
  /\ q.op \in OnRow => q.of <= n
  /\ q.op \in {"link", "relink", "linkAccount", "assign"} => q.user # Null

AsRead(q, n, table) ==
  /\ q.op \in {"update", "linkAccount", "assign", "link"} => table[q.of].user = Null
  /\ q.op \in {"completeJde", "complete"} /\ q.jde # Null => table[q.of].jde = Null
  /\ q.op = "master" => q.jde = Null
  /\ q.op \in {"completeJde", "complete", "master"} /\ q.area = "catalog" =>
       table[q.of].area # "catalog"
  /\ q.op = "insert" /\ q.jde # Null => \A v \in 1 .. n : table[v].jde # q.jde
  /\ q.op = "complete" /\ q.jde # Null => \A v \in (1 .. n) \ {q.of} : table[v].jde # q.jde

Trusts(q, n, table) == Standing(q, n) /\ (~q.overlapped => AsRead(q, n, table))

RequestsTrust == \A r \in Requests : Trusts(request[r], rows, row)

\* The rows not created yet are empty.
EmptyBeyond == \A w \in Ids : w > rows => row[w] = NoWorker

WorkersInv ==
  WorkersTypeOK /\ RequestsTrust /\ EmptyBeyond /\ SameJdeOnlyIfRepeated /\ AccessFollowsLink

LEMMA NoRequestFields ==
  ASSUME NEW n, NEW table
  PROVE  NoRequest \in Request /\ NoRequest.op = "none" /\ Trusts(NoRequest, n, table)
<1>1. NoRequest \in Request /\ NoRequest.op = "none"
  BY DEF NoRequest, Request, Operation, Ids, Ci, Jde, User, Place
<1>2. QED
  BY <1>1 DEF Trusts, Standing, AsRead, OnRow

LEMMA NoWorkerFields ==
  NoWorker \in Worker /\ NoWorker.jde = Null /\ NoWorker.user = Null /\ NoWorker.access = FALSE
BY DEF NoWorker, Worker, Ci, Jde, User, Place

LEMMA WorkersInitial == WorkersInit => WorkersInv
<1> SUFFICES ASSUME WorkersInit PROVE WorkersInv
  OBVIOUS
<1>1. WorkersTypeOK
  BY NoRequestFields, NoWorkerFields DEF WorkersInit, WorkersTypeOK
<1>2. RequestsTrust
  BY NoRequestFields DEF WorkersInit, RequestsTrust
<1>3. EmptyBeyond /\ SameJdeOnlyIfRepeated /\ AccessFollowsLink
  BY DEF WorkersInit, EmptyBeyond, SameJdeOnlyIfRepeated, AccessFollowsLink, Workers
<1>4. QED
  BY <1>1, <1>2, <1>3 DEF WorkersInv

\* A request that saw a write
Noticed(q) == [q EXCEPT !.overlapped = q.op # "none"]

LEMMA NoticedTrusts ==
  ASSUME NEW q \in Request, NEW n \in Nat, Standing(q, n), NEW m \in Nat, n <= m, NEW table
  PROVE  Noticed(q) \in Request /\ Trusts(Noticed(q), m, table)
<1>1. PICK x : x = Noticed(q)
  OBVIOUS
<1>2. /\ x \in Request /\ x.overlapped = (q.op # "none") /\ x.op = q.op /\ x.of = q.of
      /\ x.user = q.user
  BY <1>1 DEF Noticed, Request
<1>3. q.of \in Int
  BY DEF Request, Ids
<1>4. Standing(x, m)
  BY <1>2, <1>3 DEF Standing
<1>5. ~x.overlapped => AsRead(x, m, table)
  BY <1>2 DEF AsRead
<1>6. QED
  BY <1>1, <1>2, <1>4, <1>5 DEF Trusts

\* Every write is seen: it ends a request or none.
Witnessed == \A x \in Requests : request'[x] \in {NoRequest, Noticed(request[x])}

LEMMA SeenButWitnessed ==
  ASSUME NEW r \in Requests, SeenBut(r)
  PROVE  /\ Witnessed /\ request' = [x \in Requests |-> request'[x]]
         /\ \A x \in Requests \ {r} : request'[x] = Noticed(request[x])
<1>1. \A x \in Requests : request'[x] = IF x = r THEN NoRequest ELSE Noticed(request[x])
  BY DEF SeenBut, Noticed, Pending
<1>2. request' = [x \in Requests |-> request'[x]]
  BY Zenon DEF SeenBut
<1>3. QED
  BY <1>1, <1>2 DEF Witnessed

LEMMA SeenByAllWitnessed ==
  ASSUME SeenByAll
  PROVE  /\ Witnessed /\ request' = [x \in Requests |-> request'[x]]
         /\ \A x \in Requests : request'[x] = Noticed(request[x])
<1>1. \A x \in Requests : request'[x] = Noticed(request[x])
  BY DEF SeenByAll, Noticed, Pending
<1>2. request' = [x \in Requests |-> request'[x]]
  BY Zenon DEF SeenByAll
<1>3. QED
  BY <1>1, <1>2 DEF Witnessed

\* A request begins, goes on or ends; accounts may be created.
LEMMA RequestStep ==
  ASSUME WorkersInv, NEW r \in Requests, NEW q \in Request, request' = [request EXCEPT ![r] = q],
         Trusts(q, rows, row), UNCHANGED <<rows, row, imported, repeated>>, exists' \subseteq Users
  PROVE  WorkersInv'
<1>1. request \in [Requests -> Request]
  BY DEF WorkersInv, WorkersTypeOK
<1>2. /\ request' \in [Requests -> Request] /\ request'[r] = q
      /\ \A x \in Requests \ {r} : request'[x] = request[x]
  BY <1>1
<1>3. WorkersTypeOK'
  BY <1>2 DEF WorkersInv, WorkersTypeOK
<1>4. RequestsTrust'
  BY <1>2 DEF WorkersInv, RequestsTrust
<1>5. EmptyBeyond' /\ SameJdeOnlyIfRepeated' /\ AccessFollowsLink'
  BY DEF WorkersInv, EmptyBeyond, SameJdeOnlyIfRepeated, AccessFollowsLink, Workers
<1>6. QED
  BY <1>3, <1>4, <1>5 DEF WorkersInv

\* A row is written.
LEMMA RowStep ==
  ASSUME WorkersInv, NEW w \in Ids, w <= rows + 1, NEW new \in Worker, Set(w, new),
         Witnessed, request' = [x \in Requests |-> request'[x]],
         exists' \subseteq Users, imported' \subseteq Ids, imported \ {w} \subseteq imported',
         w \in imported' \/ new.access = (new.user # Null),
         repeated \subseteq repeated', repeated' \subseteq Jdes,
         \/ new.jde \in repeated' \cup {Null, row[w].jde}
         \/ WithJde(new.jde) \ {w} = {}
  PROVE  WorkersInv'
<1>1. /\ rows \in Nat /\ rows <= MaxRows /\ MaxRows \in Nat /\ w \in Nat /\ w >= 1 /\ w <= MaxRows
      /\ row \in [Ids -> Worker] /\ row' = [row EXCEPT ![w] = new]
      /\ rows' = IF w > rows THEN w ELSE rows
  BY DEF WorkersInv, WorkersTypeOK, Ids, Set
<1>2. /\ row' \in [Ids -> Worker] /\ row'[w] = new
      /\ \A v \in Ids \ {w} : row'[v] = row[v]
  BY <1>1
<1>3. /\ rows' \in Nat /\ rows <= rows' /\ rows' <= MaxRows /\ w <= rows'
      /\ \A v \in Ids \ {w} : v <= rows' => v <= rows
  BY <1>1 DEF Ids
<1>4. ASSUME NEW x \in Requests
      PROVE  request'[x] \in Request /\ Trusts(request'[x], rows', row')
  <2>1. request[x] \in Request /\ Standing(request[x], rows)
    BY DEF WorkersInv, WorkersTypeOK, RequestsTrust, Trusts
  <2>2. Noticed(request[x]) \in Request /\ Trusts(Noticed(request[x]), rows', row')
    BY <1>1, <1>3, <2>1, NoticedTrusts
  <2>3. QED
    BY <2>2, NoRequestFields DEF Witnessed
<1>5. request' \in [Requests -> Request]
  BY <1>4
<1>6. WorkersTypeOK'
  BY <1>1, <1>2, <1>3, <1>5 DEF WorkersTypeOK
<1>7. RequestsTrust'
  BY <1>4 DEF RequestsTrust
<1>8. EmptyBeyond'
  BY <1>1, <1>2, <1>3 DEF WorkersInv, EmptyBeyond, Ids
<1>9. SameJdeOnlyIfRepeated'
  <2>1. ASSUME NEW v \in Ids, v # w, v <= rows', row[v].jde = new.jde, new.jde # Null
        PROVE  new.jde \in repeated'
    <3>1. v \in Workers
      BY <1>1, <1>3, <2>1 DEF Workers, Ids
    <3>2. v \in WithJde(new.jde) \ {w}
      BY <2>1, <3>1 DEF WithJde
    <3>3. CASE new.jde = row[w].jde
      <4>1. w \in Workers
        BY <1>1, <2>1, <3>3, NoWorkerFields DEF WorkersInv, EmptyBeyond, Workers
      <4>2. QED
        BY <2>1, <3>1, <3>3, <4>1 DEF WorkersInv, SameJdeOnlyIfRepeated
    <3>4. QED
      BY <2>1, <3>2, <3>3
  <2>2. ASSUME NEW u \in Ids, NEW v \in Ids, u <= rows', v <= rows', u # v,
               row'[u].jde = row'[v].jde, row'[u].jde # Null
        PROVE  row'[u].jde \in repeated'
    <3>1. CASE u = w
      BY <1>2, <2>1, <2>2, <3>1
    <3>2. CASE v = w
      BY <1>2, <2>1, <2>2, <3>2
    <3>3. CASE u # w /\ v # w
      <4>1. u \in Workers /\ v \in Workers
        BY <1>1, <1>3, <2>2, <3>3 DEF Workers, Ids
      <4>2. QED
        BY <1>2, <2>2, <3>3, <4>1 DEF WorkersInv, SameJdeOnlyIfRepeated
    <3>4. QED
      BY <3>1, <3>2, <3>3
  <2>3. \A v \in Workers' : v \in Ids /\ v <= rows'
    BY <1>1, <1>3 DEF Workers, Ids
  <2>4. QED
    BY <2>2, <2>3 DEF SameJdeOnlyIfRepeated
<1>10. AccessFollowsLink'
  <2>1. ASSUME NEW v \in Workers', v \notin imported'
        PROVE  row'[v].access = (row'[v].user # Null)
    <3>1. v \in Ids /\ (v # w => v \in Workers)
      BY <1>1, <1>3 DEF Workers, Ids
    <3>2. CASE v = w
      BY <1>2, <2>1, <3>2
    <3>3. CASE v # w
      BY <1>2, <2>1, <3>1, <3>3 DEF WorkersInv, AccessFollowsLink
    <3>4. QED
      BY <3>2, <3>3
  <2>2. QED
    BY <2>1 DEF AccessFollowsLink
<1>11. QED
  BY <1>6, <1>7, <1>8, <1>9, <1>10 DEF WorkersInv

\* The rows written: another JDE and area, another link
Edited(t, jde, place) == [t EXCEPT !.jde = jde, !.area = place]
Relinked(t, user, flag) == [t EXCEPT !.user = user, !.access = flag]

LEMMA EditedFields ==
  ASSUME NEW t \in Worker, NEW jde \in Jde, NEW place \in Place
  PROVE  /\ Edited(t, jde, place) \in Worker /\ Edited(t, jde, place).jde = jde
         /\ Edited(t, jde, place).user = t.user /\ Edited(t, jde, place).access = t.access
BY DEF Edited, Worker

LEMMA RelinkedFields ==
  ASSUME NEW t \in Worker, NEW user \in User, NEW flag \in BOOLEAN
  PROVE  /\ Relinked(t, user, flag) \in Worker /\ Relinked(t, user, flag).jde = t.jde
         /\ Relinked(t, user, flag).user = user /\ Relinked(t, user, flag).access = flag
BY DEF Relinked, Worker

\* A JDE that is given to w is nobody else's, or remembered as repeated.
LEMMA RepeatsGrows ==
  ASSUME repeated \subseteq Jdes, NEW w, NEW jde \in Jde, NEW looked \in BOOLEAN,
         Repeats(w, jde, looked), looked => WithJde(jde) \ {w} = {}
  PROVE  /\ repeated \subseteq repeated' /\ repeated' \subseteq Jdes
         /\ jde \in repeated' \cup {Null} \/ WithJde(jde) \ {w} = {}
<1>1. CASE WithJde(jde) \ {w} = {}
  BY <1>1 DEF Repeats
<1>2. CASE WithJde(jde) \ {w} # {}
  <2>1. repeated' = repeated \cup {jde}
    BY <1>2 DEF Repeats
  <2>2. jde # Null
    BY <1>2 DEF WithJde
  <2>3. QED
    BY <2>1, <2>2 DEF Jde
<1>3. QED
  BY <1>1, <1>2

\* The JDE of w, if one is given, and the area are edited, in the course of a
\* request or not.
LEMMA EditStep ==
  ASSUME WorkersInv, NEW w \in Workers, NEW jde \in Jde, NEW given \in Jde, NEW place \in Place,
         NEW looked \in BOOLEAN, jde = given \/ jde = row[w].jde,
         Set(w, [row[w] EXCEPT !.jde = jde, !.area = place]), Repeats(w, given, looked),
         looked => WithJde(given) \ {w} = {},
         Witnessed, request' = [x \in Requests |-> request'[x]],
         UNCHANGED <<exists, imported>>
  PROVE  WorkersInv'
<1>1. /\ w \in Ids /\ w <= rows + 1 /\ row[w] \in Worker /\ repeated \subseteq Jdes
      /\ exists \subseteq Users /\ imported \subseteq Ids
  BY DEF WorkersInv, WorkersTypeOK, Workers, Ids
<1>2. PICK new \in Worker : new = Edited(row[w], jde, place)
  BY <1>1, EditedFields
<1>3. new.jde = jde /\ new.user = row[w].user /\ new.access = row[w].access
  <2>1. PICK t \in Worker : t = row[w]
    BY <1>1
  <2>2. new = Edited(t, jde, place)
    BY <1>2, <2>1
  <2>3. QED
    BY <2>1, <2>2, EditedFields
<1>4. Set(w, new)
  BY <1>2 DEF Edited
<1>5. w \in imported' \/ new.access = (new.user # Null)
  BY <1>3 DEF WorkersInv, AccessFollowsLink
<1>6. /\ repeated \subseteq repeated' /\ repeated' \subseteq Jdes
      /\ given \in repeated' \cup {Null} \/ WithJde(given) \ {w} = {}
  BY <1>1, RepeatsGrows
<1>7. \/ new.jde \in repeated' \cup {Null, row[w].jde}
      \/ WithJde(new.jde) \ {w} = {}
  BY <1>3, <1>6
<1>8. QED
  BY <1>1, <1>3, <1>4, <1>5, <1>6, <1>7, RowStep

\* An area written over another
LEMMA PlacedType ==
  ASSUME NEW old \in Place, NEW place \in Place
  PROVE  Placed(old, place) \in Place
BY DEF Placed

\* A row is linked or unlinked.
LEMMA LinkStep ==
  ASSUME WorkersInv, NEW w \in Workers, NEW user \in User, NEW flag \in BOOLEAN,
         Set(w, [row[w] EXCEPT !.user = user, !.access = flag]), flag = (user # Null),
         Witnessed, request' = [x \in Requests |-> request'[x]],
         imported' = imported \ {w}, UNCHANGED <<exists, repeated>>
  PROVE  WorkersInv'
<1>1. /\ w \in Ids /\ w <= rows + 1 /\ row[w] \in Worker /\ repeated \subseteq Jdes
      /\ exists \subseteq Users /\ imported \subseteq Ids
  BY DEF WorkersInv, WorkersTypeOK, Workers, Ids
<1>2. PICK t \in Worker : t = row[w]
  BY <1>1
<1>3. PICK new : new = Relinked(t, user, flag)
  OBVIOUS
<1>4. new \in Worker /\ new.jde = t.jde /\ new.user = user /\ new.access = flag
  BY <1>3, RelinkedFields, Zenon
<1>5. Set(w, new)
  BY <1>2, <1>3 DEF Relinked
<1>6. QED
  BY <1>1, <1>2, <1>3, <1>4, <1>5, RowStep

\* A worker is created.
LEMMA NewStep ==
  ASSUME WorkersInv, rows < MaxRows, NEW new \in Worker, Set(rows + 1, new),
         new.access = (new.user # Null), NEW looked \in BOOLEAN,
         Repeats(rows + 1, new.jde, looked), looked => WithJde(new.jde) = {},
         Witnessed, request' = [x \in Requests |-> request'[x]],
         UNCHANGED <<exists, imported>>
  PROVE  WorkersInv'
<1>1. /\ rows \in Nat /\ MaxRows \in Nat /\ repeated \subseteq Jdes
      /\ exists \subseteq Users /\ imported \subseteq Ids
  BY DEF WorkersInv, WorkersTypeOK
<1>2. PICK w \in Ids : w = rows + 1
  BY <1>1 DEF Ids
<1>3. w <= rows + 1
  BY <1>1, <1>2
<1>4. /\ repeated \subseteq repeated' /\ repeated' \subseteq Jdes
      /\ new.jde \in repeated' \cup {Null} \/ WithJde(new.jde) \ {w} = {}
  <2>1. new.jde \in Jde /\ Repeats(w, new.jde, looked) /\ (looked => WithJde(new.jde) \ {w} = {})
    BY <1>2 DEF Worker
  <2>2. QED
    BY <1>1, <2>1, RepeatsGrows
<1>5. QED
  BY <1>1, <1>2, <1>3, <1>4, RowStep

\* What the invariant says of a request in flight
LEMMA RequestFields ==
  ASSUME WorkersInv, NEW r \in Requests
  PROVE  /\ request[r] \in Request /\ Standing(request[r], rows)
         /\ ~request[r].overlapped => AsRead(request[r], rows, row)
         /\ request[r].op \in OnRow => request[r].of \in Workers
         /\ request[r].user \in User /\ request[r].jde \in Jde /\ request[r].ci \in Ci
         /\ request[r].overlapped \in BOOLEAN /\ request[r].area \in Place
<1>1. /\ request[r] \in Request /\ Standing(request[r], rows)
      /\ ~request[r].overlapped => AsRead(request[r], rows, row)
      /\ rows \in Nat
  BY DEF WorkersInv, WorkersTypeOK, RequestsTrust, Trusts
<1>2. PICK q \in Request : q = request[r]
  BY <1>1
<1>3. q.of \in Int /\ q.of >= 1 /\ q.user \in User /\ q.jde \in Jde /\ q.ci \in Ci
      /\ q.overlapped \in BOOLEAN /\ q.area \in Place
  BY DEF Request, Ids
<1>4. q.op \in OnRow => q.of \in Workers
  BY <1>1, <1>2, <1>3 DEF Standing, Workers
<1>5. QED
  BY <1>1, <1>2, <1>3, <1>4

LEMMA OnWorker ==
  ASSUME WorkersInv, NEW w \in Workers
  PROVE  w \in Ids /\ w <= rows /\ row[w] \in Worker
BY DEF WorkersInv, WorkersTypeOK, Workers, Ids

LEMMA InsertStep ==
  ASSUME WorkersInv, NEW r \in Requests, Insert(r)
  PROVE  WorkersInv'
<1>1. PICK q \in Request : q = request[r]
  BY RequestFields
<1>2. /\ q.user \in User /\ q.jde \in Jde /\ q.ci \in Ci /\ q.overlapped \in BOOLEAN
      /\ q.area \in Place
      /\ ~q.overlapped => AsRead(q, rows, row)
  BY <1>1, RequestFields
<1>3. PICK new : new = [ci |-> q.ci, jde |-> q.jde, user |-> q.user, access |-> q.user # Null,
                       area |-> q.area]
  OBVIOUS
<1>4. new \in Worker /\ new.jde = q.jde /\ new.access = (new.user # Null)
  BY <1>2, <1>3 DEF Worker
<1>5. /\ q.op = "insert" /\ rows < MaxRows /\ Set(rows + 1, new)
      /\ Repeats(rows + 1, new.jde, ~q.overlapped) /\ SeenBut(r) /\ UNCHANGED <<exists, imported>>
  BY <1>1, <1>3, <1>4 DEF Insert
<1>6. ~q.overlapped => WithJde(new.jde) = {}
  BY <1>2, <1>4, <1>5 DEF AsRead, WithJde, Workers
<1>7. PICK looked \in BOOLEAN : looked = ~q.overlapped
  BY <1>2
<1>8. Repeats(rows + 1, new.jde, looked) /\ (looked => WithJde(new.jde) = {})
  BY <1>5, <1>6, <1>7
<1>9. QED
  BY <1>4, <1>5, <1>8, NewStep, SeenButWitnessed

LEMMA WriteUpdateStep ==
  ASSUME WorkersInv, NEW r \in Requests, WriteUpdate(r)
  PROVE  WorkersInv'
<1>1. /\ request[r].op \in OnRow /\ request[r].of \in Workers /\ request[r].jde \in Jde
      /\ request[r].area \in Place
  BY RequestFields DEF WriteUpdate, OnRow
<1>2. PICK w \in Workers : w = request[r].of
  BY <1>1
<1>3. PICK place \in Place : place = Placed(row[w].area, request[r].area)
  BY <1>1, OnWorker, PlacedType DEF Worker
<1>4. /\ Set(w, [row[w] EXCEPT !.jde = request[r].jde, !.area = place])
      /\ Repeats(w, request[r].jde, FALSE) /\ SeenBut(r) /\ UNCHANGED <<exists, imported>>
  BY <1>2, <1>3 DEF WriteUpdate
<1>5. QED
  BY <1>1, <1>4, EditStep, SeenButWitnessed

LEMMA WriteCompleteStep ==
  ASSUME WorkersInv, NEW r \in Requests, WriteComplete(r)
  PROVE  WorkersInv'
<1>1. PICK q \in Request : q = request[r]
  BY RequestFields
<1>2. /\ q.op \in {"complete", "master"}
      /\ Set(q.of, [row[q.of] EXCEPT !.jde = IF q.jde = Null THEN @ ELSE q.jde,
                                     !.area = IF q.area = "catalog" THEN q.area ELSE @])
      /\ Repeats(q.of, q.jde, ~q.overlapped) /\ SeenBut(r) /\ UNCHANGED <<exists, imported>>
  BY <1>1 DEF WriteComplete
<1>3. /\ q.of \in Workers /\ q.jde \in Jde /\ q.overlapped \in BOOLEAN /\ q.area \in Place
      /\ ~q.overlapped => AsRead(q, rows, row)
  BY <1>1, <1>2, RequestFields DEF OnRow
<1>4. ~q.overlapped => WithJde(q.jde) \ {q.of} = {}
  BY <1>2, <1>3 DEF AsRead, WithJde, Workers
<1>5. PICK looked \in BOOLEAN : looked = ~q.overlapped
  BY <1>3
<1>6. Repeats(q.of, q.jde, looked) /\ (looked => WithJde(q.jde) \ {q.of} = {})
  BY <1>2, <1>4, <1>5
<1>7. PICK jde \in Jde : jde = IF q.jde = Null THEN row[q.of].jde ELSE q.jde
  BY <1>3, OnWorker DEF Worker
<1>8. PICK place \in Place : place = IF q.area = "catalog" THEN q.area ELSE row[q.of].area
  BY <1>3, OnWorker DEF Worker
<1>9. Set(q.of, [row[q.of] EXCEPT !.jde = jde, !.area = place])
  BY <1>2, <1>7, <1>8
<1>10. jde = q.jde \/ jde = row[q.of].jde
  BY <1>7
<1>11. QED
  BY <1>2, <1>3, <1>6, <1>9, <1>10, EditStep, SeenButWitnessed

LEMMA WriteLinkStep ==
  ASSUME WorkersInv, NEW r \in Requests, WriteLink(r)
  PROVE  WorkersInv'
<1>1. /\ request[r].of \in Workers /\ request[r].user \in User /\ request[r].user # Null
  BY RequestFields DEF WriteLink, OnRow, Standing
<1>2. QED
  BY <1>1, LinkStep, SeenButWitnessed DEF WriteLink

LEMMA WriteUnlinkStep ==
  ASSUME WorkersInv, NEW r \in Requests, WriteUnlink(r)
  PROVE  WorkersInv'
<1>1. request[r].of \in Workers /\ Null \in User
  BY RequestFields DEF WriteUnlink, OnRow, User
<1>2. QED
  BY <1>1, LinkStep, SeenButWitnessed DEF WriteUnlink

LEMMA AdminCreateStep ==
  ASSUME WorkersInv, NEW ci \in Ci, NEW jde \in Jde, NEW place \in Place,
         AdminCreate(ci, jde, place)
  PROVE  WorkersInv'
<1>1. PICK t \in Worker : t = NoWorker
  BY NoWorkerFields
<1>2. PICK new : new = [t EXCEPT !.ci = ci, !.jde = jde, !.area = place]
  OBVIOUS
<1>3. new \in Worker /\ new.jde = jde /\ new.user = t.user /\ new.access = t.access
  BY <1>2 DEF Worker
<1>4. /\ rows < MaxRows /\ Set(rows + 1, new) /\ Repeats(rows + 1, new.jde, FALSE)
      /\ SeenByAll /\ UNCHANGED <<exists, imported>>
  BY <1>1, <1>2, <1>3 DEF AdminCreate
<1>5. new.access = (new.user # Null)
  BY <1>1, <1>3, NoWorkerFields
<1>6. QED
  BY <1>3, <1>4, <1>5, NewStep, SeenByAllWitnessed

LEMMA AdminUpdateStep ==
  ASSUME WorkersInv, NEW w \in Workers, NEW jde \in Jde, NEW place \in Place,
         AdminUpdate(w, jde, place)
  PROVE  WorkersInv'
<1>1. PICK written \in Place : written = Placed(row[w].area, place)
  BY OnWorker, PlacedType DEF Worker
<1>2. Set(w, [row[w] EXCEPT !.jde = jde, !.area = written])
  BY <1>1 DEF AdminUpdate
<1>3. QED
  BY <1>2, EditStep, SeenByAllWitnessed DEF AdminUpdate

LEMMA ImportStep ==
  ASSUME WorkersInv, NEW ci \in Ci, NEW jde \in Jde, NEW user \in User, NEW flag \in BOOLEAN,
         NEW place \in Place, ImportWorker(ci, jde, user, flag, place)
  PROVE  WorkersInv'
<1> DEFINE w    == IF WithCi(ci) = {} THEN rows + 1 ELSE CHOOSE v \in WithCi(ci) : TRUE
           free == LinkedTo(user) \ {w} = {}
<1>1. /\ w \in Ids
      /\ Set(w, [row[w] EXCEPT !.ci = ci, !.access = flag,
                   !.jde = IF jde = Null THEN @ ELSE jde,
                   !.area = IF place = "none" THEN @ ELSE Placed(@, place),
                   !.user = IF user # Null /\ free THEN user ELSE @])
      /\ Repeats(w, jde, FALSE) /\ SeenByAll /\ imported' = imported \cup {w} /\ exists' = exists
  BY DEF ImportWorker
<1>2. w <= rows + 1
  BY DEF WithCi, Workers, WorkersInv, WorkersTypeOK
<1> HIDE DEF w, free
<1>3. /\ row[w] \in Worker /\ repeated \subseteq Jdes /\ exists \subseteq Users /\ imported \subseteq Ids
  BY <1>1 DEF WorkersInv, WorkersTypeOK
<1>4. PICK new : new = [row[w] EXCEPT !.ci = ci, !.access = flag,
                          !.jde = IF jde = Null THEN @ ELSE jde,
                          !.area = IF place = "none" THEN @ ELSE Placed(@, place),
                          !.user = IF user # Null /\ free THEN user ELSE @]
  OBVIOUS
<1>5. new \in Worker /\ new.jde = IF jde = Null THEN row[w].jde ELSE jde
  BY <1>3, <1>4, PlacedType DEF Worker
<1>6. /\ repeated \subseteq repeated' /\ repeated' \subseteq Jdes
      /\ jde \in repeated' \cup {Null} \/ WithJde(jde) \ {w} = {}
  BY <1>1, <1>3, RepeatsGrows
<1>7. \/ new.jde \in repeated' \cup {Null, row[w].jde}
      \/ WithJde(new.jde) \ {w} = {}
  BY <1>5, <1>6
<1>8. Set(w, new)
  BY <1>1, <1>4
<1>9. QED
  BY <1>1, <1>2, <1>3, <1>5, <1>6, <1>7, <1>8, RowStep, SeenByAllWitnessed

LEMMA BeginStep ==
  ASSUME WorkersInv, NEW r \in Requests, NEW q \in Request, Trusts(q, rows, row), Begins(r, q)
  PROVE  WorkersInv'
BY RequestStep DEF Begins, WorkersInv, WorkersTypeOK

LEMMA GoOnStep ==
  ASSUME WorkersInv, NEW r \in Requests, NEW q \in Request, Trusts(q, rows, row), GoesOn(r, q)
  PROVE  WorkersInv'
BY RequestStep DEF GoesOn, WorkersInv, WorkersTypeOK

LEMMA FoundStep ==
  ASSUME WorkersInv, NEW r \in Requests, NEW w \in Workers, Found(r, w)
  PROVE  WorkersInv'
<1>1. PICK q \in Request : q = request[r]
  BY RequestFields
<1>2. q.user \in User /\ w \in Ids /\ rows \in Nat /\ w <= rows
  BY <1>1, RequestFields DEF WorkersInv, WorkersTypeOK, Workers, Ids
<1>3. CASE q.user # Null /\ row[w].user = Null
  <2>1. PICK x : x = [q EXCEPT !.op = "link", !.of = w, !.ci = Null, !.jde = Null,
                             !.area = "none"]
    OBVIOUS
  <2>2. x \in Request /\ x.op = "link" /\ x.of = w /\ x.user = q.user
    BY <1>2, <2>1 DEF Request, Operation, Ci, Jde, Place
  <2>3. Trusts(x, rows, row)
    BY <1>2, <1>3, <2>2 DEF Trusts, Standing, AsRead, OnRow
  <2>4. GoesOn(r, x)
    BY <1>1, <1>3, <2>1 DEF Found
  <2>5. QED
    BY <2>2, <2>3, <2>4, GoOnStep
<1>4. CASE ~(q.user # Null /\ row[w].user = Null)
  <2>1. GoesOn(r, NoRequest)
    BY <1>1, <1>4 DEF Found
  <2>2. QED
    BY <2>1, NoRequestFields, GoOnStep
<1>5. QED
  BY <1>3, <1>4

LEMMA SearchCiStep ==
  ASSUME WorkersInv, NEW r \in Requests, SearchCi(r)
  PROVE  WorkersInv'
<1>1. CASE \E w \in WithCi(request[r].ci) : Found(r, w)
  BY <1>1, FoundStep DEF WithCi
<1>2. CASE WithCi(request[r].ci) = {} /\ GoesOn(r, [request[r] EXCEPT !.op = "searchJde"])
  <2>1. PICK x : x = [request[r] EXCEPT !.op = "searchJde"]
    OBVIOUS
  <2>2. x \in Request /\ x.op = "searchJde"
    BY <2>1, RequestFields DEF Request, Operation
  <2>3. Trusts(x, rows, row)
    BY <2>2 DEF Trusts, Standing, AsRead, OnRow
  <2>4. QED
    BY <1>2, <2>1, <2>2, <2>3, GoOnStep
<1>3. QED
  BY <1>1, <1>2 DEF SearchCi

LEMMA SearchJdeStep ==
  ASSUME WorkersInv, NEW r \in Requests, SearchJde(r)
  PROVE  WorkersInv'
<1>1. CASE \E w \in WithJde(request[r].jde) : Found(r, w)
  BY <1>1, FoundStep DEF WithJde
<1>2. CASE /\ WithJde(request[r].jde) = {}
           /\ GoesOn(r, [request[r] EXCEPT !.op = "insert"])
  <2>1. PICK x : x = [request[r] EXCEPT !.op = "insert"]
    OBVIOUS
  <2>2. x \in Request /\ x.op = "insert" /\ x.jde = request[r].jde
    BY <2>1, RequestFields DEF Request, Operation
  <2>3. Trusts(x, rows, row)
    BY <1>2, <2>2 DEF Trusts, Standing, AsRead, OnRow, WithJde, Workers
  <2>4. QED
    BY <1>2, <2>1, <2>2, <2>3, GoOnStep
<1>3. QED
  BY <1>1, <1>2 DEF SearchJde

LEMMA CreateStep ==
  ASSUME WorkersInv, NEW r \in Requests, NEW user \in User, NEW ci \in Ci, NEW jde \in Jde,
         NEW place \in Place, Create(r, user, ci, jde, place)
  PROVE  WorkersInv'
<1>1. PICK x : x = [NoRequest EXCEPT !.op = "searchCi", !.user = user, !.ci = ci, !.jde = jde,
                               !.area = place]
  OBVIOUS
<1>2. PICK t \in Request : t = NoRequest
  BY NoRequestFields
<1>3. x \in Request /\ x.op = "searchCi"
  BY <1>1, <1>2 DEF Request, Operation
<1>4. Trusts(x, rows, row)
  BY <1>3 DEF Trusts, Standing, AsRead, OnRow
<1>5. QED
  BY <1>1, <1>3, <1>4, BeginStep DEF Create

LEMMA UpdateStep ==
  ASSUME WorkersInv, NEW r \in Requests, NEW w \in Workers, NEW jde \in Jde,
         NEW place \in Place, Update(r, w, jde, place)
  PROVE  WorkersInv'
<1>1. PICK x : x = [NoRequest EXCEPT !.op = "update", !.of = w, !.jde = jde, !.area = place]
  OBVIOUS
<1>2. PICK t \in Request : t = NoRequest
  BY NoRequestFields
<1>3. x \in Request /\ x.op = "update" /\ x.of = w
  BY <1>1, <1>2, OnWorker DEF Request, Operation
<1>4. Trusts(x, rows, row)
  BY <1>3, OnWorker DEF Trusts, Standing, AsRead, Update
<1>5. QED
  BY <1>1, <1>3, <1>4, BeginStep DEF Update

LEMMA CompleteStep ==
  ASSUME WorkersInv, NEW r \in Requests, NEW w \in Workers, NEW jde \in Jde,
         NEW place \in Place, Complete(r, w, jde, place)
  PROVE  WorkersInv'
<1>1. PICK filled \in Jde : filled = IF row[w].jde = Null THEN jde ELSE Null
  BY DEF Jde
<1>2. PICK into \in Place : into = IF row[w].area = "catalog" THEN "none" ELSE place
  BY DEF Place
<1>3. PICK x : x = [NoRequest EXCEPT !.op = "completeJde", !.of = w, !.jde = filled, !.area = into]
  OBVIOUS
<1>4. PICK t \in Request : t = NoRequest
  BY NoRequestFields
<1>5. x \in Request /\ x.op = "completeJde" /\ x.of = w /\ x.jde = filled /\ x.area = into
  BY <1>3, <1>4, OnWorker DEF Request, Operation
<1>6. Trusts(x, rows, row)
  BY <1>1, <1>2, <1>5, OnWorker DEF Trusts, Standing, AsRead
<1>7. Begins(r, x)
  BY <1>1, <1>2, <1>3 DEF Complete
<1>8. QED
  BY <1>5, <1>6, <1>7, BeginStep

LEMMA CompleteJdeStep ==
  ASSUME WorkersInv, NEW r \in Requests, CompleteJde(r)
  PROVE  WorkersInv'
<1>1. PICK q \in Request : q = request[r]
  BY RequestFields
<1>2. /\ q.op = "completeJde" /\ q.jde \in Jde /\ Standing(q, rows)
      /\ ~q.overlapped => AsRead(q, rows, row)
  BY <1>1, RequestFields DEF CompleteJde
<1>3. PICK filled \in Jde : filled = IF WithJde(q.jde) \ {q.of} = {} THEN q.jde ELSE Null
  BY <1>2 DEF Jde
<1>4. PICK x : x = [q EXCEPT !.op = "complete", !.jde = filled]
  OBVIOUS
<1>5. /\ x \in Request /\ x.op = "complete" /\ x.of = q.of /\ x.jde = filled /\ x.area = q.area
      /\ x.overlapped = q.overlapped
  BY <1>4 DEF Request, Operation
<1>6. filled # Null => filled = q.jde /\ \A v \in Workers \ {q.of} : row[v].jde # q.jde
  BY <1>3 DEF WithJde
<1>7. Trusts(x, rows, row)
  BY <1>2, <1>5, <1>6 DEF Trusts, Standing, AsRead, OnRow, Workers
<1>8. GoesOn(r, x)
  BY <1>1, <1>3, <1>4 DEF CompleteJde
<1>9. QED
  BY <1>5, <1>7, <1>8, GoOnStep

\* migrate-master-data begins with a worker without a code.
LEMMA MasterDataStep ==
  ASSUME WorkersInv, NEW r \in Requests, NEW w \in Workers, MasterData(r, w)
  PROVE  WorkersInv'
<1>1. PICK x : x = [NoRequest EXCEPT !.op = "master", !.of = w, !.area = "catalog"]
  OBVIOUS
<1>2. PICK t \in Request : t = NoRequest
  BY NoRequestFields
<1>3. x \in Request /\ x.op = "master" /\ x.of = w /\ x.jde = t.jde
  BY <1>1, <1>2, OnWorker DEF Request, Operation, Place
<1>4. x.jde = Null
  BY <1>2, <1>3 DEF NoRequest
<1>5. Trusts(x, rows, row)
  BY <1>3, <1>4, OnWorker DEF Trusts, Standing, AsRead, MasterData
<1>6. QED
  BY <1>1, <1>3, <1>5, BeginStep DEF MasterData

\* A link or an unlinking is begun.
LEMMA LinkBegins ==
  ASSUME WorkersInv, NEW r \in Requests, NEW w \in Workers, NEW user \in Users,
         NEW op \in {"link", "relink", "linkAccount", "assign"},
         op # "relink" => row[w].user = Null,
         Begins(r, [NoRequest EXCEPT !.op = op, !.of = w, !.user = user])
  PROVE  WorkersInv'
<1>1. PICK x : x = [NoRequest EXCEPT !.op = op, !.of = w, !.user = user]
  OBVIOUS
<1>2. PICK t \in Request : t = NoRequest
  BY NoRequestFields
<1>3. x \in Request /\ x.op = op /\ x.of = w /\ x.user = user
  BY <1>1, <1>2, OnWorker DEF Request, Operation, User
<1>4. Trusts(x, rows, row)
  BY <1>3, OnWorker DEF Trusts, Standing, AsRead
<1>5. QED
  BY <1>1, <1>3, <1>4, BeginStep

LEMMA UnlinkStep ==
  ASSUME WorkersInv, NEW r \in Requests, NEW w \in Workers, Unlink(r, w)
  PROVE  WorkersInv'
<1>1. PICK x : x = [NoRequest EXCEPT !.op = "unlink", !.of = w]
  OBVIOUS
<1>2. PICK t \in Request : t = NoRequest
  BY NoRequestFields
<1>3. x \in Request /\ x.op = "unlink" /\ x.of = w
  BY <1>1, <1>2, OnWorker DEF Request, Operation
<1>4. Trusts(x, rows, row)
  BY <1>3, OnWorker DEF Trusts, Standing, AsRead
<1>5. QED
  BY <1>1, <1>3, <1>4, BeginStep DEF Unlink

\* The account is there, or is made: the worker is linked next.
LEMMA AccountStep ==
  ASSUME WorkersInv, NEW r \in Requests, LinkAccount(r) \/ AssignAccount(r)
  PROVE  WorkersInv'
<1>1. PICK q \in Request : q = request[r]
  BY RequestFields
<1>2. /\ q.op \in {"linkAccount", "assign"} /\ q.user \in User /\ Standing(q, rows)
      /\ ~q.overlapped => AsRead(q, rows, row)
  BY <1>1, RequestFields DEF LinkAccount, AssignAccount
<1>3. PICK x : x = [q EXCEPT !.op = "link"]
  OBVIOUS
<1>4. /\ x \in Request /\ x.op = "link" /\ x.of = q.of /\ x.user = q.user
      /\ x.overlapped = q.overlapped
  BY <1>3 DEF Request, Operation
<1>5. Trusts(x, rows, row)
  BY <1>2, <1>4 DEF Trusts, Standing, AsRead, OnRow
<1>6. /\ request' = [request EXCEPT ![r] = x] /\ UNCHANGED <<rows, row, imported, repeated>>
      /\ exists' \subseteq Users
  <2>1. exists \subseteq Users /\ request \in [Requests -> Request]
    BY DEF WorkersInv, WorkersTypeOK
  <2>2. CASE LinkAccount(r)
    BY <1>1, <1>3, <2>1, <2>2 DEF LinkAccount, GoesOn
  <2>3. CASE AssignAccount(r)
    <3>1. request' = [request EXCEPT ![r] = [request[r] EXCEPT !.op = "link"]]
      BY <2>1, <2>3 DEF AssignAccount
    <3>2. q.user # Null
      BY <1>2 DEF Standing
    <3>3. QED
      BY <1>1, <1>2, <1>3, <2>1, <2>3, <3>1, <3>2 DEF AssignAccount, User
  <2>4. QED
    BY <2>2, <2>3
<1>7. QED
  BY <1>4, <1>5, <1>6, RequestStep

LEMMA WorkersStep == WorkersInv /\ [WorkersNext]_workerVars => WorkersInv'
<1> SUFFICES ASSUME WorkersInv, [WorkersNext]_workerVars PROVE WorkersInv'
  OBVIOUS
<1>1. ASSUME NEW r \in Requests, NEW w \in Workers, NEW user \in Users,
             Link(r, w, user) \/ Assign(r, w, user) \/ SyncDump(r, w, user) \/ SyncUsers(r, w, user)
      PROVE  WorkersInv'
  BY <1>1, LinkBegins DEF Link, Assign, SyncDump, SyncUsers
<1>2. ASSUME NEW r \in Requests, FailRequest(r)
      PROVE  WorkersInv'
  BY <1>2, NoRequestFields, GoOnStep DEF FailRequest
<1>3. ASSUME NEW user \in Users, CreateAccount(user)
      PROVE  WorkersInv'
  BY <1>3 DEF CreateAccount, WorkersInv, WorkersTypeOK, RequestsTrust, EmptyBeyond,
    SameJdeOnlyIfRepeated, AccessFollowsLink, Workers
<1>4. CASE UNCHANGED workerVars
  BY <1>4 DEF workerVars, WorkersInv, WorkersTypeOK, RequestsTrust, EmptyBeyond,
    SameJdeOnlyIfRepeated, AccessFollowsLink, Workers
<1>5. QED
  BY <1>1, <1>2, <1>3, <1>4, AdminCreateStep, CreateStep, ImportStep, AdminUpdateStep, UpdateStep,
     CompleteStep, MasterDataStep, UnlinkStep, SearchCiStep, SearchJdeStep, InsertStep, WriteUpdateStep,
     CompleteJdeStep, WriteCompleteStep, AccountStep, WriteLinkStep, WriteUnlinkStep
  DEF WorkersNext

LEMMA WorkersInvariant == WorkersSpec => []WorkersInv
BY WorkersInitial, WorkersStep, PTL DEF WorkersSpec

\* PadronService: two workers have one JDE only if somebody gave it to the
\* second without looking for the first, or while another one wrote.
THEOREM SameJde == WorkersSpec => []SameJdeOnlyIfRepeated
BY WorkersInvariant, PTL DEF WorkersInv

\* tieneAccesoSistema says whether the worker has an account, whatever links
\* and unlinks overlapped, the flag an import wrote apart.
THEOREM AccessFollows == WorkersSpec => []AccessFollowsLink
BY WorkersInvariant, PTL DEF WorkersInv

\* The jde of a row stays if s had none to give it.
GivesNoJde(s) ==
  request[s].op \in {"complete", "master"} /\ request[s].jde = Null =>
    row'[request[s].of].jde = row[request[s].of].jde

\* A row changes only when everybody else in flight sees it; a completion
\* changes no JDE unless it has one to fill in.
RowsChangeSeen ==
  \/ row' = row
  \/ \A x \in Requests : request'[x] = Noticed(request[x])
  \/ \E s \in Requests :
       /\ \A x \in Requests \ {s} : request'[x] = Noticed(request[x])
       /\ GivesNoJde(s)

LEMMA ChangesAreSeen ==
  ASSUME WorkersInv, [WorkersNext]_workerVars
  PROVE  RowsChangeSeen
<1>1. ASSUME NEW s \in Requests, SeenBut(s), GivesNoJde(s)
      PROVE  RowsChangeSeen
  BY <1>1, SeenButWitnessed DEF RowsChangeSeen
<1>2. CASE SeenByAll
  BY <1>2, SeenByAllWitnessed DEF RowsChangeSeen
<1>3. ASSUME NEW s \in Requests, Insert(s) \/ WriteUpdate(s) \/ WriteLink(s) \/ WriteUnlink(s)
      PROVE  RowsChangeSeen
  BY <1>1, <1>3 DEF Insert, WriteUpdate, WriteLink, WriteUnlink, GivesNoJde
<1>4. ASSUME NEW s \in Requests, WriteComplete(s)
      PROVE  RowsChangeSeen
  <2>1. request[s].of \in Workers
    BY <1>4, RequestFields DEF WriteComplete, OnRow
  <2>2. PICK w \in Ids, t \in Worker : w = request[s].of /\ t = row[w]
    BY <2>1, OnWorker
  <2>3. ASSUME request[s].jde = Null
        PROVE  row'[w].jde = t.jde
    <3>1. PICK place \in Place :
            place = IF request[s].area = "catalog" THEN request[s].area ELSE t.area
      BY <2>2, RequestFields DEF Worker
    <3>2. row' = [row EXCEPT ![w] = [t EXCEPT !.jde = t.jde, !.area = place]]
      BY <1>4, <2>2, <2>3, <3>1 DEF WriteComplete, Set
    <3>3. row'[w] = [t EXCEPT !.jde = t.jde, !.area = place]
      BY <2>2, <3>2 DEF WorkersInv, WorkersTypeOK
    <3>4. QED
      BY <3>3 DEF Worker
  <2>4. GivesNoJde(s)
    BY <2>2, <2>3 DEF GivesNoJde
  <2>5. QED
    BY <1>1, <1>4, <2>4 DEF WriteComplete
<1>5. ASSUME NEW ci, NEW jde, NEW user, NEW flag, NEW place,
             AdminCreate(ci, jde, place) \/ ImportWorker(ci, jde, user, flag, place)
      PROVE  RowsChangeSeen
  BY <1>2, <1>5 DEF AdminCreate, ImportWorker
<1>6. ASSUME NEW w \in Workers, NEW jde \in Jde, NEW place, AdminUpdate(w, jde, place)
      PROVE  RowsChangeSeen
  BY <1>2, <1>6 DEF AdminUpdate
<1>7. \/ \E s \in Requests :
           Insert(s) \/ WriteUpdate(s) \/ WriteComplete(s) \/ WriteLink(s) \/ WriteUnlink(s)
      \/ \E ci \in Ci, jde \in Jde, place \in Place : AdminCreate(ci, jde, place)
      \/ \E ci \in Ci, jde \in Jde, place \in Place, user \in User, flag \in BOOLEAN :
           ImportWorker(ci, jde, user, flag, place)
      \/ \E w \in Workers, jde \in Jde, place \in Place : AdminUpdate(w, jde, place)
      \/ row' = row
  <2>1. ASSUME NEW r \in Requests, NEW w, NEW user, NEW ci, NEW jde, NEW place,
               Create(r, user, ci, jde, place) \/ Update(r, w, jde, place)
                 \/ Complete(r, w, jde, place) \/ MasterData(r, w) \/ Unlink(r, w)
                 \/ Link(r, w, user) \/ Assign(r, w, user) \/ SyncDump(r, w, user)
                 \/ SyncUsers(r, w, user)
        PROVE  row' = row
    BY <2>1 DEF Create, Update, Complete, MasterData, Unlink, Link, Assign, SyncDump, SyncUsers,
      Begins
  <2>2. ASSUME NEW r \in Requests,
               SearchCi(r) \/ SearchJde(r) \/ CompleteJde(r) \/ LinkAccount(r)
                 \/ AssignAccount(r) \/ FailRequest(r)
        PROVE  row' = row
    BY <2>2 DEF SearchCi, SearchJde, Found, CompleteJde, LinkAccount, AssignAccount, FailRequest,
      GoesOn
  <2>3. ASSUME NEW user, CreateAccount(user)
        PROVE  row' = row
    BY <2>3 DEF CreateAccount
  <2>4. UNCHANGED workerVars => row' = row
    BY DEF workerVars
  <2>5. QED
    BY <2>1, <2>2, <2>3, <2>4 DEF WorkersNext
<1>8. QED
  BY <1>3, <1>4, <1>5, <1>6, <1>7 DEF RowsChangeSeen

LEMMA WritesKnow ==
  ASSUME WorkersInv, [WorkersNext]_workerVars, NEW r \in Requests,
         request'[r] = NoRequest, ~request[r].overlapped, row'[request[r].of] # row[request[r].of]
  PROVE  LET q   == request[r]
             old == row[q.of]
             new == row'[q.of]
         IN
         /\ q.op \in {"update", "link"} => old.user = Null
         /\ q.op \in {"complete", "master"} =>
              /\ new.jde # old.jde => old.jde = Null
              /\ q.area = "catalog" => old.area # "catalog"
<1>1. PICK q \in Request : q = request[r]
  BY RequestFields
<1>2. AsRead(q, rows, row)
  BY <1>1, RequestFields
<1>3. CASE Noticed(q) = NoRequest
  <2>1. Noticed(q).op = q.op
    BY DEF Noticed, Request
  <2>2. q.op = "none"
    BY <1>3, <2>1, NoRequestFields
  <2>3. QED
    BY <1>1, <2>2
<1>4. CASE GivesNoJde(r)
  BY <1>1, <1>2, <1>4 DEF AsRead, GivesNoJde
<1>5. QED
  BY <1>1, <1>3, <1>4, ChangesAreSeen DEF RowsChangeSeen

\* PadronService: a request that no other write overlapped edits only a worker
\* without an account, fills in only a JDE and an areaCodigo that were missing
\* and links only a worker who was free, when it writes as when it read.
THEOREM WritesFollowReads == WorkersSpec => WritesOnlyOnWhatItRead
<1>1. ASSUME WorkersInv, [WorkersNext]_workerVars
      PROVE  [\A r \in Requests :
               LET q   == request[r]
                   old == row[q.of]
                   new == row'[q.of]
               IN
               request'[r] = NoRequest /\ ~q.overlapped =>
                 /\ q.op \in {"update", "link"} /\ new # old => old.user = Null
                 /\ q.op \in {"complete", "master"} /\ new # old =>
                      /\ new.jde # old.jde => old.jde = Null
                      /\ q.area = "catalog" => old.area # "catalog"]_workerVars
  BY <1>1, WritesKnow
<1>2. QED
  BY <1>1, WorkersInvariant, PTL DEF WorkersSpec, WritesOnlyOnWhatItRead

-----------------------------------------------------------------------------
(* Areas.  What an operation in flight holds: ids of rows that stand, and,  *)
(* unless another write came in between, what those rows say now.           *)

Stands(q, names) ==
  /\ q.task \in {"rename", "spread", "create", "update", "sync", "relate"} =>
       q.super \in Supers /\ names[q.super] # None /\ q.name \in Names
  /\ q.task \in {"create", "update", "sync", "master", "relate", "derive"} => q.code \in Codes
  /\ q.task = "master" => q.name \in Names
  /\ q.task = "derive" => q.person \in People /\ q.name = q.read

UpToDate(q, names, areas) ==
  /\ q.task = "rename" => names[q.super] = q.read
  /\ q.task \in {"spread", "create", "update", "sync", "relate"} => names[q.super] = q.name
  /\ q.task \in {"master", "relate"} => areas[q.code].text = q.name

Knows(q, names, areas) == Stands(q, names) /\ (~q.overlapped => UpToDate(q, names, areas))

ClerksKnow == \A c \in Clerks : Knows(clerk[c], super, area)

\* The superintendencia of an area has a name.
SupersStand == \A a \in Codes : area[a].super # None => super[area[a].super] # None

AreasInv == AreasTypeOK /\ ClerksKnow /\ SupersStand /\ AreaNamesItsSuper /\ PersonAgreesWithArea

LEMMA IdleFields ==
  ASSUME NEW names, NEW areas
  PROVE  Idle \in Clerk /\ Idle.task = "idle" /\ Knows(Idle, names, areas)
<1>1. Idle \in Clerk /\ Idle.task = "idle"
  BY DEF Idle, Clerk, Task
<1>2. QED
  BY <1>1 DEF Knows, Stands, UpToDate

LEMMA AreasInitial == AreasInit => AreasInv
<1> SUFFICES ASSUME AreasInit PROVE AreasInv
  OBVIOUS
<1>1. AreasTypeOK
  BY IdleFields DEF AreasInit, AreasTypeOK, Area, Person
<1>2. ClerksKnow
  BY IdleFields DEF AreasInit, ClerksKnow
<1>3. SupersStand /\ AreaNamesItsSuper /\ PersonAgreesWithArea
  BY DEF AreasInit, SupersStand, AreaNamesItsSuper, PersonAgreesWithArea
<1>4. QED
  BY <1>1, <1>2, <1>3 DEF AreasInv

\* A request that saw a write, one with another task, and the text and the
\* superintendencia of an area changed
Seen(q) == [q EXCEPT !.overlapped = q.task # "idle"]
Turned(q, task) == [q EXCEPT !.task = task]

LEMMA SeenFields ==
  ASSUME NEW q \in Clerk
  PROVE  /\ Seen(q) \in Clerk /\ Seen(q).overlapped = (q.task # "idle")
         /\ Seen(q).task = q.task /\ Seen(q).super = q.super /\ Seen(q).code = q.code
         /\ Seen(q).person = q.person /\ Seen(q).name = q.name /\ Seen(q).read = q.read
BY DEF Seen, Clerk

LEMMA TurnedFields ==
  ASSUME NEW q \in Clerk, NEW task \in Task
  PROVE  /\ Turned(q, task) \in Clerk /\ Turned(q, task).task = task
         /\ Turned(q, task).overlapped = q.overlapped
         /\ Turned(q, task).super = q.super /\ Turned(q, task).code = q.code
         /\ Turned(q, task).person = q.person /\ Turned(q, task).name = q.name
         /\ Turned(q, task).read = q.read
BY DEF Turned, Clerk

\* A superintendencia that stands keeps standing.
KeepsSupers == \A i \in Supers : super[i] # None => super'[i] # None

\* Whoever is in flight during a write knows it was overlapped.
LEMMA SeenKnows ==
  ASSUME AreasInv, KeepsSupers, NEW x \in Clerks
  PROVE  /\ Seen(clerk[x]) \in Clerk /\ Knows(Seen(clerk[x]), super', area')
         /\ Seen(clerk[x]).task = clerk[x].task /\ Seen(clerk[x]).super = clerk[x].super
<1>1. clerk[x] \in Clerk /\ Stands(clerk[x], super)
  BY DEF AreasInv, AreasTypeOK, ClerksKnow, Knows
<1>2. PICK q \in Clerk : /\ q = Seen(clerk[x])
                         /\ q.overlapped = (clerk[x].task # "idle")
                         /\ q.task = clerk[x].task /\ q.super = clerk[x].super
                         /\ q.code = clerk[x].code /\ q.person = clerk[x].person
                         /\ q.name = clerk[x].name /\ q.read = clerk[x].read
  BY <1>1, SeenFields
<1>3. Stands(q, super')
  BY <1>1, <1>2 DEF Stands, KeepsSupers
<1>4. ~q.overlapped => UpToDate(q, super', area')
  BY <1>2 DEF UpToDate
<1>5. QED
  BY <1>2, <1>3, <1>4 DEF Knows

\* A write of one clerk, and a write of none of them
LEMMA WroteClerks ==
  ASSUME AreasInv, KeepsSupers, NEW c \in Clerks, NEW next \in Clerk, Wrote(c, next),
         Knows(next, super', area')
  PROVE  /\ clerk' \in [Clerks -> Clerk] /\ ClerksKnow' /\ clerk'[c] = next
         /\ \A x \in Clerks \ {c} : clerk'[x].task = clerk[x].task /\ clerk'[x].super = clerk[x].super
<1>1. /\ clerk'[c] = next /\ \A x \in Clerks \ {c} : clerk'[x] = Seen(clerk[x])
  BY DEF Wrote, Seen, Busy
<1>2. ASSUME NEW x \in Clerks
      PROVE  /\ clerk'[x] \in Clerk /\ Knows(clerk'[x], super', area')
             /\ x # c => clerk'[x].task = clerk[x].task /\ clerk'[x].super = clerk[x].super
  BY <1>1, SeenKnows
<1>3. clerk' = [x \in Clerks |-> clerk'[x]]
  BY Zenon DEF Wrote
<1>4. clerk' \in [Clerks -> Clerk]
  BY <1>2, <1>3
<1>5. QED
  BY <1>1, <1>2, <1>4 DEF ClerksKnow

LEMMA WroteAloneClerks ==
  ASSUME AreasInv, KeepsSupers, WroteAlone
  PROVE  /\ clerk' \in [Clerks -> Clerk] /\ ClerksKnow'
         /\ \A x \in Clerks : clerk'[x].task = clerk[x].task /\ clerk'[x].super = clerk[x].super
<1>1. \A x \in Clerks : clerk'[x] = Seen(clerk[x])
  BY DEF WroteAlone, Seen, Busy
<1>2. ASSUME NEW x \in Clerks
      PROVE  /\ clerk'[x] \in Clerk /\ Knows(clerk'[x], super', area')
             /\ clerk'[x].task = clerk[x].task /\ clerk'[x].super = clerk[x].super
  BY <1>1, SeenKnows
<1>3. clerk' = [x \in Clerks |-> clerk'[x]]
  BY Zenon DEF WroteAlone
<1>4. clerk' \in [Clerks -> Clerk]
  BY <1>2, <1>3
<1>5. QED
  BY <1>2, <1>4 DEF ClerksKnow

\* A renaming that goes on in other hands goes on.
LEMMA StillRenamed ==
  ASSUME NEW others \in SUBSET Clerks,
         \A x \in others : clerk'[x].task = clerk[x].task /\ clerk'[x].super = clerk[x].super,
         \A x \in Clerks \ others : clerk[x].task # "spread"
  PROVE  \A i : BeingRenamed(i) => BeingRenamed(i)'
BY DEF BeingRenamed

\* Operations are begun, go on or end, and superintendencias are created.
LEMMA GrowStep ==
  ASSUME AreasInv, UNCHANGED <<area, person, skewed, behind>>,
         super' \in [Supers -> Names \cup {None}],
         \A i \in Supers : super[i] # None => super'[i] = super[i],
         clerk' \in [Clerks -> Clerk], ClerksKnow',
         \A i : BeingRenamed(i) => BeingRenamed(i)'
  PROVE  AreasInv'
<1>1. AreasTypeOK' /\ area \in [Codes -> Area]
  BY DEF AreasInv, AreasTypeOK
<1>2. \A a \in Codes : area[a].super \in Supers \cup {None}
  BY <1>1 DEF Area
<1>3. SupersStand'
  BY <1>2 DEF AreasInv, SupersStand
<1>4. ASSUME NEW a \in Codes, area[a].exists, area[a].super # None, a \notin skewed,
             ~BeingRenamed(area[a].super)'
      PROVE  area[a].text = super'[area[a].super]
  <2>1. /\ super'[area[a].super] = super[area[a].super]
        /\ ~BeingRenamed(area[a].super)
    BY <1>2, <1>4 DEF AreasInv, SupersStand
  <2>2. QED
    BY <1>4, <2>1 DEF AreasInv, AreaNamesItsSuper
<1>5. AreaNamesItsSuper'
  BY <1>4 DEF AreaNamesItsSuper
<1>6. PersonAgreesWithArea'
  BY DEF AreasInv, PersonAgreesWithArea
<1>7. QED
  BY <1>1, <1>3, <1>5, <1>6 DEF AreasInv

LEMMA TakesStep ==
  ASSUME AreasInv, NEW c \in Clerks, NEW q \in Clerk, Takes(c, q), Knows(q, super, area)
  PROVE  AreasInv'
<1>1. /\ clerk' = [clerk EXCEPT ![c] = q] /\ clerk[c].task = "idle"
      /\ UNCHANGED <<super, area, person, skewed, behind>>
      /\ clerk \in [Clerks -> Clerk] /\ super \in [Supers -> Names \cup {None}]
  BY DEF Takes, Busy, AreasInv, AreasTypeOK
<1>2. /\ clerk' \in [Clerks -> Clerk] /\ clerk'[c] = q
      /\ \A x \in Clerks \ {c} : clerk'[x] = clerk[x]
  BY <1>1
<1>3. ClerksKnow'
  BY <1>1, <1>2 DEF AreasInv, ClerksKnow
<1>4. \A i : BeingRenamed(i) => BeingRenamed(i)'
  BY <1>1, <1>2 DEF BeingRenamed
<1>5. QED
  BY <1>1, <1>2, <1>3, <1>4, GrowStep

\* One area is written.
LEMMA AreaStep ==
  ASSUME AreasInv, NEW a \in Codes, NEW r \in Area, area' = [area EXCEPT ![a] = r],
         UNCHANGED <<super, person>>,
         r.super # None => super[r.super] # None,
         skewed' \subseteq Codes, \A b \in Codes \ {a} : b \in skewed => b \in skewed',
         r.super # None /\ a \notin skewed' => r.text = super[r.super],
         FallBehind \/ (behind' = behind /\ r.text = area[a].text),
         clerk' \in [Clerks -> Clerk], ClerksKnow',
         \A i : BeingRenamed(i) => BeingRenamed(i)'
  PROVE  AreasInv'
<1>1. /\ area' \in [Codes -> Area] /\ area'[a] = r /\ area \in [Codes -> Area]
      /\ \A b \in Codes \ {a} : area'[b] = area[b]
      /\ person \in [People -> Person] /\ behind \subseteq People
  BY DEF AreasInv, AreasTypeOK
<1>2. behind' \subseteq People /\ behind \subseteq behind'
  BY <1>1 DEF FallBehind
<1>3. AreasTypeOK'
  BY <1>1, <1>2 DEF AreasInv, AreasTypeOK
<1>4. SupersStand'
  BY <1>1 DEF AreasInv, SupersStand
<1>5. AreaNamesItsSuper'
  BY <1>1 DEF AreasInv, AreaNamesItsSuper
<1>6. ASSUME NEW p \in People, person[p].code # None, p \notin behind'
      PROVE  person[p].text = area'[person[p].code].text
  <2>1. person[p].code \in Codes
    BY <1>1, <1>6 DEF Person
  <2>2. area'[person[p].code].text = area[person[p].code].text
    BY <1>1, <1>6, <2>1 DEF FallBehind
  <2>3. QED
    BY <1>2, <1>6, <2>2 DEF AreasInv, PersonAgreesWithArea
<1>7. PersonAgreesWithArea'
  BY <1>6 DEF PersonAgreesWithArea
<1>8. QED
  BY <1>3, <1>4, <1>5, <1>7 DEF AreasInv

\* One worker is written.
LEMMA PersonStep ==
  ASSUME AreasInv, NEW p \in People, NEW r \in Person, person' = [person EXCEPT ![p] = r],
         UNCHANGED <<super, area, skewed>>,
         behind' \subseteq People, \A o \in People \ {p} : o \in behind => o \in behind',
         r.code # None /\ p \notin behind' => r.text = area[r.code].text,
         clerk' \in [Clerks -> Clerk], ClerksKnow',
         \A i : BeingRenamed(i) => BeingRenamed(i)'
  PROVE  AreasInv'
<1>1. /\ person' \in [People -> Person] /\ person'[p] = r
      /\ \A o \in People \ {p} : person'[o] = person[o]
  BY DEF AreasInv, AreasTypeOK
<1>2. AreasTypeOK'
  BY <1>1 DEF AreasInv, AreasTypeOK
<1>3. SupersStand' /\ AreaNamesItsSuper'
  BY DEF AreasInv, SupersStand, AreaNamesItsSuper
<1>4. PersonAgreesWithArea'
  BY <1>1 DEF AreasInv, PersonAgreesWithArea
<1>5. QED
  BY <1>2, <1>3, <1>4 DEF AreasInv

LEMMA CreateSuperStep ==
  ASSUME AreasInv, NEW i \in Supers, NEW n \in Names, CreateSuper(i, n)
  PROVE  AreasInv'
<1>1. /\ super[i] = None /\ super' = [super EXCEPT ![i] = n] /\ WroteAlone
      /\ UNCHANGED <<area, person, skewed, behind>>
      /\ super \in [Supers -> Names \cup {None}]
  BY DEF CreateSuper, AreasInv, AreasTypeOK
<1>2. /\ super' \in [Supers -> Names \cup {None}]
      /\ \A j \in Supers : super[j] # None => super'[j] = super[j]
  BY <1>1
<1>3. KeepsSupers
  BY <1>2 DEF KeepsSupers
<1>4. /\ clerk' \in [Clerks -> Clerk] /\ ClerksKnow'
      /\ \A x \in Clerks : clerk'[x].task = clerk[x].task /\ clerk'[x].super = clerk[x].super
  BY <1>1, <1>3, WroteAloneClerks
<1>5. \A j : BeingRenamed(j) => BeingRenamed(j)'
  BY <1>4 DEF BeingRenamed
<1>6. QED
  BY <1>1, <1>2, <1>4, <1>5, GrowStep

\* An upsert by name, in the course of c
LEMMA UpsertStep ==
  ASSUME AreasInv, NEW c \in Clerks, NEW i \in Supers, NEW n \in Names, Upsert(i, n),
         NEW q \in Clerk, Wrote(c, q), clerk[c].task # "spread",
         UNCHANGED <<area, person, skewed, behind>>,
         super'[i] = n => Knows(q, super', area)
  PROVE  AreasInv'
<1>1. super \in [Supers -> Names \cup {None}]
  BY DEF AreasInv, AreasTypeOK
<1>2. /\ super' \in [Supers -> Names \cup {None}] /\ super'[i] = n
      /\ \A j \in Supers : super[j] # None => super'[j] = super[j]
  BY <1>1 DEF Upsert
<1>3. KeepsSupers
  BY <1>2 DEF KeepsSupers
<1>4. /\ clerk' \in [Clerks -> Clerk] /\ ClerksKnow'
      /\ \A x \in Clerks \ {c} : clerk'[x].task = clerk[x].task /\ clerk'[x].super = clerk[x].super
  BY <1>2, <1>3, WroteClerks
<1>5. \A j : BeingRenamed(j) => BeingRenamed(j)'
  BY <1>4 DEF BeingRenamed
<1>6. QED
  BY <1>2, <1>4, <1>5, GrowStep

LEMMA RenameStep ==
  ASSUME AreasInv, NEW c \in Clerks, Rename(c)
  PROVE  AreasInv'
<1>1. PICK q \in Clerk : q = clerk[c]
  BY DEF AreasInv, AreasTypeOK
<1>2. /\ Stands(q, super) /\ (~q.overlapped => UpToDate(q, super, area)) /\ q.task = "rename"
  BY <1>1 DEF AreasInv, ClerksKnow, Knows, Rename
<1>3. /\ q.super \in Supers /\ q.name \in Names /\ super[q.super] # None
      /\ super' = [super EXCEPT ![q.super] = q.name]
      /\ super \in [Supers -> Names \cup {None}]
      /\ UNCHANGED <<area, person, behind>>
  BY <1>1, <1>2 DEF Stands, Rename, AreasInv, AreasTypeOK
<1>4. /\ super' \in [Supers -> Names \cup {None}] /\ super'[q.super] = q.name
      /\ \A j \in Supers \ {q.super} : super'[j] = super[j]
  BY <1>3
<1>5. KeepsSupers
  BY <1>3, <1>4 DEF KeepsSupers
<1>6. AreasOf(q.super) \subseteq Codes
  BY DEF AreasOf
<1>7. CASE q.name = q.read
  <2>1. /\ Wrote(c, Idle)
        /\ skewed' = IF q.overlapped THEN skewed \cup AreasOf(q.super) ELSE skewed
    BY <1>1, <1>7 DEF Rename
  <2>2. /\ clerk' \in [Clerks -> Clerk] /\ ClerksKnow'
        /\ \A x \in Clerks \ {c} : clerk'[x].task = clerk[x].task /\ clerk'[x].super = clerk[x].super
    BY <1>5, <2>1, IdleFields, WroteClerks
  <2>3. \A j : BeingRenamed(j) => BeingRenamed(j)'
    BY <1>1, <1>2, <2>2 DEF BeingRenamed
  <2>4. CASE q.overlapped
    <3>1. skewed' = skewed \cup AreasOf(q.super)
      BY <2>1, <2>4
    <3>2. AreasTypeOK' /\ SupersStand'
      BY <1>3, <1>4, <1>5, <1>6, <2>2, <3>1
      DEF AreasInv, AreasTypeOK, SupersStand, KeepsSupers, Area
    <3>3. AreaNamesItsSuper'
      <4>1. \A a \in Codes : area[a].super \in Supers \cup {None}
        BY DEF AreasInv, AreasTypeOK, Area
      <4>2. ASSUME NEW a \in Codes, NEW i \in Supers, i = area[a].super, area[a].exists,
                   i # None, a \notin skewed', ~BeingRenamed(i)'
            PROVE  area[a].text = super'[i]
        <5>1. i # q.super
          BY <3>1, <4>2 DEF AreasOf
        <5>2. super'[i] = super[i]
          BY <1>4, <5>1
        <5>3. ~BeingRenamed(i) /\ a \notin skewed
          BY <2>3, <3>1, <4>2
        <5>4. QED
          BY <4>2, <5>2, <5>3 DEF AreasInv, AreaNamesItsSuper
      <4>3. QED
        BY <1>3, <4>1, <4>2 DEF AreaNamesItsSuper, BeingRenamed
    <3>4. PersonAgreesWithArea'
      BY <1>3 DEF AreasInv, PersonAgreesWithArea
    <3>5. QED
      BY <2>2, <3>2, <3>3, <3>4 DEF AreasInv
  <2>5. CASE ~q.overlapped
    <3>1. super' = super /\ skewed' = skewed
      BY <1>2, <1>3, <1>7, <2>1, <2>5 DEF UpToDate
    <3>2. QED
      BY <1>3, <2>2, <2>3, <3>1, GrowStep
  <2>6. QED
    BY <2>4, <2>5
<1>8. CASE q.name # q.read
  <2>1. PICK next \in Clerk : next = Turned(q, "spread")
    BY TurnedFields DEF Task
  <2>2. /\ next.task = "spread" /\ next.super = q.super /\ next.name = q.name
    BY <2>1, TurnedFields DEF Task
  <2>3. Wrote(c, next) /\ skewed' = skewed
    BY <1>1, <1>8, <2>1 DEF Rename, Turned
  <2>4. Knows(next, super', area')
    BY <1>3, <1>4, <2>2 DEF Knows, Stands, UpToDate
  <2>5. /\ clerk' \in [Clerks -> Clerk] /\ ClerksKnow' /\ clerk'[c] = next
        /\ \A x \in Clerks \ {c} : clerk'[x].task = clerk[x].task /\ clerk'[x].super = clerk[x].super
    BY <1>5, <2>3, <2>4, WroteClerks
  <2>6. BeingRenamed(q.super)' /\ \A j : BeingRenamed(j) => BeingRenamed(j)'
    BY <1>1, <1>2, <2>2, <2>5 DEF BeingRenamed
  <2>7. AreasTypeOK' /\ SupersStand'
    BY <1>3, <1>4, <1>5, <2>3, <2>5
    DEF AreasInv, AreasTypeOK, SupersStand, KeepsSupers, Area
  <2>8. AreaNamesItsSuper'
    <3>1. \A a \in Codes : area[a].super \in Supers \cup {None}
      BY DEF AreasInv, AreasTypeOK, Area
    <3>2. ASSUME NEW a \in Codes, NEW i \in Supers, i = area[a].super, area[a].exists,
                 i # None, a \notin skewed, ~BeingRenamed(i)'
          PROVE  area[a].text = super'[i]
      <4>1. i # q.super /\ ~BeingRenamed(i)
        BY <2>6, <3>2
      <4>2. super'[i] = super[i]
        BY <1>4, <4>1
      <4>3. QED
        BY <3>2, <4>1, <4>2 DEF AreasInv, AreaNamesItsSuper
    <3>3. QED
      BY <1>3, <2>3, <3>1, <3>2 DEF AreaNamesItsSuper, BeingRenamed
  <2>9. PersonAgreesWithArea'
    BY <1>3 DEF AreasInv, PersonAgreesWithArea
  <2>10. QED
    BY <2>5, <2>7, <2>8, <2>9 DEF AreasInv
<1>9. QED
  BY <1>7, <1>8

WithText(r, n) == [r EXCEPT !.text = n]

LEMMA WithTextFields ==
  ASSUME NEW r \in Area, NEW n \in Names
  PROVE  /\ WithText(r, n) \in Area /\ WithText(r, n).exists = r.exists
         /\ WithText(r, n).super = r.super /\ WithText(r, n).text = n
BY DEF WithText, Area

\* The write of c ends it, and superintendencias stay as they are.
LEMMA EndsClerk ==
  ASSUME AreasInv, NEW c \in Clerks, Wrote(c, Idle), UNCHANGED super
  PROVE  /\ clerk' \in [Clerks -> Clerk] /\ ClerksKnow'
         /\ clerk'[c].task = "idle"
         /\ \A x \in Clerks \ {c} : clerk'[x].task = clerk[x].task /\ clerk'[x].super = clerk[x].super
         /\ clerk[c].task # "spread" => \A i : BeingRenamed(i) => BeingRenamed(i)'
<1>1. KeepsSupers
  BY DEF KeepsSupers
<1>2. /\ clerk' \in [Clerks -> Clerk] /\ ClerksKnow' /\ clerk'[c] = Idle
      /\ \A x \in Clerks \ {c} : clerk'[x].task = clerk[x].task /\ clerk'[x].super = clerk[x].super
  BY <1>1, IdleFields, WroteClerks
<1>3. clerk[c].task # "spread" => \A i : BeingRenamed(i) => BeingRenamed(i)'
  BY <1>2 DEF BeingRenamed
<1>4. QED
  BY <1>2, <1>3, IdleFields

LEMMA SpreadStep ==
  ASSUME AreasInv, NEW c \in Clerks, Spread(c)
  PROVE  AreasInv'
<1>1. PICK q \in Clerk : q = clerk[c]
  BY DEF AreasInv, AreasTypeOK
<1>2. /\ Stands(q, super) /\ (~q.overlapped => UpToDate(q, super, area)) /\ q.task = "spread"
  BY <1>1 DEF AreasInv, ClerksKnow, Knows, Spread
<1>3. PICK kids \in SUBSET Codes : kids = AreasOf(q.super)
  BY DEF AreasOf
<1>4. /\ q.super \in Supers /\ q.name \in Names
      /\ area' = [a \in Codes |-> IF a \in kids THEN WithText(area[a], q.name) ELSE area[a]]
      /\ skewed' = IF q.overlapped THEN skewed \cup kids ELSE skewed \ kids
      /\ UNCHANGED <<super, person>> /\ FallBehind /\ Wrote(c, Idle)
  BY <1>1, <1>2, <1>3 DEF Stands, Spread, Skews, WithText
<1>5. area \in [Codes -> Area] /\ person \in [People -> Person] /\ behind \subseteq People
  BY DEF AreasInv, AreasTypeOK
<1>6. ASSUME NEW a \in Codes
      PROVE  /\ area'[a] \in Area /\ area'[a].super = area[a].super
             /\ area'[a].exists = area[a].exists
             /\ a \in kids => area'[a].text = q.name
             /\ a \notin kids => area'[a] = area[a]
  <2>1. area[a] \in Area /\ area'[a] = IF a \in kids THEN WithText(area[a], q.name) ELSE area[a]
    BY <1>4, <1>5
  <2>2. QED
    BY <1>4, <2>1, WithTextFields
<1>7. area' \in [Codes -> Area]
  BY <1>4, <1>6
<1>8. /\ clerk' \in [Clerks -> Clerk] /\ ClerksKnow' /\ clerk'[c].task = "idle"
      /\ \A x \in Clerks \ {c} : clerk'[x].task = clerk[x].task /\ clerk'[x].super = clerk[x].super
  BY <1>4, EndsClerk
<1>9. behind' \subseteq People /\ behind \subseteq behind'
  BY <1>5, <1>4 DEF FallBehind
<1>10. AreasTypeOK'
  BY <1>4, <1>7, <1>8, <1>9 DEF AreasInv, AreasTypeOK
<1>11. SupersStand'
  BY <1>4, <1>6 DEF AreasInv, SupersStand
<1>12. ASSUME NEW a \in Codes, NEW i \in Supers, i = area[a].super, area[a].exists,
              i # None, a \notin skewed', ~BeingRenamed(i)'
       PROVE  area'[a].text = super[i]
  <2>1. CASE a \in kids
    <3>1. i = q.super /\ ~q.overlapped
      BY <1>3, <1>4, <1>12, <2>1 DEF AreasOf
    <3>2. super[q.super] = q.name
      BY <1>2, <3>1 DEF UpToDate
    <3>3. QED
      BY <1>6, <2>1, <3>1, <3>2
  <2>2. CASE a \notin kids
    <3>1. i # q.super /\ a \notin skewed
      BY <1>3, <1>4, <1>12, <2>2 DEF AreasOf
    <3>2. ~BeingRenamed(i)
      BY <1>1, <1>8, <1>12, <3>1 DEF BeingRenamed
    <3>3. QED
      BY <1>6, <1>12, <2>2, <3>1, <3>2 DEF AreasInv, AreaNamesItsSuper
  <2>3. QED
    BY <2>1, <2>2
<1>13. AreaNamesItsSuper'
  <2>1. \A a \in Codes : area[a].super \in Supers \cup {None}
    BY <1>5 DEF Area
  <2>2. QED
    BY <1>4, <1>6, <1>12, <2>1 DEF AreaNamesItsSuper, BeingRenamed
<1>14. PersonAgreesWithArea'
  <2>1. ASSUME NEW p \in People, person[p].code # None, p \notin behind'
        PROVE  person[p].text = area'[person[p].code].text
    <3>1. area'[person[p].code].text = area[person[p].code].text
      BY <1>4, <2>1 DEF FallBehind
    <3>2. QED
      BY <1>9, <2>1, <3>1 DEF AreasInv, PersonAgreesWithArea
  <2>2. QED
    BY <1>4, <2>1 DEF PersonAgreesWithArea
<1>15. QED
  BY <1>8, <1>10, <1>11, <1>13, <1>14 DEF AreasInv

LEMMA WriteAreaStep ==
  ASSUME AreasInv, NEW c \in Clerks, WriteArea(c)
  PROVE  AreasInv'
<1>1. PICK q \in Clerk : q = clerk[c]
  BY DEF AreasInv, AreasTypeOK
<1>2. /\ Stands(q, super) /\ (~q.overlapped => UpToDate(q, super, area))
      /\ q.task \in {"create", "update", "sync"}
  BY <1>1 DEF AreasInv, ClerksKnow, Knows, WriteArea
<1>3. PICK a \in Codes, r \in Area :
        a = q.code /\ r = [exists |-> TRUE, super |-> q.super, text |-> q.name]
  BY <1>2 DEF Stands, Area
<1>4. /\ area' = [area EXCEPT ![a] = r] /\ UNCHANGED <<super, person>>
      /\ skewed' = IF q.overlapped THEN skewed \cup {a} ELSE skewed \ {a}
      /\ FallBehind /\ Wrote(c, Idle) /\ skewed \subseteq Codes
      /\ r.super = q.super /\ r.text = q.name
  BY <1>1, <1>3 DEF WriteArea, Skews, AreasInv, AreasTypeOK
<1>5. /\ clerk' \in [Clerks -> Clerk] /\ ClerksKnow'
      /\ \A i : BeingRenamed(i) => BeingRenamed(i)'
  BY <1>1, <1>2, <1>4, EndsClerk
<1>6. super[r.super] # None /\ (~q.overlapped => r.text = super[r.super])
  BY <1>2, <1>4 DEF Stands, UpToDate
<1>7. QED
  BY <1>4, <1>5, <1>6, AreaStep

LEMMA SyncTextStep ==
  ASSUME AreasInv, NEW a \in Codes, NEW n \in Names, SyncText(a, n)
  PROVE  AreasInv'
<1>1. area[a] \in Area
  BY DEF AreasInv, AreasTypeOK
<1>2. PICK r \in Area : r = [area[a] EXCEPT !.exists = TRUE, !.text = n] /\ r.super = area[a].super
  <2>1. PICK r : r = [area[a] EXCEPT !.exists = TRUE, !.text = n]
    OBVIOUS
  <2>2. r \in Area /\ r.super = area[a].super
    BY <1>1, <2>1 DEF Area
  <2>3. QED
    BY <2>1, <2>2
<1>3. /\ area' = [area EXCEPT ![a] = r] /\ UNCHANGED <<super, person>>
      /\ skewed' = skewed \cup {a} /\ FallBehind /\ WroteAlone /\ skewed \subseteq Codes
  BY <1>2 DEF SyncText, AreasInv, AreasTypeOK
<1>4. KeepsSupers
  BY <1>3 DEF KeepsSupers
<1>5. /\ clerk' \in [Clerks -> Clerk] /\ ClerksKnow'
      /\ \A x \in Clerks : clerk'[x].task = clerk[x].task /\ clerk'[x].super = clerk[x].super
  BY <1>3, <1>4, WroteAloneClerks
<1>6. \A i : BeingRenamed(i) => BeingRenamed(i)'
  BY <1>5 DEF BeingRenamed
<1>7. r.super # None => super[r.super] # None
  BY <1>2 DEF AreasInv, SupersStand
<1>8. QED
  BY <1>3, <1>5, <1>6, <1>7, AreaStep

LEMMA MasterRelateStep ==
  ASSUME AreasInv, NEW c \in Clerks, MasterRelate(c)
  PROVE  AreasInv'
<1>1. PICK q \in Clerk : q = clerk[c]
  BY DEF AreasInv, AreasTypeOK
<1>2. /\ Stands(q, super) /\ (~q.overlapped => UpToDate(q, super, area)) /\ q.task = "relate"
  BY <1>1 DEF AreasInv, ClerksKnow, Knows, MasterRelate
<1>3. PICK a \in Codes : a = q.code
  BY <1>2 DEF Stands
<1>4. area[a] \in Area /\ q.super \in Supers /\ super[q.super] # None
  BY <1>2 DEF Stands, AreasInv, AreasTypeOK
<1>5. PICK r \in Area : /\ r = [area[a] EXCEPT !.super = q.super]
                        /\ r.super = q.super /\ r.text = area[a].text
  <2>1. PICK r : r = [area[a] EXCEPT !.super = q.super]
    OBVIOUS
  <2>2. r \in Area /\ r.super = q.super /\ r.text = area[a].text
    BY <1>4, <2>1 DEF Area
  <2>3. QED
    BY <2>1, <2>2
<1>6. /\ area' = [area EXCEPT ![a] = r] /\ UNCHANGED <<super, person, behind>>
      /\ skewed' = IF q.overlapped THEN skewed \cup {a} ELSE skewed \ {a}
      /\ Wrote(c, Idle) /\ skewed \subseteq Codes
  BY <1>1, <1>3, <1>5 DEF MasterRelate, Skews, AreasInv, AreasTypeOK
<1>7. /\ clerk' \in [Clerks -> Clerk] /\ ClerksKnow'
      /\ \A i : BeingRenamed(i) => BeingRenamed(i)'
  BY <1>1, <1>2, <1>6, EndsClerk
<1>8. ~q.overlapped => r.text = super[r.super]
  BY <1>2, <1>3, <1>5 DEF UpToDate
<1>9. QED
  BY <1>4, <1>5, <1>6, <1>7, <1>8, AreaStep

LEMMA WritePersonStep ==
  ASSUME AreasInv, NEW c \in Clerks, WritePerson(c)
  PROVE  AreasInv'
<1>1. PICK q \in Clerk : q = clerk[c]
  BY DEF AreasInv, AreasTypeOK
<1>2. Stands(q, super) /\ q.task = "derive"
  BY <1>1 DEF AreasInv, ClerksKnow, Knows, WritePerson
<1>3. q.code \in Codes /\ q.name = q.read /\ q.name \in Names \cup {None}
  BY <1>2 DEF Stands, Clerk
<1>4. PICK p \in People : p = q.person
  BY <1>2 DEF Stands
<1>5. PICK r \in Person : r = [code |-> q.code, text |-> q.name]
  BY <1>3 DEF Person
<1>6. /\ person' = [person EXCEPT ![p] = r] /\ UNCHANGED <<super, area, skewed>>
      /\ behind' = IF area[q.code].text # q.read THEN behind \cup {p} ELSE behind \ {p}
      /\ Wrote(c, Idle) /\ behind \subseteq People
      /\ r.code = q.code /\ r.text = q.name
  BY <1>1, <1>4, <1>5 DEF WritePerson, AreasInv, AreasTypeOK
<1>7. /\ clerk' \in [Clerks -> Clerk] /\ ClerksKnow'
      /\ \A i : BeingRenamed(i) => BeingRenamed(i)'
  BY <1>1, <1>2, <1>6, EndsClerk
<1>8. QED
  BY <1>3, <1>6, <1>7, PersonStep

LEMMA WriteTextStep ==
  ASSUME AreasInv, NEW p \in People, NEW n \in Names, WriteText(p, n)
  PROVE  AreasInv'
<1>1. person[p] \in Person /\ person \in [People -> Person]
  BY DEF AreasInv, AreasTypeOK
<1>2. PICK r \in Person : r = [person[p] EXCEPT !.text = n]
  BY <1>1 DEF Person
<1>3. /\ person' = [person EXCEPT ![p] = r] /\ UNCHANGED <<super, area, skewed>>
      /\ behind' = behind \cup {p} /\ WroteAlone /\ behind \subseteq People
  BY <1>2 DEF WriteText, AreasInv, AreasTypeOK
<1>4. KeepsSupers
  BY <1>3 DEF KeepsSupers
<1>5. /\ clerk' \in [Clerks -> Clerk] /\ ClerksKnow'
      /\ \A x \in Clerks : clerk'[x].task = clerk[x].task /\ clerk'[x].super = clerk[x].super
  BY <1>3, <1>4, WroteAloneClerks
<1>6. \A i : BeingRenamed(i) => BeingRenamed(i)'
  BY <1>5 DEF BeingRenamed
<1>7. QED
  BY <1>3, <1>5, <1>6, PersonStep

LEMMA AbandonStep ==
  ASSUME AreasInv, NEW c \in Clerks, Abandon(c)
  PROVE  AreasInv'
<1>1. PICK q \in Clerk : q = clerk[c]
  BY DEF AreasInv, AreasTypeOK
<1>2. /\ clerk' = [clerk EXCEPT ![c] = Idle] /\ clerk \in [Clerks -> Clerk]
      /\ skewed' = IF q.task = "spread" THEN skewed \cup AreasOf(q.super) ELSE skewed
      /\ UNCHANGED <<super, area, person, behind>> /\ AreasOf(q.super) \subseteq Codes
  BY <1>1 DEF Abandon, AreasInv, AreasTypeOK, AreasOf
<1>3. /\ clerk' \in [Clerks -> Clerk] /\ clerk'[c] = Idle
      /\ \A x \in Clerks \ {c} : clerk'[x] = clerk[x]
  BY <1>2, IdleFields
<1>4. Knows(Idle, super, area) /\ Idle.task = "idle"
  BY IdleFields
<1>5. ClerksKnow'
  BY <1>2, <1>3, <1>4 DEF AreasInv, ClerksKnow
<1>6. AreasTypeOK' /\ SupersStand' /\ PersonAgreesWithArea'
  BY <1>2, <1>3 DEF AreasInv, AreasTypeOK, SupersStand, PersonAgreesWithArea
<1>7. ASSUME NEW a \in Codes, NEW i \in Supers, i = area[a].super, area[a].exists,
             i # None, a \notin skewed', ~BeingRenamed(i)'
      PROVE  area[a].text = super[i]
  <2>1. a \notin skewed /\ ~(q.task = "spread" /\ q.super = i)
    BY <1>2, <1>7 DEF AreasOf
  <2>2. ~BeingRenamed(i)
    BY <1>1, <1>3, <1>7, <2>1 DEF BeingRenamed
  <2>3. QED
    BY <1>7, <2>1, <2>2 DEF AreasInv, AreaNamesItsSuper
<1>8. AreaNamesItsSuper'
  <2>1. \A a \in Codes : area[a].super \in Supers \cup {None}
    BY DEF AreasInv, AreasTypeOK, Area
  <2>2. QED
    BY <1>2, <1>7, <2>1 DEF AreaNamesItsSuper, BeingRenamed
<1>9. QED
  BY <1>5, <1>6, <1>8 DEF AreasInv

LEMMA AreasStep ==
  ASSUME AreasInv, [AreasNext]_areaVars
  PROVE  AreasInv'
<1>1. /\ super \in [Supers -> Names \cup {None}] /\ area \in [Codes -> Area]
      /\ \A c \in Clerks : clerk[c] \in Clerk
      /\ \A a \in Codes : area[a].text \in Names \cup {None}
  BY DEF AreasInv, AreasTypeOK, Area
<1>2. ASSUME NEW c \in Clerks, NEW i \in Supers, NEW n \in Names, ReadSuper(c, i, n)
      PROVE  AreasInv'
  <2>1. PICK q \in Clerk : q = [Idle EXCEPT !.task = "rename", !.super = i, !.name = n, !.read = super[i]]
    BY <1>1 DEF Idle, Clerk, Task
  <2>2. q.task = "rename" /\ q.super = i /\ q.name = n /\ q.read = super[i]
    BY <2>1 DEF Idle
  <2>3. Takes(c, q) /\ super[i] # None
    BY <1>2, <2>1 DEF ReadSuper
  <2>4. Knows(q, super, area)
    BY <2>2, <2>3 DEF Knows, Stands, UpToDate
  <2>5. QED
    BY <2>3, <2>4, TakesStep
<1>3. ASSUME NEW c \in Clerks, NEW a \in Codes, NEW i \in Supers, ReadForArea(c, a, i)
      PROVE  AreasInv'
  <2>1. PICK task \in {"update", "create"} : task = IF area[a].exists THEN "update" ELSE "create"
    OBVIOUS
  <2>2. PICK q \in Clerk : q = [Idle EXCEPT !.task = task, !.super = i, !.code = a, !.name = super[i]]
    BY <1>1, <2>1 DEF Idle, Clerk, Task
  <2>3. q.task = task /\ q.super = i /\ q.name = super[i] /\ q.code = a
    BY <2>2 DEF Idle
  <2>4. Takes(c, q) /\ super[i] # None
    BY <1>3, <2>1, <2>2 DEF ReadForArea
  <2>5. Knows(q, super, area)
    BY <1>1, <2>3, <2>4 DEF Knows, Stands, UpToDate
  <2>6. QED
    BY <2>4, <2>5, TakesStep
<1>4. ASSUME NEW c \in Clerks, NEW a \in Codes, MasterRead(c, a)
      PROVE  AreasInv'
  <2>1. PICK q \in Clerk : q = [Idle EXCEPT !.task = "master", !.code = a, !.name = area[a].text]
    BY <1>1 DEF Idle, Clerk, Task
  <2>2. q.task = "master" /\ q.name = area[a].text /\ q.code = a
    BY <2>1 DEF Idle
  <2>3. Takes(c, q) /\ area[a].text # None
    BY <1>4, <2>1 DEF MasterRead
  <2>4. Knows(q, super, area)
    BY <1>1, <2>2, <2>3 DEF Knows, Stands, UpToDate
  <2>5. QED
    BY <2>3, <2>4, TakesStep
<1>5. ASSUME NEW c \in Clerks, NEW p \in People, NEW a \in Codes, Derive(c, p, a)
      PROVE  AreasInv'
  <2>1. PICK q \in Clerk : q = [Idle EXCEPT !.task = "derive", !.person = p, !.code = a,
                                           !.name = area[a].text, !.read = area[a].text]
    BY <1>1 DEF Idle, Clerk, Task
  <2>2. q.task = "derive" /\ q.name = q.read /\ q.code = a /\ q.person = p
    BY <2>1 DEF Idle
  <2>3. Takes(c, q)
    BY <1>5, <2>1 DEF Derive
  <2>4. Knows(q, super, area)
    BY <2>2 DEF Knows, Stands, UpToDate
  <2>5. QED
    BY <2>3, <2>4, TakesStep
<1>6. ASSUME NEW c \in Clerks, NEW a \in Codes, NEW i \in Supers, NEW n \in Names, SyncSuper(c, a, i, n)
      PROVE  AreasInv'
  <2>1. PICK q \in Clerk : q = [Idle EXCEPT !.task = "sync", !.super = i, !.code = a, !.name = n]
    BY <1>1 DEF Idle, Clerk, Task
  <2>2. q.task = "sync" /\ q.super = i /\ q.code = a /\ q.name = n
    BY <2>1 DEF Idle
  <2>3. /\ Wrote(c, q) /\ Upsert(i, n) /\ UNCHANGED <<area, person, skewed, behind>>
        /\ clerk[c].task # "spread"
    BY <1>6, <2>1 DEF SyncSuper, Busy
  <2>4. super'[i] = n => Knows(q, super', area)
    BY <2>2 DEF Knows, Stands, UpToDate
  <2>5. QED
    BY <2>3, <2>4, UpsertStep
<1>7. ASSUME NEW c \in Clerks, NEW i \in Supers, MasterSuper(c, i)
      PROVE  AreasInv'
  <2>1. /\ clerk[c] \in Clerk /\ clerk[c].task = "master" /\ clerk[c].name \in Names
        /\ clerk[c].code \in Codes
        /\ ~clerk[c].overlapped => area[clerk[c].code].text = clerk[c].name
    BY <1>1, <1>7 DEF MasterSuper, AreasInv, ClerksKnow, Knows, Stands, UpToDate
  <2>2. PICK q : q = [clerk[c] EXCEPT !.task = "relate", !.super = i]
    OBVIOUS
  <2>3. /\ q \in Clerk /\ q.task = "relate" /\ q.super = i /\ q.code = clerk[c].code
        /\ q.name = clerk[c].name /\ q.overlapped = clerk[c].overlapped
    BY <2>1, <2>2 DEF Clerk, Task
  <2>4. /\ Wrote(c, q) /\ Upsert(i, clerk[c].name) /\ UNCHANGED <<area, person, skewed, behind>>
    BY <1>7, <2>2 DEF MasterSuper
  <2>5. super'[i] = clerk[c].name => Knows(q, super', area)
    BY <2>1, <2>3 DEF Knows, Stands, UpToDate
  <2>6. QED
    BY <2>1, <2>3, <2>4, <2>5, UpsertStep
<1>8. CASE UNCHANGED areaVars
  BY <1>8 DEF areaVars, AreasInv, AreasTypeOK, ClerksKnow, SupersStand, AreaNamesItsSuper,
    BeingRenamed, PersonAgreesWithArea
<1>9. QED
  BY <1>2, <1>3, <1>4, <1>5, <1>6, <1>7, <1>8, CreateSuperStep, RenameStep, SpreadStep,
     WriteAreaStep, SyncTextStep, MasterRelateStep, WritePersonStep, WriteTextStep, AbandonStep
  DEF AreasNext

LEMMA AreasInvariant == AreasSpec => []AreasInv
BY AreasInitial, AreasStep, PTL DEF AreasSpec

\* AdminService: an area carries the name of its superintendencia unless the
\* operations that wrote the two overlapped or a renaming was cut short.
THEOREM AreaNames == AreasSpec => []AreaNamesItsSuper
BY AreasInvariant, PTL DEF AreasInv

\* derivarDeArea: a worker says of its superintendencia what its area says,
\* until the area changes or somebody writes the text by itself.
THEOREM PersonAgrees == AreasSpec => []PersonAgreesWithArea
BY AreasInvariant, PTL DEF AreasInv

-----------------------------------------------------------------------------
(* MCDirectory.  A step is a step of one part.                              *)

DirectoryInv == RolesInv /\ WorkersInv /\ AreasInv

LEMMA PartStep ==
  ASSUME DirectoryInv, [Next]_directoryVars
  PROVE  DirectoryInv'
<1>1. [RolesNext]_roleVars /\ [WorkersNext]_workerVars /\ [AreasNext]_areaVars
  BY DEF Next, RolesPart, WorkersPart, AreasPart, directoryVars
<1>2. QED
  BY <1>1, RolesStep, WorkersStep, AreasStep DEF DirectoryInv

\* The rows, and what the requests and scripts in flight hold, keep their types.
THEOREM TypesCorrect == Spec => []DirectoryTypeOK
<1>1. Init => DirectoryInv
  BY RolesInitial, WorkersInitial, AreasInitial DEF Init, DirectoryInv
<1>2. DirectoryInv => DirectoryTypeOK
  BY DEF DirectoryInv, DirectoryTypeOK, RolesInv, WorkersInv, AreasInv
<1>3. QED
  BY <1>1, <1>2, PartStep, PTL DEF Spec
=============================================================================
