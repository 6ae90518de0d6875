-------------------------------- MODULE Roles --------------------------------
(***************************************************************************)
(* The roles a service offers (Service.availableRoles, rolePermissions),   *)
(* the roles of accounts (User.roles) and of their accesses to services    *)
(* (UserServiceAccess): AdminService, UsersService and RoleCatalogService, *)
(* and the scripts that write the same tables.                             *)
(*                                                                         *)
(* An operation that adds a role to somebody first checks that a catalog   *)
(* has it; one that takes a role out of a catalog first counts who holds   *)
(* it.  The checks and the write are separate statements.                  *)
(*                                                                         *)
(* Abstractions: the system role 'user', always known, is left out; of the *)
(* permissions of a role only whether it has any is kept; a service is     *)
(* identified by its key and is not created again after its deletion.      *)
(***************************************************************************)
EXTENDS Integers, FiniteSets

CONSTANTS
  Accounts, Services, RoleNames,
  Editors,        \* requests and scripts that may be in flight at once
  Forms,          \* the service assignUserToTrabajador gives access to
  SeededRoles,    \* GENERIC_ROLES of the seed
  ScriptRole      \* the role of create-role-inspector-asignado

ASSUME RolesAssumption ==
  /\ Accounts # {}
  /\ Forms \in Services
  /\ SeededRoles \subseteq RoleNames
  /\ ScriptRole \in RoleNames

VARIABLES
  service,   \* table services
  account,   \* table users
  access,    \* table user_service_access
  edit,      \* the operations in flight
  excused,   \* history: roles written by an operation during which another one
             \* wrote, by a script that does not check, or lost with a service
  loose      \* history: services whose map was written without their catalog,
             \* their catalog without their map, or both as the script had read them

roleVars == <<service, account, access, edit, excused, loose>>

-----------------------------------------------------------------------------
Service == [state : {"none", "present", "deleted"}, offered : SUBSET RoleNames,
            mapped : SUBSET RoleNames]

Account == [exists : BOOLEAN, roles : SUBSET RoleNames]

Access == [state : {"none", "granted", "revoked"}, roles : SUBSET RoleNames]

Count == [role : RoleNames, of : {"users", "accesses"}]

Kind == {"none", "catalog", "grant", "revoke", "update", "checkedUpdate", "create",
         "assign", "forms", "script", "scriptAssign", "scriptRole", "scriptAccess",
         "consolidate"}

\* roles is what the operation is to write, read what it found; checks are
\* the counts it still has to make.
Edit == [kind : Kind, of : Accounts, at : Services, roles : SUBSET RoleNames,
         read : SUBSET RoleNames, map : SUBSET RoleNames, checks : SUBSET Count,
         overlapped : BOOLEAN]

RolesTypeOK ==
  /\ service \in [Services -> Service]
  /\ account \in [Accounts -> Account]
  /\ access \in [Accounts -> [Services -> Access]]
  /\ edit \in [Editors -> Edit]
  /\ excused \subseteq RoleNames
  /\ loose \subseteq Services

NoEdit == [kind |-> "none", of |-> CHOOSE u \in Accounts : TRUE,
           at |-> CHOOSE s \in Services : TRUE, roles |-> {}, read |-> {}, map |-> {},
           checks |-> {}, overlapped |-> FALSE]

RolesInit ==
  /\ service = [s \in Services |-> [state |-> "none", offered |-> {}, mapped |-> {}]]
  /\ account = [u \in Accounts |-> [exists |-> FALSE, roles |-> {}]]
  /\ access = [u \in Accounts |-> [s \in Services |-> [state |-> "none", roles |-> {}]]]
  /\ edit = [e \in Editors |-> NoEdit]
  /\ excused = {} /\ loose = {}

Present(s) == service[s].state = "present"

\* listarRoles
Catalog == UNION {service[s].offered : s \in {x \in Services : Present(x)}}

\* assertRolesExisten
RolesExist(roles, current) == roles \subseteq Catalog \cup current

\* assertRolesDeServicio
RolesOfService(roles, s) == roles \subseteq (IF Present(s) THEN service[s].offered ELSE {})

\* The counts of assertRolSinUso, a statement each
NobodyHas(count) ==
  IF count.of = "users"
    THEN \A u \in Accounts : count.role \notin account[u].roles
    ELSE \A u \in Accounts, s \in Services : count.role \notin access[u][s].roles

-----------------------------------------------------------------------------
InFlight(e) == edit[e].kind # "none"

Starts(e, new) ==
  /\ ~InFlight(e)
  /\ edit' = [edit EXCEPT ![e] = new]
  /\ UNCHANGED <<service, account, access, excused, loose>>

\* A write, seen by the operations in flight ...
AllSee == edit' = [x \in Editors |-> [edit[x] EXCEPT !.overlapped = InFlight(x)]]

\* ... or by the others: this one ends or goes on.
WriteSeen(e, next) ==
  edit' = [x \in Editors |->
    IF x = e THEN next ELSE [edit[x] EXCEPT !.overlapped = InFlight(x)]]

\* What a write that was overlapped touches is excused.
Excuse(e, roles) ==
  excused' = IF edit[e].overlapped THEN excused \cup roles ELSE excused

-----------------------------------------------------------------------------
\* createService
CreateService(s) ==
  /\ service[s].state = "none"
  /\ service' = [service EXCEPT ![s].state = "present"]
  /\ AllSee
  /\ UNCHANGED <<account, access, excused, loose>>

\* updateService with a new catalog, and with a new map or the one it reads
ReadService(e, s, wanted, map) ==
  /\ Present(s)
  /\ Starts(e, [NoEdit EXCEPT !.kind = "catalog", !.at = s, !.roles = wanted, !.map = map,
                  !.checks = [role : service[s].offered \ wanted, of : {"users", "accesses"}]])

\* assertRolSinUso: a role after the other, both counts of a role in parallel
CountHolders(e, count) ==
  LET halfway(r) == Cardinality({c \in edit[e].checks : c.role = r}) = 1 IN
  /\ edit[e].kind = "catalog"
  /\ count \in edit[e].checks
  /\ \A c \in edit[e].checks : halfway(c.role) => c.role = count.role
  /\ NobodyHas(count)
  /\ edit' = [edit EXCEPT ![e].checks = @ \ {count}]
  /\ UNCHANGED <<service, account, access, excused, loose>>

\* The catalog asked for, with the map as it was read or as it came
WriteCatalog(e) ==
  LET s == edit[e].at IN
  /\ edit[e].kind = "catalog" /\ edit[e].checks = {}
  /\ Present(s)
  /\ service' = [service EXCEPT ![s].offered = edit[e].roles, ![s].mapped = edit[e].map]
  /\ Excuse(e, service[s].offered \ edit[e].roles)
  /\ WriteSeen(e, NoEdit)
  /\ UNCHANGED <<account, access, loose>>

\* The catalog asked for, and the map cut to it
WriteService(e) ==
  LET s == edit[e].at IN
  /\ edit[e].kind = "catalog" /\ edit[e].checks = {}
  /\ Present(s)
  /\ service' = [service EXCEPT ![s].offered = edit[e].roles,
                                ![s].mapped = edit[e].map \cap edit[e].roles]
  /\ Excuse(e, service[s].offered \ edit[e].roles)
  /\ loose' = loose \ {s}
  /\ WriteSeen(e, NoEdit)
  /\ UNCHANGED <<account, access>>

\* updateService with a map and no catalog: the map is written as it came.
WritePermissions(s, map) ==
  /\ Present(s)
  /\ service' = [service EXCEPT ![s].mapped = map]
  /\ loose' = loose \cup {s}
  /\ AllSee
  /\ UNCHANGED <<account, access, excused>>

\* deleteService: nobody is counted, and its accesses go with it.
DeleteService(s) ==
  /\ Present(s)
  /\ service' = [service EXCEPT ![s].state = "deleted"]
  /\ access' = [u \in Accounts |-> [access[u] EXCEPT ![s] = [state |-> "none", roles |-> {}]]]
  /\ excused' = excused \cup service[s].offered
  /\ AllSee
  /\ UNCHANGED <<account, loose>>

-----------------------------------------------------------------------------
\* grantAccess of any role
GrantUnchecked(e, u, s, roles) ==
  /\ Present(s) /\ account[u].exists
  /\ Starts(e, [NoEdit EXCEPT !.kind = "grant", !.of = u, !.at = s, !.roles = roles])

\* grantAccess, up to assertRolesDeServicio
CheckGrant(e, u, s, roles) ==
  /\ Present(s) /\ account[u].exists
  /\ RolesOfService(roles, s)
  /\ Starts(e, [NoEdit EXCEPT !.kind = "grant", !.of = u, !.at = s, !.roles = roles])

\* revokeAccess, up to the test that there is something to revoke
CheckRevoke(e, u, s) ==
  /\ Present(s)
  /\ access[u][s].state = "granted"
  /\ Starts(e, [NoEdit EXCEPT !.kind = "revoke", !.of = u, !.at = s,
                  !.roles = access[u][s].roles])

\* Their writes.  The roles of a revoked access stay in its row.
WriteAccess(e) ==
  LET u == edit[e].of
      s == edit[e].at
  IN
  /\ Present(s)
  /\ \/ /\ edit[e].kind \in {"grant", "forms"}
        /\ access' = [access EXCEPT ![u][s] = [state |-> "granted", roles |-> edit[e].roles]]
     \/ /\ edit[e].kind = "revoke"
        /\ access' = [access EXCEPT ![u][s].state = "revoked"]
  /\ Excuse(e, edit[e].roles)
  /\ WriteSeen(e, NoEdit)
  /\ UNCHANGED <<service, account, loose>>

-----------------------------------------------------------------------------
\* users.update: the roles the account has ...
ReadUser(e, u, roles) ==
  /\ account[u].exists
  /\ Starts(e, [NoEdit EXCEPT !.kind = "update", !.of = u, !.roles = roles,
                  !.read = account[u].roles])

\* ... then the catalog, which those roles are excused from ...
CheckUser(e) ==
  /\ edit[e].kind = "update"
  /\ RolesExist(edit[e].roles, edit[e].read)
  /\ edit' = [edit EXCEPT ![e].kind = "checkedUpdate", ![e].read = {}]
  /\ UNCHANGED <<service, account, access, excused, loose>>

\* users.create with a role of its own besides
CheckCreateWithDefault(e, u, roles, kind) ==
  /\ kind \in {"create", "assign"}
  /\ ~account[u].exists
  /\ RolesExist(roles, {})
  /\ Starts(e, [NoEdit EXCEPT !.kind = kind, !.of = u, !.roles = roles \cup {"default"}])

\* users.create, up to assertRolesExisten; assignUserToTrabajador calls it.
CheckCreate(e, u, roles, kind) ==
  /\ kind \in {"create", "assign"}
  /\ ~account[u].exists
  /\ RolesExist(roles, {})
  /\ Starts(e, [NoEdit EXCEPT !.kind = kind, !.of = u, !.roles = roles])

\* ... and the write.  assignUserToTrabajador goes on: it gives the account the
\* service forms with the same roles, without asking whether forms has them.
WriteUser(e) ==
  LET u == edit[e].of IN
  /\ edit[e].kind \in {"checkedUpdate", "create", "assign"}
  /\ account[u].exists <=> edit[e].kind = "checkedUpdate"
  /\ account' = [account EXCEPT ![u] = [exists |-> TRUE, roles |-> edit[e].roles]]
  /\ Excuse(e, edit[e].roles)
  /\ \/ /\ edit[e].kind = "assign"
        /\ WriteSeen(e, [NoEdit EXCEPT !.kind = "forms", !.of = u, !.at = Forms,
                           !.roles = edit[e].roles])
     \/ WriteSeen(e, NoEdit)
  /\ UNCHANGED <<service, access, loose>>

-----------------------------------------------------------------------------
\* create-role-inspector-asignado --apply --assign: the service is read ...
ScriptReads(e, s, u) ==
  /\ Present(s)
  /\ Starts(e, [NoEdit EXCEPT !.kind = "script", !.at = s, !.of = u,
                  !.roles = service[s].offered \cup {ScriptRole},
                  !.map = service[s].mapped \cup {ScriptRole},
                  !.read = service[s].offered \cap service[s].mapped])

\* ... and left as it is if the role was there, with the same permissions ...
ScriptSkips(e) ==
  /\ edit[e].kind = "script"
  /\ ScriptRole \in edit[e].read
  /\ edit' = [edit EXCEPT ![e].kind = "scriptAssign", ![e].roles = {ScriptRole},
                          ![e].map = {}, ![e].read = {}]
  /\ UNCHANGED <<service, account, access, excused, loose>>

\* ... or its catalog and map, as read and with the role, are written back ...
ScriptWrites(e) ==
  LET s == edit[e].at IN
  /\ edit[e].kind = "script"
  /\ Present(s)
  /\ service' = [service EXCEPT ![s].offered = edit[e].roles, ![s].mapped = edit[e].map]
  /\ Excuse(e, service[s].offered \ edit[e].roles)
  /\ loose' = IF edit[e].overlapped THEN loose \cup {s} ELSE loose
  /\ WriteSeen(e, [NoEdit EXCEPT !.kind = "scriptAssign", !.at = s, !.of = edit[e].of,
                     !.roles = {ScriptRole}])
  /\ UNCHANGED <<account, access>>

\* ... the account is read: with the role it keeps what it has ...
ScriptFindsUser(e) ==
  LET u == edit[e].of IN
  /\ edit[e].kind = "scriptAssign"
  /\ account[u].exists
  /\ edit' = [edit EXCEPT ![e].kind =
                IF ScriptRole \in account[u].roles THEN "scriptAccess" ELSE "scriptRole"]
  /\ UNCHANGED <<service, account, access, excused, loose>>

\* ... and without it gets that role alone ...
ScriptWritesRole(e) ==
  LET u == edit[e].of IN
  /\ edit[e].kind = "scriptRole"
  /\ account[u].exists
  /\ account' = [account EXCEPT ![u].roles = {ScriptRole}]
  /\ Excuse(e, {ScriptRole})
  /\ WriteSeen(e, [NoEdit EXCEPT !.kind = "scriptAccess", !.of = u, !.at = edit[e].at])
  /\ UNCHANGED <<service, access, loose>>

\* ... and the service, unless it has it: a new access or its old one again.
ScriptGrants(e) ==
  LET u == edit[e].of
      s == edit[e].at
  IN
  /\ edit[e].kind = "scriptAccess"
  /\ Present(s)
  /\ \/ access[u][s].state = "granted" /\ edit' = [edit EXCEPT ![e] = NoEdit] /\ UNCHANGED access
     \/ /\ access[u][s].state # "granted"
        /\ access' = [access EXCEPT ![u][s].state = "granted"]
        /\ WriteSeen(e, NoEdit)
  /\ UNCHANGED <<service, account, excused, loose>>

\* The seed: catalog and map of its services, whatever they had become; of
\* iro-service the catalog alone.
Seed(s, whole) ==
  /\ service[s].state # "deleted"
  /\ service' = [service EXCEPT ![s] =
       [state |-> "present", offered |-> SeededRoles,
        mapped |-> IF whole THEN SeededRoles ELSE @.mapped]]
  /\ excused' = excused \cup (service[s].offered \ SeededRoles)
  /\ loose' = IF whole THEN loose \ {s} ELSE loose \cup {s}
  /\ AllSee
  /\ UNCHANGED <<account, access>>

\* The seed: its accounts and their accesses, with the roles written there,
\* unless there are any already
SeedAccount(u, s, roles, accessRoles) ==
  /\ Present(s)
  /\ account' = [account EXCEPT ![u] = IF @.exists THEN @ ELSE [exists |-> TRUE, roles |-> roles]]
  /\ access' = [access EXCEPT ![u][s] =
       IF @.state = "none" THEN [state |-> "granted", roles |-> accessRoles] ELSE @]
  /\ excused' = excused \cup roles \cup accessRoles
  /\ AllSee
  /\ UNCHANGED <<service, loose>>

\* An account and its access as an import leaves them
Imported(u, s, roles, newAccess) ==
  /\ Present(s)
  /\ account' = [account EXCEPT ![u] = [exists |-> TRUE, roles |-> roles]]
  /\ access' = [access EXCEPT ![u][s] = newAccess]
  /\ excused' = excused \cup roles \cup newAccess.roles
  /\ AllSee
  /\ UNCHANGED <<service, loose>>

\* import-mongodb-data: the roles of the other system, in account and access
ImportMongo(u, s, roles) == Imported(u, s, roles, [state |-> "granted", roles |-> roles])

\* migrate-sync-from-dump: one role, and the access with the roles it had,
\* revoked before or not
ImportSync(u, s, role) ==
  Imported(u, s, {role}, [state |-> "granted", roles |-> access[u][s].roles])

\* migrate-sync-users: the role goes to the access, which stays revoked if it was.
ImportSyncUser(u, s, role) ==
  Imported(u, s, account[u].roles,
           [state |-> IF access[u][s].state = "none" THEN "granted" ELSE access[u][s].state,
            roles |-> {role}])

\* migrate-roles-to-user reads everybody's roles ...
ReadToConsolidate(e, u, role) ==
  /\ account[u].exists
  /\ role \in SeededRoles \cap (account[u].roles \cup UNION {access[u][s].roles : s \in Services})
  /\ Starts(e, [NoEdit EXCEPT !.kind = "consolidate", !.of = u, !.roles = {role}])

\* ... and leaves to each account the highest of them.
Consolidate(e) ==
  /\ edit[e].kind = "consolidate"
  /\ account' = [account EXCEPT ![edit[e].of].roles = edit[e].roles]
  /\ Excuse(e, edit[e].roles)
  /\ WriteSeen(e, NoEdit)
  /\ UNCHANGED <<service, access, loose>>

\* A check that fails, a statement that throws
Drop(e) ==
  /\ InFlight(e)
  /\ edit' = [edit EXCEPT ![e] = NoEdit]
  /\ UNCHANGED <<service, account, access, excused, loose>>

-----------------------------------------------------------------------------
RolesNext ==
  \/ \E s \in Services :
       \/ CreateService(s) \/ DeleteService(s)
       \/ \E whole \in BOOLEAN : Seed(s, whole)
       \/ \E map \in SUBSET RoleNames : WritePermissions(s, map)
  \/ \E u \in Accounts, s \in Services :
       \/ \E roles \in SUBSET RoleNames :
            ImportMongo(u, s, roles) \/ \E more \in SUBSET RoleNames : SeedAccount(u, s, roles, more)
       \/ \E role \in RoleNames : ImportSync(u, s, role) \/ ImportSyncUser(u, s, role)
  \/ \E e \in Editors, s \in Services, wanted \in SUBSET RoleNames :
       \E map \in {service[s].mapped} \cup SUBSET wanted : ReadService(e, s, wanted, map)
  \/ \E e \in Editors, u \in Accounts, roles \in SUBSET RoleNames :
       \/ ReadUser(e, u, roles)
       \/ \E kind \in {"create", "assign"} : CheckCreate(e, u, roles, kind)
       \/ \E s \in Services : CheckGrant(e, u, s, roles)
  \/ \E e \in Editors, u \in Accounts :
       \/ \E s \in Services : CheckRevoke(e, u, s) \/ ScriptReads(e, s, u)
       \/ \E role \in RoleNames : ReadToConsolidate(e, u, role)
  \/ \E e \in Editors :
       \/ \E count \in edit[e].checks : CountHolders(e, count)
       \/ WriteService(e) \/ WriteAccess(e) \/ CheckUser(e) \/ WriteUser(e)
       \/ ScriptSkips(e) \/ ScriptWrites(e) \/ ScriptFindsUser(e) \/ ScriptWritesRole(e)
       \/ ScriptGrants(e) \/ Consolidate(e) \/ Drop(e)

RolesSpec == RolesInit /\ [][RolesNext]_roleVars

-----------------------------------------------------------------------------
(***************************************************************************)
(* Properties.                                                             *)
(***************************************************************************)

\* assertRolSinUso, "Evita que borrar una fila de la matriz deje usuarios con un
\* rol que ya no existe en ningún catálogo": a role that an account or an access
\* holds and no service offers got there through operations that overlapped, a
\* script, the deletion of a service or the seed; never through operations done
\* in turn, whatever their order.
HeldRolesAreOffered ==
  \A u \in Accounts :
    /\ account[u].roles \subseteq Catalog \cup excused
    /\ \A s \in Services : access[u][s].roles \subseteq Catalog \cup excused

\* updateService, "El mapa rol→permisos sigue al catálogo": since the two were
\* last written together, a service gives permissions to no role that it does
\* not offer, whoever else was writing.
MapFollowsCatalog ==
  \A s \in Services : Present(s) /\ s \notin loose => service[s].mapped \subseteq service[s].offered
=============================================================================
