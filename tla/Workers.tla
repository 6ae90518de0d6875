------------------------------- MODULE Workers -------------------------------
(***************************************************************************)
(* The register of workers (table `trabajadores`): who a row stands for    *)
(* (CI and JDE), the account it is linked to, and whether its area is from *)
(* the catalogue.  PadronService, which services call, AdminService, and   *)
(* the scripts that import workers or link them.                           *)
(*                                                                         *)
(* The database keeps CI and account unique.  Nothing keeps JDE unique,    *)
(* and every other rule is a read followed, later, by a write.             *)
(*                                                                         *)
(* Abstractions: of the data of a person (telephone, discipline...) the    *)
(* JDE is kept, which is edited and completed like the others, and of the  *)
(* three columns of the area which are filled (Areas has the names); the   *)
(* roles of the account that is assigned are in Roles; accounts and        *)
(* workers are never deleted.                                              *)
(***************************************************************************)
EXTENDS Integers, FiniteSets

CONSTANTS
  Users, Cis, Jdes,
  Null,       \* null, or an empty string
  Requests,   \* requests and scripts that may be in flight at once
  MaxRows     \* bound: workers

ASSUME WorkersAssumption ==
  /\ MaxRows \in Nat \ {0}
  /\ Null \notin Users \cup Cis \cup Jdes

VARIABLES
  rows,      \* workers created
  row,       \* table trabajadores
  exists,    \* the accounts there are
  request,   \* the operations in flight
  imported,  \* history: rows whose tieneAccesoSistema the import wrote last
  repeated   \* history: JDEs given to a second worker without looking for the
             \* first, or by a request during which another one wrote

workerVars == <<rows, row, exists, request, imported, repeated>>

-----------------------------------------------------------------------------
Ids == 1 .. MaxRows

User    == Users \cup {Null}
Ci      == Cis \cup {Null}
Jde     == Jdes \cup {Null}

\* area and superintendencia empty, a text of somebody's, or those of areaCodigo
Place == {"none", "text", "catalog"}

Worker == [ci : Ci, jde : Jde, user : User, access : BOOLEAN, area : Place]

Operation == {"none", "searchCi", "searchJde", "insert", "link", "linkAccount", "assign",
              "relink", "unlink", "update", "completeJde", "complete", "master"}

\* of is the row found, ci, jde, user and area what is to be written there;
\* overlapped: another write came since the first read.
Request == [op : Operation, of : Ids, ci : Ci, jde : Jde, user : User, area : Place,
            overlapped : BOOLEAN]

WorkersTypeOK ==
  /\ rows \in 0 .. MaxRows
  /\ row \in [Ids -> Worker]
  /\ exists \subseteq Users
  /\ request \in [Requests -> Request]
  /\ imported \subseteq Ids
  /\ repeated \subseteq Jdes

NoWorker == [ci |-> Null, jde |-> Null, user |-> Null, access |-> FALSE, area |-> "none"]

NoRequest == [op |-> "none", of |-> 1, ci |-> Null, jde |-> Null, user |-> Null,
              area |-> "none", overlapped |-> FALSE]

WorkersInit ==
  /\ rows = 0
  /\ row = [w \in Ids |-> NoWorker]
  /\ exists = {}
  /\ request = [r \in Requests |-> NoRequest]
  /\ imported = {} /\ repeated = {}

Workers == 1 .. rows

WithCi(ci)     == {w \in Workers : ci # Null /\ row[w].ci = ci}
WithJde(jde)   == {w \in Workers : jde # Null /\ row[w].jde = jde}
LinkedTo(user) == {w \in Workers : user # Null /\ row[w].user = user}

-----------------------------------------------------------------------------
Pending(r) == request[r].op # "none"

\* A statement that reads: the operation begins, or goes on.
Begins(r, new) ==
  /\ ~Pending(r)
  /\ request' = [request EXCEPT ![r] = new]
  /\ UNCHANGED <<rows, row, exists, imported, repeated>>

GoesOn(r, changed) ==
  /\ request' = [request EXCEPT ![r] = changed]
  /\ UNCHANGED <<rows, row, exists, imported, repeated>>

\* A write is seen by the requests in flight; it ends the one that makes it.
SeenBut(r) ==
  request' = [x \in Requests |->
    IF x = r THEN NoRequest ELSE [request[x] EXCEPT !.overlapped = Pending(x)]]

SeenByAll == request' = [x \in Requests |-> [request[x] EXCEPT !.overlapped = Pending(x)]]

\* unique: nobody else has that CI, nor that account.
Unique(w, ci, user) == WithCi(ci) \cup LinkedTo(user) \subseteq {w}

Set(w, new) ==
  /\ Unique(w, new.ci, new.user)
  /\ row' = [row EXCEPT ![w] = new]
  /\ rows' = IF w > rows THEN w ELSE rows

\* The JDE a write gives to w is on another row already.
Repeats(w, jde, looked) ==
  repeated' = IF looked \/ WithJde(jde) \ {w} = {} THEN repeated ELSE repeated \cup {jde}

\* The columns of the area, written: nobody takes areaCodigo away.
Placed(old, new) == IF old = "catalog" THEN old ELSE new

-----------------------------------------------------------------------------
\* crear, for an account or not: one that has a worker gets that one.
Create(r, user, ci, jde, place) ==
  /\ user = Null \/ (user \in exists /\ LinkedTo(user) = {})
  /\ Begins(r, [NoRequest EXCEPT !.op = "searchCi", !.user = user, !.ci = ci, !.jde = jde,
                                 !.area = place])

\* The worker found is linked if it is free and there is an account for it.
Found(r, w) ==
  GoesOn(r, IF request[r].user # Null /\ row[w].user = Null
              THEN [request[r] EXCEPT !.op = "link", !.of = w, !.ci = Null, !.jde = Null,
                                      !.area = "none"]
              ELSE NoRequest)

\* buscarExistente: by CI ...
SearchCi(r) ==
  /\ request[r].op = "searchCi"
  /\ \/ \E w \in WithCi(request[r].ci) : Found(r, w)
     \/ WithCi(request[r].ci) = {} /\ GoesOn(r, [request[r] EXCEPT !.op = "searchJde"])

\* buscarExistente without the search by JDE
SearchNothing(r) ==
  /\ request[r].op = "searchJde"
  /\ GoesOn(r, [request[r] EXCEPT !.op = "insert"])

\* ... and then by JDE, the oldest row
SearchJde(r) ==
  LET same == WithJde(request[r].jde) IN
  /\ request[r].op = "searchJde"
  /\ \/ \E w \in same : (\A v \in same : w <= v) /\ Found(r, w)
     \/ same = {} /\ GoesOn(r, [request[r] EXCEPT !.op = "insert"])

Insert(r) ==
  LET q == request[r] IN
  /\ q.op = "insert"
  /\ rows < MaxRows
  /\ Set(rows + 1, [ci |-> q.ci, jde |-> q.jde, user |-> q.user, access |-> q.user # Null,
                    area |-> q.area])
  /\ Repeats(rows + 1, q.jde, ~q.overlapped)
  /\ SeenBut(r)
  /\ UNCHANGED <<exists, imported>>

-----------------------------------------------------------------------------
\* actualizar: services do not edit a worker who has an account ...
Update(r, w, jde, place) ==
  /\ row[w].user = Null
  /\ Begins(r, [NoRequest EXCEPT !.op = "update", !.of = w, !.jde = jde, !.area = place])

\* ... at the time of the read; nor do they look for the JDE elsewhere.
WriteUpdate(r) ==
  LET q == request[r] IN
  /\ q.op = "update"
  /\ Set(q.of, [row[q.of] EXCEPT !.jde = q.jde, !.area = Placed(@, q.area)])
  /\ Repeats(q.of, q.jde, FALSE)
  /\ SeenBut(r)
  /\ UNCHANGED <<exists, imported>>

\* completar that gives an areaCodigo to who has one
CompleteOverCode(r, w, jde, place) ==
  /\ place # "text"
  /\ Begins(r, [NoRequest EXCEPT !.op = "completeJde", !.of = w,
                  !.jde = IF row[w].jde = Null THEN jde ELSE Null, !.area = place])

\* completar: what it will fill is decided on the row as read.  Of the area it
\* is the code that must be empty; the two texts that come with it need not be.
Complete(r, w, jde, place) ==
  /\ place # "text"
  /\ Begins(r, [NoRequest EXCEPT !.op = "completeJde", !.of = w,
                  !.jde = IF row[w].jde = Null THEN jde ELSE Null,
                  !.area = IF row[w].area = "catalog" THEN "none" ELSE place])

\* A JDE that another row has is left out.
CompleteJde(r) ==
  LET q == request[r] IN
  /\ q.op = "completeJde"
  /\ GoesOn(r, [q EXCEPT !.op = "complete",
                         !.jde = IF WithJde(q.jde) \ {q.of} = {} THEN q.jde ELSE Null])

\* The write, if there is anything to fill, and that of migrate-master-data
WriteComplete(r) ==
  LET q == request[r] IN
  /\ q.op \in {"complete", "master"}
  /\ q.jde # Null \/ q.area = "catalog"
  /\ Set(q.of, [row[q.of] EXCEPT !.jde = IF q.jde = Null THEN @ ELSE q.jde,
                                 !.area = IF q.area = "catalog" THEN q.area ELSE @])
  /\ Repeats(q.of, q.jde, ~q.overlapped)
  /\ SeenBut(r)
  /\ UNCHANGED <<exists, imported>>

-----------------------------------------------------------------------------
\* createTrabajador: the CI it looks for is unique anyway; the JDE is not
\* looked for.
AdminCreate(ci, jde, place) ==
  /\ rows < MaxRows
  /\ Set(rows + 1, [NoWorker EXCEPT !.ci = ci, !.jde = jde, !.area = place])
  /\ Repeats(rows + 1, jde, FALSE)
  /\ SeenByAll
  /\ UNCHANGED <<exists, imported>>

\* updateTrabajador, with or without an account
AdminUpdate(w, jde, place) ==
  /\ Set(w, [row[w] EXCEPT !.jde = jde, !.area = Placed(@, place)])
  /\ Repeats(w, jde, FALSE)
  /\ SeenByAll
  /\ UNCHANGED <<exists, imported>>

\* users.create, by itself
CreateAccount(user) ==
  /\ user \notin exists
  /\ exists' = exists \cup {user}
  /\ UNCHANGED <<rows, row, request, imported, repeated>>

\* linkUserToTrabajador: the worker must be free ...
Link(r, w, user) ==
  /\ row[w].user = Null
  /\ Begins(r, [NoRequest EXCEPT !.op = "linkAccount", !.of = w, !.user = user])

\* ... and so must the account.
LinkAccount(r) ==
  /\ request[r].op = "linkAccount"
  /\ request[r].user \in exists /\ LinkedTo(request[r].user) = {}
  /\ GoesOn(r, [request[r] EXCEPT !.op = "link"])

\* assignUserToTrabajador: the worker must be free ...
Assign(r, w, user) ==
  /\ row[w].user = Null
  /\ Begins(r, [NoRequest EXCEPT !.op = "assign", !.of = w, !.user = user])

\* ... and the account is created, by a transaction of its own.
AssignAccount(r) ==
  /\ request[r].op = "assign"
  /\ request[r].user \notin exists
  /\ exists' = exists \cup {request[r].user}
  /\ request' = [request EXCEPT ![r].op = "link"]
  /\ UNCHANGED <<rows, row, imported, repeated>>

\* The link of crear, linkUserToTrabajador, assignUserToTrabajador and the
\* migrations, over whatever the row holds by now
WriteLink(r) ==
  LET q == request[r] IN
  /\ q.op \in {"link", "relink"}
  /\ Set(q.of, [row[q.of] EXCEPT !.user = q.user, !.access = TRUE])
  /\ SeenBut(r)
  /\ imported' = imported \ {q.of}
  /\ UNCHANGED <<exists, repeated>>

\* unlinkUserFromTrabajador
Unlink(r, w) ==
  /\ row[w].user # Null
  /\ Begins(r, [NoRequest EXCEPT !.op = "unlink", !.of = w])

\* An unlinking that leaves tieneAccesoSistema
WriteUserNull(r) ==
  LET q == request[r] IN
  /\ q.op = "unlink"
  /\ Set(q.of, [row[q.of] EXCEPT !.user = Null])
  /\ SeenBut(r)
  /\ imported' = imported \ {q.of}
  /\ UNCHANGED <<exists, repeated>>

WriteUnlink(r) ==
  LET q == request[r] IN
  /\ q.op = "unlink"
  /\ Set(q.of, [row[q.of] EXCEPT !.user = Null, !.access = FALSE])
  /\ SeenBut(r)
  /\ imported' = imported \ {q.of}
  /\ UNCHANGED <<exists, repeated>>

-----------------------------------------------------------------------------
\* migrate-sync-from-dump links a free worker with that JDE to an account ...
SyncDump(r, w, user) ==
  /\ user \in exists
  /\ row[w].jde # Null /\ row[w].user = Null
  /\ Begins(r, [NoRequest EXCEPT !.op = "link", !.of = w, !.user = user])

\* ... migrate-sync-users any worker with it.
SyncUsers(r, w, user) ==
  /\ user \in exists
  /\ row[w].jde # Null
  /\ Begins(r, [NoRequest EXCEPT !.op = "relink", !.of = w, !.user = user])

\* migrate-master-data finds the area that a worker's text names, if he has no
\* code yet.
MasterData(r, w) ==
  /\ row[w].area = "text"
  /\ Begins(r, [NoRequest EXCEPT !.op = "master", !.of = w, !.area = "catalog"])

\* import-mongodb-data, importTrabajadores: an upsert by CI, and once more
\* without the account if that account has another worker.  What the import
\* does not know it leaves as it was.
ImportWorker(ci, jde, user, access, place) ==
  LET found == WithCi(ci)
      w     == IF found = {} THEN rows + 1 ELSE CHOOSE v \in found : TRUE
      free  == LinkedTo(user) \ {w} = {}
  IN
  /\ ci # Null
  /\ place # "catalog"
  /\ user = Null \/ user \in exists
  /\ w \in Ids
  /\ Set(w, [row[w] EXCEPT !.ci = ci, !.access = access,
                           !.jde = IF jde = Null THEN @ ELSE jde,
                           !.area = IF place = "none" THEN @ ELSE Placed(@, place),
                           !.user = IF user # Null /\ free THEN user ELSE @])
  /\ Repeats(w, jde, FALSE)
  /\ SeenByAll
  /\ imported' = imported \cup {w}
  /\ UNCHANGED exists

\* A check that fails, a constraint that throws, a request that dies
FailRequest(r) ==
  /\ Pending(r)
  /\ GoesOn(r, NoRequest)

-----------------------------------------------------------------------------
WorkersNext ==
  \/ \E ci \in Ci, jde \in Jde, place \in Place :
       \/ AdminCreate(ci, jde, place)
       \/ \E r \in Requests, user \in User : Create(r, user, ci, jde, place)
       \/ \E user \in User, access \in BOOLEAN : ImportWorker(ci, jde, user, access, place)
  \/ \E user \in Users : CreateAccount(user)
  \/ \E w \in Workers, jde \in Jde, place \in Place :
       \/ AdminUpdate(w, jde, place)
       \/ \E r \in Requests : Update(r, w, jde, place) \/ Complete(r, w, jde, place)
  \/ \E r \in Requests, w \in Workers :
       \/ Unlink(r, w) \/ MasterData(r, w)
       \/ \E user \in Users :
            Link(r, w, user) \/ Assign(r, w, user) \/ SyncDump(r, w, user) \/ SyncUsers(r, w, user)
  \/ \E r \in Requests :
       \/ SearchCi(r) \/ SearchJde(r) \/ Insert(r)
       \/ WriteUpdate(r) \/ CompleteJde(r) \/ WriteComplete(r)
       \/ LinkAccount(r) \/ AssignAccount(r) \/ WriteLink(r) \/ WriteUnlink(r)
       \/ FailRequest(r)

WorkersSpec == WorkersInit /\ [][WorkersNext]_workerVars

-----------------------------------------------------------------------------
(***************************************************************************)
(* Properties.                                                             *)
(***************************************************************************)

\* PadronService, "Alta idempotente: si ya existe alguien con el mismo CI o JDE,
\* se devuelve ese trabajador": two workers have the same JDE only if somebody
\* who does not look gave it to the second, or two who look overlapped.
SameJdeOnlyIfRepeated ==
  \A v, w \in Workers : row[v].jde = row[w].jde /\ row[v].jde # Null =>
    v = w \/ row[v].jde \in repeated

\* PadronService, "Los servicios solo editan trabajadores SIN cuenta": unless
\* another write came after it read the row, a service edits no worker who has
\* an account, a link (migrate-sync-users and the import apart) is written over
\* no other link, and a completion replaces no JDE and no areaCodigo.  It is
\* not true of all it writes that "nunca se pisa un dato del IAM": the area and
\* superintendencia that come with an areaCodigo replace what the row had.
WritesOnlyOnWhatItRead ==
  [][\A r \in Requests :
       LET q   == request[r]
           old == row[q.of]
           new == row'[q.of]
       IN
       request'[r] = NoRequest /\ ~q.overlapped =>
         /\ q.op \in {"update", "link"} /\ new # old => old.user = Null
         /\ q.op \in {"complete", "master"} /\ new # old =>
              /\ new.jde # old.jde => old.jde = Null
              /\ q.area = "catalog" => old.area # "catalog"]_workerVars

\* tieneAccesoSistema tells the services which workers have an account: it
\* follows the link of every worker whose flag the import did not write last,
\* whatever links and unlinks overlapped.
AccessFollowsLink ==
  \A w \in Workers \ imported : row[w].access = (row[w].user # Null)
=============================================================================
