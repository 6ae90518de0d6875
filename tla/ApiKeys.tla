------------------------------- MODULE ApiKeys -------------------------------
(***************************************************************************)
(* The keys services call each other with: AdminService.createApiKey and   *)
(* revokeApiKey, ApiKeyGuard in front of a handler, and the two handlers   *)
(* that do more than read: the writes of the padron (behind                *)
(* ServicioEscribePadronGuard) and the login of service accounts.          *)
(*                                                                         *)
(* The guard notes the use of a key in a statement of its own that nobody  *)
(* waits for: it may land at any later moment, or never.                   *)
(*                                                                         *)
(* Abstractions: a key and its hash are its id; expiresAt, which no        *)
(* statement of the code writes, and lastUsedAt, which none reads but to   *)
(* list it, are left out; what the handlers do once let through is in      *)
(* Workers and Login.                                                      *)
(***************************************************************************)
EXTENDS Integers, FiniteSets

CONSTANTS
  ServiceKeys,      \* Service.key
  PadronWriters,    \* SERVICIOS_QUE_ESCRIBEN_PADRON
  Usernames,        \* usernames a call may ask to log in
  LoginUsernames,   \* SERVICE_LOGIN_USERNAMES
  KeyIds,           \* ids of rows of api_keys
  ServiceCalls,     \* calls that may be in flight at once
  MaxServices       \* bound: how often a service of one key is created

ASSUME ApiKeysAssumption ==
  /\ ServiceKeys # {}
  /\ PadronWriters \subseteq ServiceKeys
  /\ LoginUsernames \subseteq Usernames
  /\ MaxServices \in Nat

VARIABLES
  service,        \* the `services` table
  key,            \* the `api_keys` table
  serviceCall,    \* the calls
  noting,         \* keys whose use is still to be noted (lastUsedAt)
  dead            \* history: keys that were revoked or deleted

keyVars == <<service, key, serviceCall, noting, dead>>

-----------------------------------------------------------------------------
\* born is history: which service of that key the row is.
ServiceRow == [present : BOOLEAN, active : BOOLEAN, born : Nat]

\* active is isActive with revokedAt null: revokeApiKey writes both.
Key == [state : {"none", "stored", "deleted"}, active : BOOLEAN,
        service : ServiceKeys, born : Nat]

\* good is history: whether the key was not dead, and its own service present
\* and on, when the guard let the call through.
ServiceCall == [doing : {"nothing", "admitted", "reading", "writing", "login"},
         service : ServiceKeys, good : BOOLEAN]

KeysTypeOK ==
  /\ service \in [ServiceKeys -> ServiceRow]
  /\ key \in [KeyIds -> Key]
  /\ serviceCall \in [ServiceCalls -> ServiceCall]
  /\ noting \subseteq KeyIds
  /\ dead \subseteq KeyIds

SomeService == CHOOSE s \in ServiceKeys : TRUE

NoServiceCall == [doing |-> "nothing", service |-> SomeService, good |-> TRUE]

KeysInit ==
  /\ service = [s \in ServiceKeys |-> [present |-> FALSE, active |-> FALSE, born |-> 0]]
  /\ key = [i \in KeyIds |-> [state |-> "none", active |-> FALSE, service |-> SomeService,
                              born |-> 0]]
  /\ serviceCall = [k \in ServiceCalls |-> NoServiceCall]
  /\ noting = {}
  /\ dead = {}

-----------------------------------------------------------------------------
\* createService, or the seed
CreateService(s, active) ==
  /\ ~service[s].present /\ service[s].born < MaxServices
  /\ service' = [service EXCEPT ![s] = [present |-> TRUE, active |-> active, born |-> @.born + 1]]
  /\ UNCHANGED <<key, serviceCall, noting, dead>>

ToggleService(s) ==
  /\ service[s].present
  /\ service' = [service EXCEPT ![s].active = ~@]
  /\ UNCHANGED <<key, serviceCall, noting, dead>>

\* deleteService: its keys go with it (onDelete: Cascade).
DeleteService(s) ==
  LET gone == {i \in KeyIds : key[i].state = "stored" /\ key[i].service = s} IN
  /\ service[s].present
  /\ service' = [service EXCEPT ![s].present = FALSE]
  /\ key' = [i \in KeyIds |-> IF i \in gone THEN [key[i] EXCEPT !.state = "deleted"] ELSE key[i]]
  /\ dead' = dead \cup gone
  /\ UNCHANGED <<serviceCall, noting>>

\* createApiKey: the service found must still be there (serviceId).
CreateApiKey(i, s) ==
  /\ service[s].present
  /\ key[i].state = "none"
  /\ key' = [key EXCEPT ![i] = [state |-> "stored", active |-> TRUE, service |-> s,
                                born |-> service[s].born]]
  /\ UNCHANGED <<service, serviceCall, noting, dead>>

RevokeApiKey(i) ==
  /\ key[i].state = "stored"
  /\ key' = [key EXCEPT ![i].active = FALSE]
  /\ dead' = dead \cup {i}
  /\ UNCHANGED <<service, serviceCall, noting>>

-----------------------------------------------------------------------------
\* ApiKeyGuard.canActivate: key and service are read by one statement.
Admit(k, i) ==
  LET s == key[i].service IN
  /\ serviceCall[k].doing = "nothing"
  /\ key[i].state = "stored" /\ key[i].active
  /\ service[s].active
  /\ serviceCall' = [serviceCall EXCEPT ![k] =
       [doing |-> "admitted", service |-> s,
        good |-> i \notin dead /\ service[s].present /\ service[s].born = key[i].born]]
  /\ noting' = noting \cup {i}
  /\ UNCHANGED <<service, key, dead>>

\* A note that saves the key as the guard read it
NoteWholeRow(i) ==
  /\ i \in noting
  /\ key' = [key EXCEPT ![i].active = TRUE]
  /\ noting' = noting \ {i}
  /\ UNCHANGED <<service, serviceCall, dead>>

\* The update of lastUsedAt and of nothing else; its errors are ignored.
NoteUse(i) ==
  /\ i \in noting
  /\ noting' = noting \ {i}
  /\ UNCHANGED <<service, key, serviceCall, dead>>

Does(k, what) ==
  /\ serviceCall[k].doing = "admitted"
  /\ serviceCall' = [serviceCall EXCEPT ![k].doing = what]
  /\ UNCHANGED <<service, key, noting, dead>>

\* GET /rbac/trabajadores, /rbac/services/:key/users: any service
ReadPadron(k) == Does(k, "reading")

\* ServicioEscribePadronGuard
WritePadron(k) == serviceCall[k].service \in PadronWriters /\ Does(k, "writing")

\* service-login: the accounts of the list, whatever the service
ServiceLogin(k, username) == username \in LoginUsernames /\ Does(k, "login")

\* Answered, or refused after the guard
EndServiceCall(k) ==
  /\ serviceCall[k].doing # "nothing"
  /\ serviceCall' = [serviceCall EXCEPT ![k] = NoServiceCall]
  /\ UNCHANGED <<service, key, noting, dead>>

-----------------------------------------------------------------------------
KeysNext ==
  \/ \E s \in ServiceKeys, active \in BOOLEAN : CreateService(s, active)
  \/ \E s \in ServiceKeys : ToggleService(s) \/ DeleteService(s)
  \/ \E i \in KeyIds, s \in ServiceKeys : CreateApiKey(i, s)
  \/ \E i \in KeyIds : RevokeApiKey(i) \/ NoteUse(i) \/ \E k \in ServiceCalls : Admit(k, i)
  \/ \E k \in ServiceCalls : ReadPadron(k) \/ WritePadron(k) \/ EndServiceCall(k)
  \/ \E k \in ServiceCalls, username \in Usernames : ServiceLogin(k, username)

KeysSpec == KeysInit /\ [][KeysNext]_keyVars

-----------------------------------------------------------------------------
(***************************************************************************)
(* Properties.                                                             *)
(***************************************************************************)

\* A key revoked, or of a service that was deleted, lets no call through
\* from then on: neither the note of an earlier use that lands late nor a new
\* service of the same name brings it back (ApiKeyGuard).
DeadKeysOpenNothing ==
  \A k \in ServiceCalls : serviceCall[k].doing # "nothing" => serviceCall[k].good
=============================================================================
