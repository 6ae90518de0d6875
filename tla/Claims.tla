-------------------------------- MODULE Claims --------------------------------
(***************************************************************************)
(* What an access token says its owner may do: the claims roles, services  *)
(* and service_roles, put together by AuthService (login, refresh), by     *)
(* OidcService (code, refresh) and, in its own way, by WebAuthnService,    *)
(* while administrators change roles, accesses and services.               *)
(*                                                                         *)
(* Each claim is read by a statement of its own, so a token may mix        *)
(* several moments of its request.                                         *)
(*                                                                         *)
(* Abstractions: one account; permissions, computed from roles, and the    *)
(* metadata of an access are left out; an access expires at any moment;    *)
(* how the request got this far is modelled in Login, Sessions,            *)
(* AuthorizationCode and Passkeys.                                         *)
(***************************************************************************)
EXTENDS Integers, FiniteSets

CONSTANTS
  Apps,      \* services
  Ranks,     \* roles
  Issuers    \* requests that issue a token and may be in flight at once

VARIABLES
  rank,      \* User.roles
  app,       \* Service.isActive
  pass,      \* user_service_access of the account
  issuer,    \* the requests
  held       \* history: for each request, the services and roles that the
             \* account had at some moment since it began

claimVars == <<rank, app, pass, issuer, held>>

-----------------------------------------------------------------------------
\* roles is the column that migrations wrote and grantAccess writes.
Pass == [granted : BOOLEAN, expired : BOOLEAN, roles : SUBSET Ranks]

Phase == {"idle", "services", "user", "details", "signed", "passkey", "passkeySigned"}

\* The claims as far as they have been read; userRoles is the second reading of
\* the roles, by getUserServicesDetails.
Issuer == [phase : Phase, roles : SUBSET Ranks, services : SUBSET Apps,
           userRoles : SUBSET Ranks, serviceRoles : [Apps -> SUBSET Ranks]]

Held == [services : SUBSET Apps, roles : SUBSET Ranks, changed : BOOLEAN]

ClaimsTypeOK ==
  /\ rank \in SUBSET Ranks
  /\ app \in [Apps -> BOOLEAN]
  /\ pass \in [Apps -> Pass]
  /\ issuer \in [Issuers -> Issuer]
  /\ held \in [Issuers -> Held]

NoRoles == [s \in Apps |-> {}]

Ready == [phase |-> "idle", roles |-> {}, services |-> {}, userRoles |-> {},
          serviceRoles |-> NoRoles]

NothingHeld == [services |-> {}, roles |-> {}, changed |-> FALSE]

ClaimsInit ==
  /\ rank = {}
  /\ app = [s \in Apps |-> TRUE]
  /\ pass = [s \in Apps |-> [granted |-> FALSE, expired |-> FALSE, roles |-> {}]]
  /\ issuer = [i \in Issuers |-> Ready]
  /\ held = [i \in Issuers |-> NothingHeld]

-----------------------------------------------------------------------------
\* The services whose access the queries of AuthService find
AnyAccess == {s \in Apps : pass[s].granted}

Accessible == {s \in Apps : pass[s].granted /\ ~pass[s].expired /\ app[s]}

InProgress(i) == issuer[i].phase # "idle"

\* What every request in flight has now seen the account have
Holding ==
  held' = [i \in Issuers |->
    IF InProgress(i)
      THEN [services |-> held[i].services \cup Accessible',
            roles |-> held[i].roles \cup rank', changed |-> TRUE]
      ELSE held[i]]

-----------------------------------------------------------------------------
\* users.update
SetRoles(roles) ==
  /\ rank' = roles
  /\ UNCHANGED <<app, pass, issuer>>
  /\ Holding

\* grantAccess and revokeAccess
Grant(s, roles) ==
  /\ pass' = [pass EXCEPT ![s] = [granted |-> TRUE, expired |-> FALSE, roles |-> roles]]
  /\ UNCHANGED <<rank, app, issuer>>
  /\ Holding

Revoke(s) ==
  /\ pass[s].granted
  /\ pass' = [pass EXCEPT ![s].granted = FALSE]
  /\ UNCHANGED <<rank, app, issuer>>
  /\ Holding

\* expiresAt has passed.
Expires(s) ==
  /\ pass[s].granted
  /\ pass' = [pass EXCEPT ![s].expired = TRUE]
  /\ UNCHANGED <<rank, app, issuer>>
  /\ Holding

\* toggleService, updateService
Toggle(s) ==
  /\ app' = [app EXCEPT ![s] = ~@]
  /\ UNCHANGED <<rank, pass, issuer>>
  /\ Holding

-----------------------------------------------------------------------------
Directory == <<rank, app, pass>>

IssuerReads(i, phase, new) ==
  /\ issuer[i].phase = phase
  /\ issuer' = [issuer EXCEPT ![i] = new]
  /\ UNCHANGED Directory

\* The user of the token, as login, refresh, exchangeCode or the passkey read
\* it: its roles become the claim.
ReadAccount(i, phase) ==
  /\ phase \in {"services", "passkey"}
  /\ IssuerReads(i, "idle", [Ready EXCEPT !.phase = phase, !.roles = rank])
  /\ held' = [held EXCEPT ![i] = [services |-> Accessible, roles |-> rank, changed |-> FALSE]]

\* getUserServices, servicesFor
ReadServices(i) ==
  /\ IssuerReads(i, "services", [issuer[i] EXCEPT !.phase = "user", !.services = Accessible])
  /\ UNCHANGED held

\* getUserServicesDetails: the roles once more ...
ReadRoles(i) ==
  /\ IssuerReads(i, "user", [issuer[i] EXCEPT !.phase = "details", !.userRoles = rank])
  /\ UNCHANGED held

\* getUserServicesDetails with the roles of each access
ReadOwnRoles(i) ==
  /\ IssuerReads(i, "details", [issuer[i] EXCEPT !.phase = "signed",
       !.serviceRoles = [s \in Apps |-> IF s \in Accessible THEN pass[s].roles ELSE {}]])
  /\ UNCHANGED held

\* ... and the accesses, each with those roles; then signAccessToken.
ReadDetails(i) ==
  /\ IssuerReads(i, "details", [issuer[i] EXCEPT !.phase = "signed",
       !.serviceRoles = [s \in Apps |-> IF s \in Accessible THEN issuer[i].userRoles ELSE {}]])
  /\ UNCHANGED held

\* verifyAuthentication: the accesses that were not revoked, each with roles of
\* its own; then signAccessToken.
ReadAccesses(i) ==
  /\ IssuerReads(i, "passkey", [issuer[i] EXCEPT !.phase = "passkeySigned", !.services = AnyAccess,
       !.serviceRoles = [s \in Apps |-> IF s \in AnyAccess THEN pass[s].roles ELSE {}]])
  /\ UNCHANGED held

\* The answer, or an error
Answer(i) ==
  /\ InProgress(i)
  /\ issuer' = [issuer EXCEPT ![i] = Ready]
  /\ held' = [held EXCEPT ![i] = NothingHeld]
  /\ UNCHANGED Directory

-----------------------------------------------------------------------------
ClaimsNext ==
  \/ \E roles \in SUBSET Ranks : SetRoles(roles) \/ \E s \in Apps : Grant(s, roles)
  \/ \E s \in Apps : Revoke(s) \/ Expires(s) \/ Toggle(s)
  \/ \E i \in Issuers :
       \/ \E phase \in Phase : ReadAccount(i, phase)
       \/ ReadServices(i) \/ ReadRoles(i) \/ ReadDetails(i) \/ ReadAccesses(i)
       \/ Answer(i)

ClaimsSpec == ClaimsInit /\ [][ClaimsNext]_claimVars

-----------------------------------------------------------------------------
(***************************************************************************)
(* Properties.                                                             *)
(***************************************************************************)

\* The token says nothing that its owner did not have at some moment of the
\* request that issued it: a service to enter, or a role.
SaysOnlyWhatWasHeld(i) ==
  /\ issuer[i].services \subseteq held[i].services
  /\ issuer[i].roles \subseteq held[i].roles
  /\ \A s \in Apps : issuer[i].serviceRoles[s] # {} =>
       s \in held[i].services /\ issuer[i].serviceRoles[s] \subseteq held[i].roles

\* The tokens of login, refresh and the authorization code: an access revoked,
\* expired or of a service switched off before the request gives nothing; and
\* unless something changed during the request its three claims agree.
ClaimsWereHeld ==
  \A i \in Issuers : issuer[i].phase = "signed" =>
    /\ SaysOnlyWhatWasHeld(i)
    /\ held[i].changed \/ \A s \in Apps : issuer[i].serviceRoles[s] =
                            IF s \in issuer[i].services THEN issuer[i].roles ELSE {}

\* verifyAuthentication, "Issue tokens (same as regular login)": the services of
\* its token are among those that a login during the request could give.
PasskeyServicesLikeLogin ==
  \A i \in Issuers : issuer[i].phase = "passkeySigned" => issuer[i].services \subseteq held[i].services
=============================================================================
