------------------------------- MODULE Clients -------------------------------
(***************************************************************************)
(* The register of OAuth clients (ClientsService, and the seed that every  *)
(* deploy runs) and what /oidc/authorize and /oidc/token ask of it while   *)
(* administrators create, change, rotate and remove clients.               *)
(*                                                                         *)
(* A row of `authorization_codes` refers to its client by client_id and is *)
(* deleted with it; the seed may register a removed client_id again.       *)
(*                                                                         *)
(* Abstractions: secrets are numbered as they are generated, the one of    *)
(* the seed's environment first; redirectUris has the redirect_uri of the  *)
(* calls or not, which with isActive makes a client accept them; the other *)
(* parameters, PKCE, a code's expiry and the single sign-on session are    *)
(* right or wrong as the environment likes (SendBack, EndCall); sessions   *)
(* are those of AuthorizationCode.                                         *)
(***************************************************************************)
EXTENDS Integers, FiniteSets

CONSTANTS
  ClientIds,         \* OAuthClient.clientId
  SeedClients,       \* those that the seed registers
  CodeIds,           \* ids of rows of authorization_codes
  Grants,            \* calls of authorize and token that may be in flight at once
  MaxClientSecrets,  \* bound: secrets generated
  MaxBirths          \* bound: registrations of one client_id

ASSUME ClientsAssumption ==
  /\ ClientIds # {} /\ CodeIds # {}
  /\ SeedClients \subseteq ClientIds
  /\ MaxClientSecrets \in Nat \ {0}
  /\ MaxBirths \in Nat

VARIABLES
  client,    \* the `oauth_clients` table
  code,      \* the `authorization_codes` table
  grant,     \* the calls
  generated, \* how many secrets there are
  newest     \* history: the last secret set for each client_id

clientVars == <<client, code, grant, generated, newest>>

-----------------------------------------------------------------------------
NoClientSecret == 0      \* clientSecretHash is null; or no client_secret is sent
SeedSecret == 1          \* SEED_FORMS_CLIENT_SECRET

\* accepts is isActive and redirectUris together; born is history: which
\* registration of the client_id the row is.
Client == [present : BOOLEAN, accepts : BOOLEAN, confidential : BOOLEAN,
           secret : NoClientSecret .. MaxClientSecrets, born : Nat]

\* A row that was deleted leaves its id to nobody.
Code == [state : {"none", "open", "consumed", "deleted"}, client : ClientIds]

GrantPhase == {"idle", "validated", "read", "consumed", "opened", "granted", "renewing"}

\* read and last are history: the registration of the client that the call read,
\* and the one that stood when the tokens were handed out, 0 if none did.
TokenCall == [phase : GrantPhase, client : ClientIds, code : CodeIds, read : Nat, last : Nat]

ClientsTypeOK ==
  /\ client \in [ClientIds -> Client]
  /\ code \in [CodeIds -> Code]
  /\ grant \in [Grants -> TokenCall]
  /\ generated \in 1 .. MaxClientSecrets
  /\ newest \in [ClientIds -> NoClientSecret .. MaxClientSecrets]

Absent == [present |-> FALSE, accepts |-> FALSE, confidential |-> FALSE,
           secret |-> NoClientSecret, born |-> 0]

NoCode == [state |-> "none", client |-> CHOOSE c \in ClientIds : TRUE]

Idle == [phase |-> "idle", client |-> CHOOSE c \in ClientIds : TRUE,
         code |-> CHOOSE x \in CodeIds : TRUE, read |-> 0, last |-> 0]

ClientsInit ==
  /\ client = [c \in ClientIds |-> Absent]
  /\ code = [x \in CodeIds |-> NoCode]
  /\ grant = [g \in Grants |-> Idle]
  /\ generated = SeedSecret
  /\ newest = [c \in ClientIds |-> NoClientSecret]

-----------------------------------------------------------------------------
(***************************************************************************)
(* The register.  Every operation is one statement that decides: the       *)
(* search before it (assertExists) only names the error.                   *)
(***************************************************************************)
Stores(c, row) ==
  /\ client' = [client EXCEPT ![c] = row]
  /\ newest' = [newest EXCEPT ![c] = row.secret]
  /\ UNCHANGED <<code, grant>>

Births(c) == client[c].born + 1

\* create: a client_id with random digits, so never one that was removed.
CreateClient(c, confidential) ==
  /\ c \notin SeedClients /\ Births(c) = 1
  /\ confidential => generated < MaxClientSecrets
  /\ generated' = IF confidential THEN generated + 1 ELSE generated
  /\ \E accepts \in BOOLEAN :
       Stores(c, [present |-> TRUE, accepts |-> accepts, confidential |-> confidential,
                  secret |-> IF confidential THEN generated' ELSE NoClientSecret,
                  born |-> Births(c)])

\* update
UpdateClient(c, accepts) ==
  /\ client[c].present
  /\ client' = [client EXCEPT ![c].accepts = accepts]
  /\ UNCHANGED <<code, grant, generated, newest>>

\* A rotation whose new secret is handed out and not stored
RotateUnsaved(c) ==
  /\ client[c].present
  /\ generated < MaxClientSecrets
  /\ generated' = generated + 1
  /\ newest' = [newest EXCEPT ![c] = generated']
  /\ UNCHANGED <<client, code, grant>>

\* rotateSecret, which turns a public client into a confidential one.
RotateSecret(c) ==
  /\ client[c].present
  /\ generated < MaxClientSecrets
  /\ generated' = generated + 1
  /\ Stores(c, [client[c] EXCEPT !.secret = generated', !.confidential = TRUE])

\* A register that keeps the codes of a client that is gone
RemoveKeepingCodes(c) ==
  /\ client[c].present
  /\ client' = [client EXCEPT ![c] = [Absent EXCEPT !.born = client[c].born]]
  /\ UNCHANGED <<code, grant, generated, newest>>

\* remove: the codes of the client go with it (onDelete: Cascade).
RemoveClient(c) ==
  /\ client[c].present
  /\ client' = [client EXCEPT ![c] = [Absent EXCEPT !.born = client[c].born]]
  /\ code' = [x \in CodeIds |-> IF code[x].state # "none" /\ code[x].client = c
                               THEN [code[x] EXCEPT !.state = "deleted"] ELSE code[x]]
  /\ UNCHANGED <<grant, generated, newest>>

\* The seed's upsert, first branch: secret, redirect_uri and isActive go back to
\* what the environment of the deploy says; isConfidential stays.
SeedUpdate(c) ==
  /\ c \in SeedClients /\ client[c].present
  /\ client' = [client EXCEPT ![c].secret = SeedSecret, ![c].accepts = TRUE]
  /\ UNCHANGED <<code, grant, generated, newest>>

\* Second branch
SeedCreate(c) ==
  /\ c \in SeedClients /\ ~client[c].present
  /\ client[c].born < MaxBirths
  /\ Stores(c, [present |-> TRUE, accepts |-> TRUE, confidential |-> TRUE,
                secret |-> SeedSecret, born |-> Births(c)])
  /\ UNCHANGED generated

-----------------------------------------------------------------------------
(***************************************************************************)
(* The calls.                                                              *)
(***************************************************************************)
CallGoes(g, new) ==
  /\ grant' = [grant EXCEPT ![g] = new]
  /\ UNCHANGED <<client, generated, newest>>

\* authorize, 1: validateClientAndRedirect (and the parameters, which the
\* client read then allows)
ValidateClient(g, c) ==
  /\ grant[g].phase = "idle"
  /\ client[c].present /\ client[c].accepts
  /\ CallGoes(g, [Idle EXCEPT !.phase = "validated", !.client = c])
  /\ UNCHANGED code

\* authorize, 2 and 3: an error of the parameters goes to the redirect_uri, a
\* browser without a session to the login of the portal, which comes back.
SendBack(g) ==
  /\ grant[g].phase = "validated"
  /\ CallGoes(g, Idle)
  /\ UNCHANGED code

\* authorize, 4: issueAuthorizationCode, which needs a client of that client_id.
IssueCode(g, x) ==
  LET c == grant[g].client IN
  /\ grant[g].phase = "validated"
  /\ client[c].present
  /\ code[x].state = "none"
  /\ code' = [code EXCEPT ![x] = [state |-> "open", client |-> c]]
  /\ CallGoes(g, Idle)

\* authenticateClient: a public client has nothing to show.
Authenticates(row, secret) ==
  row.confidential => secret # NoClientSecret /\ secret = row.secret

\* exchangeAuthorizationCode: code and client are read by one statement.
\* Whoever shows a code consumed before goes no further (AuthorizationCode).
ReadClientOfCode(g, x, secret) ==
  LET c == code[x].client IN
  /\ grant[g].phase = "idle"
  /\ code[x].state = "open"
  /\ Authenticates(client[c], secret)
  /\ CallGoes(g, [Idle EXCEPT !.phase = "read", !.client = c, !.code = x,
                          !.read = client[c].born])
  /\ UNCHANGED code

\* The code is consumed if it is still there and open.
ConsumeCode(g) ==
  LET x == grant[g].code IN
  /\ grant[g].phase = "read"
  /\ code[x].state = "open"
  /\ code' = [code EXCEPT ![x].state = "consumed"]
  /\ CallGoes(g, [grant[g] EXCEPT !.phase = "consumed"])

\* createWithId
OpenCodeSession(g) ==
  /\ grant[g].phase = "consumed"
  /\ CallGoes(g, [grant[g] EXCEPT !.phase = "opened"])
  /\ UNCHANGED code

\* The session is written into the code, which throws if the code is gone; then
\* the tokens are handed out.
HandOutTokens(g) ==
  LET row == client[grant[g].client] IN
  /\ grant[g].phase = "opened"
  /\ code[grant[g].code].state = "consumed"
  /\ CallGoes(g, [grant[g] EXCEPT !.phase = "granted", !.last = IF row.present THEN row.born ELSE 0])
  /\ UNCHANGED code

\* OidcService.refresh authenticates a client that names itself, and only that
\* one; nothing that follows (RotateDerived in AuthorizationCode) asks for it.
AuthenticateRefresh(g, c, secret) ==
  /\ grant[g].phase = "idle"
  /\ client[c].present
  /\ Authenticates(client[c], secret)
  /\ CallGoes(g, [Idle EXCEPT !.phase = "renewing", !.client = c])
  /\ UNCHANGED code

\* A statement throws, or finds nothing; or the answer arrives.
EndCall(g) ==
  /\ grant[g].phase # "idle"
  /\ CallGoes(g, Idle)
  /\ UNCHANGED code

-----------------------------------------------------------------------------
ClientsNext ==
  \/ \E c \in ClientIds : RotateSecret(c) \/ RemoveClient(c) \/ SeedUpdate(c) \/ SeedCreate(c)
  \/ \E c \in ClientIds, confidential \in BOOLEAN : CreateClient(c, confidential)
  \/ \E c \in ClientIds, accepts \in BOOLEAN : UpdateClient(c, accepts)
  \/ \E g \in Grants, c \in ClientIds :
       ValidateClient(g, c) \/ \E secret \in NoClientSecret .. generated : AuthenticateRefresh(g, c, secret)
  \/ \E g \in Grants, x \in CodeIds :
       IssueCode(g, x) \/ \E secret \in NoClientSecret .. generated : ReadClientOfCode(g, x, secret)
  \/ \E g \in Grants :
       SendBack(g) \/ ConsumeCode(g) \/ OpenCodeSession(g) \/ HandOutTokens(g) \/ EndCall(g)

ClientsSpec == ClientsInit /\ [][ClientsNext]_clientVars

-----------------------------------------------------------------------------
(***************************************************************************)
(* Properties.                                                             *)
(***************************************************************************)

\* Removing a client ends the exchanges of its codes, those in flight too, even
\* if the seed registers its client_id again: tokens are handed out while the
\* client that was authenticated is still registered.
RemovalEndsExchanges ==
  \A g \in Grants : grant[g].phase = "granted" => grant[g].last = grant[g].read

\* A secret that was replaced (rotateSecret) is good again only because the
\* seed of a deploy put its own back.
OnlySeedSecretReturns ==
  \A c \in ClientIds : client[c].present /\ client[c].secret # newest[c] =>
    c \in SeedClients /\ client[c].secret = SeedSecret
=============================================================================
