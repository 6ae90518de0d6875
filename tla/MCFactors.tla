------------------------------ MODULE MCFactors ------------------------------
(* The second factor, the passkeys, the claims, the OAuth clients, the API
   keys and the forced change of passwords share no variable: a behaviour
   takes the steps of one of them. *)
EXTENDS Totp, Passkeys, Claims, Clients, ApiKeys, ForcedChange, TLC

VARIABLE part

\* The parts use the same model values: t1 and t2 are their calls, x1 and x2
\* the rows they work on.
Symmetry == Permutations(Calls) \cup Permutations(Apps)

Parts == {"totp", "passkeys", "claims", "clients", "keys", "forced"}

factorVars == <<part, totpVars, passkeyVars, claimVars, clientVars, keyVars, forcedVars>>

TotpPart ==
  /\ part = "totp"
  /\ TotpNext
  /\ UNCHANGED <<part, passkeyVars, claimVars, clientVars, keyVars, forcedVars>>

PasskeyPart ==
  /\ part = "passkeys"
  /\ PasskeyNext
  /\ UNCHANGED <<part, totpVars, claimVars, clientVars, keyVars, forcedVars>>

ClaimsPart ==
  /\ part = "claims"
  /\ ClaimsNext
  /\ UNCHANGED <<part, totpVars, passkeyVars, clientVars, keyVars, forcedVars>>

ClientsPart ==
  /\ part = "clients"
  /\ ClientsNext
  /\ UNCHANGED <<part, totpVars, passkeyVars, claimVars, keyVars, forcedVars>>

KeysPart ==
  /\ part = "keys"
  /\ KeysNext
  /\ UNCHANGED <<part, totpVars, passkeyVars, claimVars, clientVars, forcedVars>>

ForcedPart ==
  /\ part = "forced"
  /\ ForcedNext
  /\ UNCHANGED <<part, totpVars, passkeyVars, claimVars, clientVars, keyVars>>

Init ==
  /\ part \in Parts
  /\ TotpInit /\ PasskeyInit /\ ClaimsInit /\ ClientsInit /\ KeysInit /\ ForcedInit

Next == TotpPart \/ PasskeyPart \/ ClaimsPart \/ ClientsPart \/ KeysPart \/ ForcedPart

Spec == Init /\ [][Next]_factorVars

-----------------------------------------------------------------------------
\* The rows and requests of the six parts keep their types.
FactorsTypeOK ==
  /\ TotpTypeOK /\ PasskeyTypeOK /\ ClaimsTypeOK
  /\ ClientsTypeOK /\ KeysTypeOK /\ ForcedTypeOK
=============================================================================
