---------------------------- MODULE TokenLedger -----------------------------
(***************************************************************************)
(* What a refresh token promises, with the table, the requests and the     *)
(* clock taken away: tokens are generated one after the other, a token is  *)
(* good from the moment it is generated or never, a good token makes room  *)
(* for at most one successor, and a token that stopped being good never is *)
(* again.  "Good" means that some stored session not yet revoked carries   *)
(* the token's hash; whether the account is active and the session not     *)
(* expired is a further condition of each use.  Sessions implements this   *)
(* specification.                                                          *)
(***************************************************************************)
EXTENDS Naturals

VARIABLES
  issued,   \* how many tokens have been generated: they are 1 .. issued
  good      \* those some request may still exchange

Init == issued = 0 /\ good = {}

\* A login opens a session.
Open ==
  /\ issued' = issued + 1
  /\ good' = good \cup {issued + 1}

\* A rotation: the new token takes the place of the old one.
Replace(t) ==
  /\ t \in good
  /\ issued' = issued + 1
  /\ good' = (good \ {t}) \cup {issued + 1}

\* A rotation that came too late: the token it returns is stillborn.
Waste ==
  /\ issued' = issued + 1
  /\ good' = good

\* A logout, a revocation of all the sessions of an account, a clean-up.
Retire(T) ==
  /\ good' = good \ T
  /\ issued' = issued

Next ==
  \/ Open
  \/ \E t \in good : Replace(t)
  \/ Waste
  \/ \E T \in SUBSET good : Retire(T)

Spec == Init /\ [][Next]_<<issued, good>>
=============================================================================
