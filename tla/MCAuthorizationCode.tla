------------------------ MODULE MCAuthorizationCode -------------------------
(* AuthorizationCode on a small instance: one account.  Requests and ids   *)
(* of sessions are interchangeable, and the properties are safety ones.    *)
EXTENDS AuthorizationCode, TLC

CONSTANT u1

MCUsers == {u1}
MCSymmetry == Permutations(Requests) \cup Permutations(SessionIds)
=============================================================================
