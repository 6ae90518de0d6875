------------------------------ MODULE MCLogin -------------------------------
(* Login on a small instance: one account, with a second factor or without *)
(* (Init leaves that open), that is also a service account.                *)
EXTENDS Login

CONSTANT u1

MCUsers == {u1}
=============================================================================
