---------------------------- MODULE MCCredentials ----------------------------
(* Credentials on a small instance: overlapping logins of one account.     *)
EXTENDS Credentials
=============================================================================
