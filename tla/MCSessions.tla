----------------------------- MODULE MCSessions -----------------------------
(* Sessions on a small instance. *)
EXTENDS Sessions

CONSTANTS u1, c1

MCUsers == {u1}
MCClients == {c1}
MCOwner == [c \in MCClients |-> u1]
=============================================================================
