---------------------------- MODULE MCBliztClients ----------------------------
(* One user with several connections: users share nothing but the list. *)
EXTENDS BliztClients

CONSTANT u1

OneUser == [s \in Sockets |-> u1]
=============================================================================
