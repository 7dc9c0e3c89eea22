----------------------------- MODULE MCAuthLink -----------------------------
(* A few changes of the rooms, around any number of connections.             *)
EXTENDS AuthLink
=============================================================================
