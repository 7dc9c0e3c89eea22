----------------------------- MODULE MCDBProxy ------------------------------
(* Instances of DBProxy for TLC. *)
EXTENDS DBProxy

CONSTANTS r1, r2
=============================================================================
