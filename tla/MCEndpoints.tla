---------------------------- MODULE MCEndpoints -----------------------------
(* Small instances of Endpoints for TLC. *)
EXTENDS Endpoints

CONSTANTS user, loop, none, w1, w2
=============================================================================
