----------------------------- MODULE MCReactor ------------------------------
(* Small instances of Reactor for TLC. *)
EXTENDS Reactor

CONSTANTS u1, u2, a, b, c
=============================================================================
