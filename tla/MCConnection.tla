---------------------------- MODULE MCConnection ----------------------------
(* Small instances of Connection for TLC. *)
EXTENDS Connection

CONSTANTS m1, m2, m3, c1, c2, c3
=============================================================================
