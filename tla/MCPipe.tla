------------------------------- MODULE MCPipe -------------------------------
(* Small instances of Pipe for TLC. *)
EXTENDS PipeOrder, TLC

CONSTANTS r1, r2, r3, w1, w2, w3, t1, t2

Symmetry == Permutations({t1, t2})
=============================================================================
