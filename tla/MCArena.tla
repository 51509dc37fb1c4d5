------------------------------- MODULE MCArena -------------------------------
(* Small instances of ArenaPool for TLC. *)
EXTENDS ArenaPool, TLC

CONSTANTS a1, a2, a3, m1, m2

Symmetry == Permutations(Arenas) \cup Permutations(Messages)
=============================================================================
