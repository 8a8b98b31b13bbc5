-------------------------------- MODULE MCTCP --------------------------------
(* Instances of TCP for TLC. *)
EXTENDS TCP, TLC

CONSTANTS r1, r2, c, s

Sym == Permutations(Receivers)
=============================================================================
