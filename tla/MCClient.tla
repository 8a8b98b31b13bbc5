------------------------------- MODULE MCClient -------------------------------
(* Instances of Client for TLC. *)
EXTENDS Client

CONSTANTS c1, c2
=============================================================================
