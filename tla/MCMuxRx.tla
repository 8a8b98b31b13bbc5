------------------------------- MODULE MCMuxRx -------------------------------
(* Instances of MuxRx for TLC. *)
EXTENDS MuxRx, TLC

CONSTANTS r1, r2, r3

ThreeReceivers == {r1, r2, r3}
Sym == Permutations(Receivers)
=============================================================================
