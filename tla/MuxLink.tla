------------------------------- MODULE MuxLink -------------------------------
(***************************************************************************)
(* What the receive side of a mux v2 link promises to the protocols above  *)
(* it: the device numbers its packets 0, 1, 2, ... and the host takes them *)
(* over in exactly that order, each of them once.                          *)
(***************************************************************************)
EXTENDS Integers, Sequences

VARIABLES
  sent,      \* how many packets the device has sent so far
  accepted   \* the numbers of the packets taken over, in order

linkVars == <<sent, accepted>>

Init ==
  /\ sent = 0
  /\ accepted = << >>

Send ==
  /\ sent' = sent + 1
  /\ UNCHANGED accepted

Take ==
  /\ Len(accepted) < sent
  /\ accepted' = Append(accepted, Len(accepted))
  /\ UNCHANGED sent

Next == Send \/ Take

Spec == Init /\ [][Next]_linkVars
=============================================================================
