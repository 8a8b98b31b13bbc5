------------------------------ MODULE ClientLink ------------------------------
(***************************************************************************)
(* What a local client is promised that sends one request at a time: each  *)
(* gets one answer, a connection is granted instead of an answer to the    *)
(* request for it, and the socket is closed once.                          *)
(***************************************************************************)
CONSTANT Clients

VARIABLE phase   \* of each client's socket

Phases == {"none", "served", "asked", "tunnel", "closed"}

Init == phase = [c \in Clients |-> "none"]

Becomes(c, p) == phase' = [phase EXCEPT ![c] = p]

Connect(c) == phase[c] = "none" /\ Becomes(c, "served")
Ask(c) == phase[c] = "served" /\ Becomes(c, "asked")
Answer(c) == phase[c] = "asked" /\ Becomes(c, "served")
Grant(c) == phase[c] = "asked" /\ Becomes(c, "tunnel")

\* Several at once when the daemon stops.
Close(S) ==
  /\ \A c \in S : phase[c] \in {"served", "asked"}
  /\ phase' = [c \in Clients |-> IF c \in S THEN "closed" ELSE phase[c]]

Next ==
  \/ \E c \in Clients : Connect(c) \/ Ask(c) \/ Answer(c) \/ Grant(c)
  \/ \E S \in SUBSET Clients : Close(S)

Spec == Init /\ [][Next]_phase
=============================================================================
