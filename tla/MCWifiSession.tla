---------------------------- MODULE MCWifiSession ----------------------------
(* Instances of WifiSession for TLC. *)
EXTENDS WifiSession

CONSTANTS c1, c2
=============================================================================
