--------------------------- MODULE MCWifiDiscovery ---------------------------
(* Instances of WifiDiscovery for TLC. *)
EXTENDS WifiDiscovery

CONSTANTS p1, p2, c1, c2
=============================================================================
