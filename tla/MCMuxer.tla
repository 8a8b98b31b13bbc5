------------------------------- MODULE MCMuxer -------------------------------
(* Instances of Muxer for TLC: a phone on USB and on wifi, a second phone on *)
(* USB, and a wifi pairing service.                                          *)
EXTENDS Muxer, TLC

CONSTANTS u1, w1, u2, p1, c1, c2

MCSerial == (u1 :> "one") @@ (w1 :> "one") @@ (u2 :> "two") @@ (p1 :> "WIFIPAIR")
MCConn == (u1 :> "usb") @@ (w1 :> "wifi") @@ (u2 :> "usb") @@ (p1 :> "wifi")
MCOrder == <<w1, u2, p1, u1>>

\* Every device leaves by one call; a pairing service by the discovery's.
OneRemoval == (u1 :> {"delete"}) @@ (w1 :> {"delete"}) @@ (u2 :> {"left"}) @@ (p1 :> {"service"})

SerialOfTwo == (u1 :> "one") @@ (u2 :> "two")
ConnOfTwo == (u1 :> "usb") @@ (u2 :> "usb")
OrderOfTwo == <<u2, u1>>
RemovalOfTwo == (u1 :> {"left", "delete"}) @@ (u2 :> {"left", "delete"})
=============================================================================
