----------------------------- MODULE MCUsbDevice -----------------------------
(* Instances of UsbDevice for TLC. *)
EXTENDS UsbDevice

CONSTANTS x1, x2, c1, c2
=============================================================================
