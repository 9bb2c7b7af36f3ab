---------------------------- MODULE MCUsbHandoff ----------------------------
(* Small instances of UsbHandoff for TLC. *)
EXTENDS UsbHandoffProofs, TLC

CONSTANTS yaml, extra
=============================================================================
