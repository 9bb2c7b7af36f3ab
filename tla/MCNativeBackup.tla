--------------------------- MODULE MCNativeBackup ---------------------------
(* Small instances of NativeBackup for TLC. *)
EXTENDS NativeBackup, TLC

CONSTANTS r1, r2, r3
=============================================================================
