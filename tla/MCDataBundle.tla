---------------------------- MODULE MCDataBundle ----------------------------
(* Small instances of DataBundle for TLC. *)
EXTENDS DataBundleProofs, TLC

CONSTANTS database, backup, extra
=============================================================================
