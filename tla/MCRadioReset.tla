---------------------------- MODULE MCRadioReset ----------------------------
(* Small instances of RadioReset for TLC. *)
EXTENDS RadioReset

CONSTANTS r1, r2, d1, d2
=============================================================================
