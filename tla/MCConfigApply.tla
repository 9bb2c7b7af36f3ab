--------------------------- MODULE MCConfigApply ---------------------------
(* Small instances of ConfigApply for TLC. *)
EXTENDS ConfigApplyProofs, TLC

CONSTANTS p1, p2, p3, f1, f2

\* /config and /homeassistant are two names of one directory ...
Aliased == [r \in 1..2 |-> f1]
\* ... or two directories, one of which may lack the file.
Distinct == [r \in 1..2 |-> IF r = 1 THEN f1 ELSE f2]

Symmetry == Permutations(Procs)
=============================================================================
