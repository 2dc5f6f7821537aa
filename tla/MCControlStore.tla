--------------------------- MODULE MCControlStore ---------------------------
(* Model-checking instances of ControlStore.                               *)
EXTENDS ControlStore, TLC

Symmetry == Permutations(Process)
=============================================================================
