--------------------------- MODULE MCPublication ---------------------------
(* Model-checking instances of Publication.                                *)
EXTENDS Publication, TLC

Symmetry == Permutations(Publisher) \cup Permutations(LateHook)
=============================================================================
