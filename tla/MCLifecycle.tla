---------------------------- MODULE MCLifecycle ----------------------------
(* Model-checking instances of Lifecycle.                                  *)
EXTENDS Lifecycle, TLC

Symmetry == Permutations(Finding) \cup Permutations(Process)
                \cup Permutations(Commit \ {Base})
=============================================================================
