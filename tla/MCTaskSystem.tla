---------------------------- MODULE MCTaskSystem ----------------------------
(* Model-checking instance of TaskSystem.                                  *)
EXTENDS TaskSystem, TLC

Symmetry == Permutations(Process) \cup Permutations(Commit \ {Base})

(* A bound: other people begin to act when the task is at closeout and the *)
(* last hook has ended; MCPublication checks what they do beside hooks.    *)
OthersActLate ==
    disturbed => state \in PublishingStates /\ \A p \in Process : process[p] = Idle
=============================================================================
