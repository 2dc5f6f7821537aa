------------------------ MODULE MCContainedExecution ------------------------
(* Model-checking instances of ContainedExecution.                         *)
EXTENDS ContainedExecution
=============================================================================
