------------------------- MODULE MCProjectControl -------------------------
(* Model-checking instances of ProjectControl.                             *)
EXTENDS ProjectControl
=============================================================================
