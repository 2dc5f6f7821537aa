---------------------------- MODULE MCDeployment ----------------------------
(* Model-checking instances of Deployment.                                 *)
EXTENDS Deployment
=============================================================================
