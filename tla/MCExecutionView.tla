-------------------------- MODULE MCExecutionView --------------------------
(***************************************************************************)
(* A model-checking instance of ExecutionView.  One run is looked at and   *)
(* liveness is checked, so no states are identified.                       *)
(***************************************************************************)
EXTENDS ExecutionView, TLC

CONSTANTS r1, r2, k1
=============================================================================
