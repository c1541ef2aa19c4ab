------------------------ MODULE MCTriageExecutions ------------------------
(***************************************************************************)
(* Model-checking instances of TriageExecutions: runs and keys are model   *)
(* values the specification treats alike, so states may be identified up   *)
(* to their permutations wherever no liveness property is checked.         *)
(***************************************************************************)
EXTENDS TriageExecutions, TLC

Symmetry == Permutations(Runs) \cup Permutations(Keys)
=============================================================================
