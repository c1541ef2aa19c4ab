-------------------------- MODULE MCInvestigation --------------------------
(***************************************************************************)
(* A model-checking instance of Investigation.  Entities in the scope of   *)
(* the alert are alike, and so are the registered tools.                   *)
(***************************************************************************)
EXTENDS Investigation, TLC

Symmetry == Permutations(Scope) \cup Permutations(Registered)
=============================================================================
