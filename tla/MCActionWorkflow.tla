------------------------- MODULE MCActionWorkflow -------------------------
(***************************************************************************)
(* Model-checking instances of ActionWorkflow: calls and actions are model *)
(* values the specification treats alike.  Reviewers are alike among       *)
(* themselves, an actor that is none is not.                               *)
(***************************************************************************)
EXTENDS ActionWorkflow, TLC

Symmetry == Permutations(Calls) \cup Permutations(Actions) \cup Permutations(Reviewers)
=============================================================================
