---------------------------- MODULE MCActionView ----------------------------
(***************************************************************************)
(* A model-checking instance of ActionView: calls are model values the     *)
(* specification treats alike, and so are reviewers.                       *)
(***************************************************************************)
EXTENDS ActionView, TLC

CONSTANT a1

Symmetry == Permutations(Calls) \cup Permutations(Reviewers)
=============================================================================
