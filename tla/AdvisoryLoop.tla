---------------------------- MODULE AdvisoryLoop ----------------------------
(***************************************************************************)
(* What the bounded loop of TriageOrchestrator.run leaves behind: the      *)
(* stored outcomes of its tool calls and the evidence it may cite.  Every  *)
(* piece of evidence is a stored success, and the loop closes for good     *)
(* with the first outcome that is none.                                    *)
(***************************************************************************)
EXTENDS Integers, Sequences, FiniteSets

CONSTANTS MaxIterations, MaxEvidence

VARIABLES
    stored,    \* the outcomes in tool_invocations, in order
    evidence,  \* the positions in it that may be cited
    open       \* the loop may call further tools

Outcomes == {"SUCCESS", "DENIED", "FAILED"}

Init == stored = <<>> /\ evidence = {} /\ open = TRUE

\* A tool call that succeeds, is stored and becomes evidence.
Gather ==
    /\ open
    /\ Len(stored) < MaxIterations
    /\ Cardinality(evidence) < MaxEvidence
    /\ stored' = Append(stored, "SUCCESS")
    /\ evidence' = evidence \cup {Len(stored) + 1}
    /\ UNCHANGED open

\* The loop ends, with one more stored outcome or without.
Close ==
    /\ open
    /\ open' = FALSE
    /\ \/ UNCHANGED stored
       \/ /\ Len(stored) < MaxIterations
          /\ \E outcome \in Outcomes : stored' = Append(stored, outcome)
    /\ UNCHANGED evidence

Next == Gather \/ Close
vars == <<stored, evidence, open>>

Spec == Init /\ [][Next]_vars
=============================================================================
