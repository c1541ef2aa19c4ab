------------------------- MODULE ExecutionLifecycle -------------------------
(***************************************************************************)
(* What domain/states.py promises of a triage execution: it moves along    *)
(* the table of legal transitions and leaves a terminal state never.  One  *)
(* transaction may advance several executions.                             *)
(***************************************************************************)
CONSTANT Executions
VARIABLE state

States == {"PENDING", "RUNNING", "COMPLETED", "NEEDS_REVIEW", "FAILED"}

\* _TRIAGE_TRANSITIONS: the states that may follow each state.
Successors ==
    [s \in States |->
        CASE s = "PENDING" -> {"RUNNING"}
          [] s = "RUNNING" -> {"COMPLETED", "FAILED", "NEEDS_REVIEW"}
          [] OTHER -> {}]

Init == state = [e \in Executions |-> "PENDING"]

\* TriageExecution.transition_to of some executions at once.
TransitionTo ==
    /\ state' \in [Executions -> States]
    /\ \A e \in Executions :
        state'[e] # state[e] => state'[e] \in Successors[state[e]]

Spec == Init /\ [][TransitionTo]_state
=============================================================================
