--------------------------- MODULE ActionLifecycle ---------------------------
(***************************************************************************)
(* What domain/actions.py promises of a high-impact action that policy has *)
(* accepted: it is approved before it is executed, executed once, and      *)
(* never leaves a terminal state.  One transaction may advance several     *)
(* actions.                                                                *)
(***************************************************************************)
CONSTANT Actions
VARIABLE state

States == {"PENDING_APPROVAL", "APPROVED", "REJECTED", "EXPIRED", "EXECUTING",
           "SUCCEEDED", "FAILED"}

\* _ACTION_TRANSITIONS: the states that may follow each state.  PROPOSED is
\* left out: the action is stored with the result that asks for its approval.
Successors ==
    [s \in States |->
        CASE s = "PENDING_APPROVAL" -> {"APPROVED", "REJECTED", "EXPIRED"}
          [] s = "APPROVED" -> {"EXECUTING", "EXPIRED"}
          [] s = "EXECUTING" -> {"SUCCEEDED", "FAILED"}
          [] OTHER -> {}]

Init == state = [a \in Actions |-> "PENDING_APPROVAL"]

\* ActionLifecycle.transition_to of some actions at once.
TransitionTo ==
    /\ state' \in [Actions -> States]
    /\ \A a \in Actions :
        state'[a] # state[a] => state'[a] \in Successors[state[a]]

Spec == Init /\ [][TransitionTo]_state
=============================================================================
