-------------------------- MODULE ActionViewProofs --------------------------
(***************************************************************************)
(* What a reader of one action is shown stays true, for every number of    *)
(* calls, actions and actors, every lifetime and threshold, calls of any   *)
(* duration, and any time between the statements of the page.              *)
(***************************************************************************)
EXTENDS ActionView, ActionWorkflowProofs

(***************************************************************************)
(* Outcomes: what the audit trail has recorded of the end of a simulation. *)
(***************************************************************************)

Recorded(a, event) == audit[a][event] > 0
Outcome(a) == Recorded(a, "simulation_succeeded") \/ Recorded(a, "simulation_failed")

\* A rejection has no expiry.
RejectionsLast ==
    \A a \in Actions :
        approvals[a].decision = "REJECTED" => approvals[a].expires_at = NoExpiry

\* One simulation has one outcome: when it is recorded nobody simulates the action any
\* more, and an ended row has an outcome unless recovery ended it.
Outcomes ==
    \A a \in Actions :
        /\ Outcome(a) => \A c \in Calls : pc[c] \in Simulating => Subject(c) # a
        /\ ~(Recorded(a, "simulation_succeeded") /\ Recorded(a, "simulation_failed"))
        /\ executions[a].state \in Ended =>
               Outcome(a) \/ Recorded(a, "stale_simulation_recovered")

LEMMA OutcomesRecorded == TypeOK /\ Accounts => Outcomes
  <1> SUFFICES ASSUME TypeOK, Accounts, NEW a \in Actions
               PROVE  /\ Outcome(a) => \A c \in Calls : pc[c] \in Simulating => Subject(c) # a
                      /\ ~(/\ Recorded(a, "simulation_succeeded")
                           /\ Recorded(a, "simulation_failed"))
                      /\ executions[a].state \in Ended =>
                             Outcome(a) \/ Recorded(a, "stale_simulation_recovered")
    BY DEF Outcomes
  <1>1. /\ audit[a]["simulation_succeeded"] \in Nat
        /\ audit[a]["simulation_failed"] \in Nat
        /\ audit[a]["stale_simulation_recovered"] \in Nat
    BY TrailCounts DEF TypeOK
  <1>2. AuditAccounts(a)
    BY DEF Accounts
  <1> QED
    BY <1>1, <1>2 DEF AuditAccounts, Outcome, Recorded, Ended

\* A trail only grows, by the event of the commit.
LEMMA TrailStep ==
    ASSUME TypeOK, [Next]_vars, NEW a \in Actions
    PROVE  \A f \in AuditEvents : Recorded(a, f) => Recorded(a, f)'
  <1>1. audit'[a] = audit[a] \/ \E e \in AuditEvents : audit'[a] = Logged(audit[a], e)
    BY RowFootprint DEF Untouched, Written, DecisionStored, DenialStored, StartStored,
       EndStored, StaleFailed, AuditEvents
  <1>2. audit[a] \in Trail
    BY DEF TypeOK
  <1>3. \A e, f \in AuditEvents : audit[a][f] > 0 => Logged(audit[a], e)[f] > 0
    BY <1>2, LoggedTrail
  <1> QED
    BY <1>1, <1>3 DEF Recorded

\* Recovery is on the trail from its commit on.
LEMMA RecoveryRecorded ==
    ASSUME TypeOK, NEW a \in Actions, StaleFailed(a)
    PROVE  Recorded(a, "stale_simulation_recovered")'
  <1>1. "stale_simulation_recovered" \in AuditEvents /\ audit[a] \in Trail
    BY DEF AuditEvents, TypeOK
  <1>2. Logged(audit[a], "stale_simulation_recovered")["stale_simulation_recovered"] > 0
    BY <1>1, LoggedTrail
  <1> QED
    BY <1>2 DEF StaleFailed, Recorded

LEMMA RejectionStep == TypeOK /\ [Next]_vars /\ RejectionsLast => RejectionsLast'
  <1> SUFFICES ASSUME TypeOK, [Next]_vars, RejectionsLast, NEW a \in Actions,
                      approvals'[a].decision = "REJECTED"
               PROVE  approvals'[a].expires_at = NoExpiry
    BY DEF RejectionsLast
  <1>1. CASE DecisionStored(a)
    BY <1>1 DEF DecisionStored
  <1>2. CASE approvals'[a] = approvals[a]
    BY <1>2 DEF RejectionsLast
  <1> QED
    BY <1>1, <1>2, RowFootprint DEF Untouched, Written, DenialStored, StartStored,
       EndStored, StaleFailed

LEMMA InitRejections == Init => RejectionsLast
  BY DEF Init, RejectionsLast, NoApproval

(***************************************************************************)
(* What has been read stays consistent with what is stored.                *)
(***************************************************************************)

Found(event) == view.audit[event] > 0

Views == [statements : 0..3, approval : Approval \cup {NoApproval},
          execution : Execution \cup {NoExecution}, audit : Trail,
          shown : {"NOTHING", "SIMULATED", "FAILED", "PENDING", "EXPIRED"}
                  \cup Decisions]

ViewTyped ==
    /\ view \in Views
    /\ view.statements < 3 => view.audit = NoTrail
    /\ view.shown # "NOTHING" => view.statements = 3

LEMMA NothingRead == NoTrail \in Trail /\ \A e \in AuditEvents : ~(NoTrail[e] > 0)
  BY DEF NoTrail, Trail

\* A decision never changes; an ended row stays or recovery has failed it; a success
\* that has been read is recorded, and in the trail once that has been read as well.
RowsHold ==
    LET recovered == Recorded(Shown, "stale_simulation_recovered") IN
    /\ view.approval # NoApproval => approvals[Shown] = view.approval
    /\ view.execution.state = "SUCCEEDED" =>
           /\ executions[Shown].state = "SUCCEEDED" \/ recovered
           /\ Recorded(Shown, "simulation_succeeded")
           /\ view.statements = 3 => Found("simulation_succeeded")
    /\ view.execution.state = "FAILED" => executions[Shown].state = "FAILED" \/ recovered
    /\ \A e \in AuditEvents : Found(e) => Recorded(Shown, e)

\* The rows that each workflow state is derived from.
ShownRests ==
    /\ view.shown = "SIMULATED" => view.execution.state = "SUCCEEDED"
    /\ view.shown = "FAILED" => view.execution.state = "FAILED"
    /\ view.shown \in Decisions => view.approval.decision = view.shown
    /\ view.shown = "EXPIRED" =>
           /\ view.approval # NoApproval
           /\ view.approval.expires_at # NoExpiry
           /\ view.approval.expires_at <= clock

LEMMA ViewUpdates ==
    ASSUME NEW v \in Views, NEW n \in 0..3
    PROVE  /\ \A x \in Approval \cup {NoApproval} :
                  [v EXCEPT !.statements = n, !.approval = x] \in Views
           /\ \A x \in Execution \cup {NoExecution} :
                  [v EXCEPT !.statements = n, !.execution = x] \in Views
           /\ \A x \in Trail :
                  [v EXCEPT !.statements = n, !.audit = x] \in Views
  BY DEF Views

\* One statement reads one table.
LEMMA ReadStep ==
    ASSUME ViewTyped, Read
    PROVE  \/ /\ view.statements = 0
              /\ view' = [view EXCEPT !.statements = 1, !.approval = approvals[Shown]]
           \/ /\ view.statements = 1
              /\ view' = [view EXCEPT !.statements = 2, !.execution = executions[Shown]]
           \/ /\ view.statements = 2
              /\ view' = [view EXCEPT !.statements = 3, !.audit = audit[Shown]]
  <1>1. /\ Len(Reads) = 3 /\ Reads[1] = "approval" /\ Reads[2] = "execution"
        /\ Reads[3] = "audit"
    BY DEF Reads
  <1>2. view.statements \in 0..2
    BY <1>1 DEF ViewTyped, Views, Read
  <1>3. /\ Stored["approval"] = approvals[Shown]
        /\ Stored["execution"] = executions[Shown]
        /\ Stored["audit"] = audit[Shown]
    BY Zenon DEF Stored
  <1>4. view' = [view EXCEPT !.statements = view.statements + 1,
                             ![Reads[view.statements + 1]]
                                 = Stored[Reads[view.statements + 1]]]
    BY Zenon DEF Read
  <1>5. ASSUME view.statements = 0
        PROVE  view' = [view EXCEPT !.statements = 1, !.approval = approvals[Shown]]
    <2>1. view.statements + 1 = 1
      BY <1>5
    <2>2. Reads[view.statements + 1] = "approval"
      BY <1>1, <2>1
    <2>3. view' = [view EXCEPT !.statements = view.statements + 1,
                               !["approval"] = Stored["approval"]]
      BY <1>4, <2>2, Zenon
    <2>4. view' = [view EXCEPT !.statements = 1, !["approval"] = approvals[Shown]]
      BY <1>3, <2>1, <2>3, Zenon
    <2> QED
      BY <2>4, Zenon
  <1>6. ASSUME view.statements = 1
        PROVE  view' = [view EXCEPT !.statements = 2, !.execution = executions[Shown]]
    <2>1. view.statements + 1 = 2
      BY <1>6
    <2>2. Reads[view.statements + 1] = "execution"
      BY <1>1, <2>1
    <2>3. view' = [view EXCEPT !.statements = view.statements + 1,
                               !["execution"] = Stored["execution"]]
      BY <1>4, <2>2, Zenon
    <2>4. view' = [view EXCEPT !.statements = 2, !["execution"] = executions[Shown]]
      BY <1>3, <2>1, <2>3, Zenon
    <2> QED
      BY <2>4, Zenon
  <1>7. ASSUME view.statements = 2
        PROVE  view' = [view EXCEPT !.statements = 3, !.audit = audit[Shown]]
    <2>1. view.statements + 1 = 3
      BY <1>7
    <2>2. Reads[view.statements + 1] = "audit"
      BY <1>1, <2>1
    <2>3. view' = [view EXCEPT !.statements = view.statements + 1,
                               !["audit"] = Stored["audit"]]
      BY <1>4, <2>2, Zenon
    <2>4. view' = [view EXCEPT !.statements = 3, !["audit"] = audit[Shown]]
      BY <1>3, <2>1, <2>3, Zenon
    <2> QED
      BY <2>4, Zenon
  <1> QED
    BY <1>2, <1>5, <1>6, <1>7

Viewed == ViewTyped /\ RowsHold /\ ShownRests

\* What the workflow does while a reader looks leaves what was read true.
LEMMA RowsMove ==
    /\ TypeOK /\ RowsOwned /\ Checked /\ [Next]_vars /\ UNCHANGED view
    /\ Attempts /\ Outcomes /\ Viewed
    => Viewed'
  <1> SUFFICES ASSUME TypeOK, RowsOwned, Checked, [Next]_vars, UNCHANGED view,
                      Attempts, Outcomes, Viewed
               PROVE  Viewed'
    OBVIOUS
  <1> DEFINE a == Shown
             recovered == Recorded(a, "stale_simulation_recovered")
  <1>0. a \in Actions
    BY ShownAssumption
  <1>1. \A e \in AuditEvents : Recorded(a, e) => Recorded(a, e)'
    BY <1>0, TrailStep
  <1>2. view.approval # NoApproval => approvals'[a] = view.approval
    BY <1>0, Stands DEF Viewed, RowsHold, Decided
  \* Nobody is left to end it a second time, and recovery is recorded.
  <1>3. ASSUME executions[a].state \in Ended
        PROVE  executions'[a].state = executions[a].state \/ recovered \/ recovered'
    <2>1. executions[a] # NoExecution
      BY <1>3 DEF NoExecution, Ended
    <2>2. CASE Outcome(a)
      <3>1. ~EndStored(a)
        BY <1>0, <2>2 DEF EndStored, Outcomes, Simulating
      <3>2. StaleFailed(a) => recovered'
        BY <1>0, RecoveryRecorded
      <3> QED
        BY <1>0, <2>1, <3>1, <3>2, RowFootprint DEF Untouched, Written, DecisionStored,
           DenialStored, StartStored, Executed
    <2> QED
      BY <1>0, <1>3, <2>2 DEF Outcomes
  <1>4. ViewTyped'
    BY DEF Viewed, ViewTyped
  <1>5. RowsHold'
    <2>1. ASSUME NEW e PROVE Found(e)' <=> Found(e)
      BY DEF Found
    <2>2. ASSUME NEW s \in Ended, view.execution.state = s,
                 executions[a].state = s \/ recovered
          PROVE  executions'[a].state = s \/ recovered'
      <3>1. "stale_simulation_recovered" \in AuditEvents
        BY DEF AuditEvents
      <3> QED
        BY <1>1, <1>3, <2>2, <3>1
    <2>3. "simulation_succeeded" \in AuditEvents
      BY DEF AuditEvents
    <2> QED
      BY <1>1, <1>2, <2>1, <2>2, <2>3 DEF Viewed, RowsHold, Ended
  <1>6. ShownRests'
    <2>1. clock \in Nat /\ (clock' = clock \/ clock' = clock + 1)
      BY WorkflowAssumption DEF TypeOK, Next, CallStep, Refuse, Arrive, LoadFails,
         AnswerDecided, LoadUndecided, DecisionConflicts, AnswerSucceeded, Validate,
         StartConflicts, Simulate, Decide, Deny, StartSimulation, Succeed, FinishFailed,
         Crash, Recover, ListStale, FailStale, Tick, vars
    <2>2. view.approval # NoApproval => view.approval.expires_at \in Int
      BY WorkflowAssumption DEF Viewed, ViewTyped, Views, Approval, NoExpiry
    <2> QED
      BY <2>1, <2>2 DEF Viewed, ShownRests
  <1> QED
    BY <1>4, <1>5, <1>6 DEF Viewed

\* What a statement reads is true when it is read.
LEMMA ViewStep ==
    /\ TypeOK /\ Outcomes /\ SuccessIsEarned /\ OnlyApprovedActionsRun
    /\ Read \/ Derive \/ Serve
    /\ Viewed
    => Viewed'
  <1> SUFFICES ASSUME TypeOK, Outcomes, SuccessIsEarned, OnlyApprovedActionsRun, Viewed,
                      Read \/ Derive \/ Serve
               PROVE  Viewed'
    OBVIOUS
  <1> DEFINE a == Shown
             recovered == Recorded(a, "stale_simulation_recovered")
  <1>0. /\ a \in Actions
        /\ Len(Reads) = 3
        /\ \A e : Recorded(a, e)' <=> Recorded(a, e)
        /\ UNCHANGED <<approvals, executions, audit, clock>>
    BY ShownAssumption DEF Reads, Recorded, Read, Derive, Serve, vars
  <1>t. /\ approvals[a] \in Approval \cup {NoApproval}
        /\ executions[a] \in Execution \cup {NoExecution}
        /\ audit[a] \in Trail
    BY <1>0 DEF TypeOK
  <1>v. /\ view \in Views
        /\ view.statements < 3 => view.audit = NoTrail
        /\ view.shown # "NOTHING" => view.statements = 3
    BY <1>0 DEF Viewed, ViewTyped
  <1>1. CASE /\ view.statements = 0
             /\ view' = [view EXCEPT !.statements = 1, !.approval = approvals[a]]
    <2>1. /\ view'.statements = 1 /\ view'.approval = approvals[a]
          /\ view'.execution = view.execution /\ view'.audit = NoTrail
          /\ view'.shown = "NOTHING"
      BY <1>1, <1>v DEF Views
    <2>2. ViewTyped'
      <3>1. view' \in Views
        BY <1>1, <1>t, <1>v, 1 \in 0..3, ViewUpdates
      <3> QED
        BY <1>0, <2>1, <3>1 DEF ViewTyped
    <2>3. RowsHold'
      BY <1>0, <1>v, <2>1, NothingRead DEF Viewed, RowsHold, Found
    <2> QED
      BY <2>1, <2>2, <2>3 DEF Viewed, ShownRests, Decisions
  <1>2. CASE /\ view.statements = 1
             /\ view' = [view EXCEPT !.statements = 2, !.execution = executions[a]]
    <2>1. /\ view'.statements = 2 /\ view'.approval = view.approval
          /\ view'.execution = executions[a] /\ view'.audit = NoTrail
          /\ view'.shown = "NOTHING"
      BY <1>2, <1>v DEF Views
    <2>2. ViewTyped'
      <3>1. view' \in Views
        BY <1>2, <1>t, <1>v, 2 \in 0..3, ViewUpdates
      <3> QED
        BY <1>0, <2>1, <3>1 DEF ViewTyped
    <2>3. executions[a].state = "SUCCEEDED" => Recorded(a, "simulation_succeeded")
      BY <1>0 DEF SuccessIsEarned, Recorded
    <2>4. RowsHold'
      BY <1>0, <1>v, <2>1, <2>3, NothingRead DEF Viewed, RowsHold, Found
    <2> QED
      BY <2>1, <2>2, <2>4 DEF Viewed, ShownRests, Decisions
  <1>3. CASE /\ view.statements = 2
             /\ view' = [view EXCEPT !.statements = 3, !.audit = audit[a]]
    <2>1. /\ view'.statements = 3 /\ view'.approval = view.approval
          /\ view'.execution = view.execution /\ view'.audit = audit[a]
          /\ view'.shown = "NOTHING"
      BY <1>3, <1>v DEF Views
    <2>2. ViewTyped'
      <3>1. view' \in Views
        BY <1>3, <1>t, <1>v, 3 \in 0..3, ViewUpdates
      <3> QED
        BY <1>0, <2>1, <3>1 DEF ViewTyped
    <2>3. \A e : Found(e)' <=> Recorded(a, e)
      BY <2>1 DEF Found, Recorded
    <2>4. RowsHold'
      BY <1>0, <1>v, <2>1, <2>3 DEF Viewed, RowsHold
    <2> QED
      BY <2>1, <2>2, <2>4 DEF Viewed, ShownRests, Decisions
  <1>4. CASE Derive
    <2>1. /\ view.statements = 3 /\ view' = [view EXCEPT !.shown = WorkflowState]
      BY <1>0, <1>4 DEF Derive
    <2>2. /\ WorkflowState \in {"SIMULATED", "FAILED", "PENDING", "EXPIRED"} \cup Decisions
          /\ WorkflowState = "SIMULATED" => view.execution.state = "SUCCEEDED"
          /\ WorkflowState = "FAILED" => view.execution.state = "FAILED"
          /\ WorkflowState \in Decisions => view.approval.decision = WorkflowState
          /\ WorkflowState = "EXPIRED" =>
                 /\ view.approval # NoApproval
                 /\ view.approval.expires_at # NoExpiry
                 /\ view.approval.expires_at <= clock
      <3>1. view.approval # NoApproval => view.approval.decision \in Decisions
        BY <1>v DEF Views, Approval
      <3> QED
        BY <3>1 DEF WorkflowState, ApprovalState, Decisions
    <2>3. /\ view'.statements = 3 /\ view'.approval = view.approval
          /\ view'.execution = view.execution /\ view'.audit = view.audit
          /\ view'.shown = WorkflowState
      BY <1>v, <2>1 DEF Views
    <2>4. ViewTyped'
      BY <1>0, <1>v, <2>1, <2>2, <2>3 DEF ViewTyped, Views
    <2>5. RowsHold'
      BY <1>0, <2>1, <2>3 DEF Viewed, RowsHold, Found
    <2>6. ShownRests'
      BY <1>0, <2>2, <2>3 DEF ShownRests
    <2> QED
      BY <2>4, <2>5, <2>6 DEF Viewed
  <1>5. CASE Serve
    <2>1. view' = NoView
      BY <1>5 DEF Serve
    <2> QED
      BY <1>0, <2>1, NothingRead DEF Viewed, ViewTyped, Views, RowsHold, ShownRests,
         Found, NoView, NoExecution, NoApproval, Decisions
  <1>6. CASE Read
    BY <1>1, <1>2, <1>3, <1>6, ReadStep DEF Viewed
  <1> QED
    BY <1>4, <1>5, <1>6

LEMMA InitViewed == Init /\ view = NoView => Viewed
  BY NothingRead
     DEF Viewed, ViewTyped, Views, RowsHold, ShownRests, Found, NoView, NoExecution,
         NoApproval, Decisions, Reads

\* What is derived from rows that hold is true.
LEMMA ViewedIsTrue ==
    TypeOK /\ OnlyApprovedActionsRun /\ RejectionsLast /\ Outcomes /\ Viewed
    => ViewsStayTrue
  <1> SUFFICES ASSUME TypeOK, OnlyApprovedActionsRun, RejectionsLast, Outcomes, Viewed
               PROVE  ViewsStayTrue
    OBVIOUS
  <1> DEFINE recovered == Recorded(Shown, "stale_simulation_recovered")
  <1>0. Shown \in Actions
    BY ShownAssumption
  <1>3. ASSUME view.execution.state = "SUCCEEDED", view.statements = 3
        PROVE  SimulationEventsRead = {"simulation_succeeded"}
    <2>1. Recorded(Shown, "simulation_succeeded") /\ Found("simulation_succeeded")
      BY <1>3 DEF Viewed, RowsHold
    <2>2. ~Recorded(Shown, "simulation_failed")
      BY <1>0, <2>1 DEF Outcomes
    <2>3. ~Found("simulation_failed")
      BY <2>2 DEF Viewed, RowsHold, AuditEvents
    <2> QED
      BY <2>1, <2>3 DEF SimulationEventsRead, SimulationEvents, Found
  <1>4. view.execution.state \in Ended =>
            executions[Shown].state = view.execution.state \/ recovered
    BY DEF Viewed, RowsHold, Ended
  <1>5. executions[Shown].state \in Ended => Stage(Shown) = executions[Shown].state
    BY DEF Stage, NoExecution, Ended
  <1>6. view.shown = "SIMULATED" =>
            /\ Stage(Shown) = "SUCCEEDED" \/ recovered
            /\ SimulationEventsRead = {"simulation_succeeded"}
    BY <1>3, <1>4, <1>5 DEF Viewed, ViewTyped, ShownRests, Ended
  <1>7. view.shown = "FAILED" => Stage(Shown) = "FAILED" \/ recovered
    BY <1>4, <1>5 DEF Viewed, ShownRests, Ended
  <1>8. view.approval.decision \in Decisions => approvals[Shown] = view.approval
    BY DEF Viewed, RowsHold, NoApproval, Decisions
  <1>9. view.shown = "REJECTED" => Stage(Shown) = "REJECTED"
    <2> SUFFICES ASSUME view.shown = "REJECTED" PROVE Stage(Shown) = "REJECTED"
      OBVIOUS
    <2>1. approvals[Shown] = view.approval /\ approvals[Shown].decision = "REJECTED"
      BY <1>8 DEF Viewed, ShownRests, Decisions
    <2>2. executions[Shown] = NoExecution
      BY <1>0, <2>1 DEF OnlyApprovedActionsRun
    <2> QED
      BY <2>1, <2>2 DEF Stage, NoApproval
  <1>10. view.shown = "APPROVED" => approvals[Shown].decision = "APPROVED"
    BY <1>8 DEF Viewed, ShownRests, Decisions
  \* Only an approval expires.
  <1>11. view.shown = "EXPIRED" => /\ approvals[Shown].decision = "APPROVED"
                                  /\ approvals[Shown].expires_at <= clock
    <2> SUFFICES ASSUME view.shown = "EXPIRED"
                 PROVE  /\ approvals[Shown].decision = "APPROVED"
                        /\ approvals[Shown].expires_at <= clock
      OBVIOUS
    <2>1. /\ approvals[Shown] = view.approval /\ approvals[Shown] # NoApproval
          /\ approvals[Shown].expires_at # NoExpiry
          /\ approvals[Shown].expires_at <= clock
      BY DEF Viewed, RowsHold, ShownRests
    <2>2. approvals[Shown].decision \in Decisions
      BY <1>0, <2>1, ApprovalRow DEF Decided
    <2> QED
      BY <1>0, <2>1, <2>2 DEF RejectionsLast, Decisions
  <1> QED
    BY <1>6, <1>7, <1>9, <1>10, <1>11 DEF ViewsStayTrue, Recorded

\* The page reads beside the workflow and changes none of it.
LEMMA ViewSpecIsSpec == ViewSpec => Spec
  <1>1. [ViewNext]_viewVars => [Next]_vars
    BY DEF ViewNext, viewVars, Read, Derive, Serve, vars
  <1> QED
    BY <1>1, PTL DEF ViewSpec, Spec

\* SIMULATED, FAILED, REJECTED, APPROVED and EXPIRED, as action_payload of
\* adapters/api/app.py derives them from three statements and a clock read after
\* them, are true when they are served and stay true, whatever approve, reject,
\* execute and the recovery commit between the statements.
THEOREM ServedStatesStayTrue == ViewSpec => []ViewsStayTrue
  <1> DEFINE Workflow ==
                 /\ TypeOK /\ RowsOwned /\ Checked
                 /\ Attempts /\ SimulatedAtMostOnce
                 /\ Validated /\ OnlyApprovedActionsRun
                 /\ Accounts /\ SuccessIsEarned
                 /\ RejectionsLast
  <1>1. Init => Workflow
    <2>1. Init => SuccessIsEarned
      BY DEF Init, SuccessIsEarned, NoExecution
    <2> QED
      BY <2>1, InitTypes, InitAttempts, InitGrants, InitAccounts, InitRejections
  <1>2. Workflow /\ [Next]_vars => Workflow'
    BY TypeStep, OwnStep, AttemptStep, GrantStep, AccountStep, EarnedStep,
       RejectionStep
  <1>3. Spec => []Workflow
    <2> HIDE DEF Workflow
    <2> QED
      BY <1>1, <1>2, PTL DEF Spec
  <1>4. Workflow /\ Viewed /\ [ViewNext]_viewVars => Viewed'
    <2> SUFFICES ASSUME Workflow, Viewed, [ViewNext]_viewVars PROVE Viewed'
      OBVIOUS
    <2>1. CASE [Next]_vars /\ UNCHANGED view
      BY <2>1, RowsMove, OutcomesRecorded
    <2>2. CASE Read \/ Derive \/ Serve
      BY <2>2, ViewStep, OutcomesRecorded
    <2>3. UNCHANGED viewVars => UNCHANGED vars /\ UNCHANGED view
      BY DEF viewVars, vars
    <2> QED
      BY <2>1, <2>2, <2>3 DEF ViewNext
  <1>5. Workflow /\ Viewed => ViewsStayTrue
    BY ViewedIsTrue, OutcomesRecorded
  <1> HIDE DEF Workflow
  <1> QED
    BY <1>3, <1>4, <1>5, InitViewed, ViewSpecIsSpec, PTL DEF ViewSpec
=============================================================================
