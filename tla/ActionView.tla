---------------------------- MODULE ActionView ----------------------------
(***************************************************************************)
(* What the HTTP API shows of one action (action_payload and the action    *)
(* rows of execution_payload in adapters/api/app.py), read while           *)
(* ActionWorkflow goes on.  The workflow state is stored nowhere: it is    *)
(* derived from rows that statements of different moments have read, and   *)
(* from a clock that is read last.                                         *)
(***************************************************************************)
EXTENDS ActionWorkflow

CONSTANT Shown  \* the action that is looked at

ASSUME ShownAssumption == Shown \in Actions

VARIABLE view  \* what has been read so far, and what is shown in the end

viewVars == <<approvals, executions, audit, simulated, request, pc, now, code,
              reply, recovery, clock, faults, view>>

NoView == [statements |-> 0, approval |-> NoApproval, execution |-> NoExecution,
           audit |-> NoTrail, shown |-> "NOTHING"]

\* Mutant: the audit trail is read before the rows it accounts for.
ReadsAuditFirst == <<"audit", "approval", "execution">>

\* The tables, in the order action_payload reads them.
Reads == <<"approval", "execution", "audit">>

Stored == [approval |-> approvals[Shown], execution |-> executions[Shown],
           audit |-> audit[Shown]]

\* The next statement.
Read ==
    /\ view.statements < Len(Reads)
    /\ LET table == Reads[view.statements + 1] IN
       view' = [view EXCEPT !.statements = @ + 1, ![table] = Stored[table]]
    /\ UNCHANGED vars

\* Rejections do not expire.
ApprovalState ==
    IF view.approval = NoApproval THEN "PENDING"
    ELSE IF view.approval.expires_at # NoExpiry /\ view.approval.expires_at <= clock
         THEN "EXPIRED"
    ELSE view.approval.decision

\* An action that is EXECUTING shows the state of its approval.
WorkflowState ==
    CASE view.execution.state = "SUCCEEDED" -> "SIMULATED"
      [] view.execution.state = "FAILED" -> "FAILED"
      [] OTHER -> ApprovalState

\* The clock is read and the state derived.
Derive ==
    /\ view.statements = Len(Reads)
    /\ view.shown = "NOTHING"
    /\ view' = [view EXCEPT !.shown = WorkflowState]
    /\ UNCHANGED vars

\* The response is sent; the reader may look again.
Serve == view.shown # "NOTHING" /\ view' = NoView /\ UNCHANGED vars

ViewNext ==
    \/ Next /\ UNCHANGED view
    \/ Read \/ Derive \/ Serve

ViewSpec == Init /\ view = NoView /\ [][ViewNext]_viewVars /\ Fairness

-----------------------------------------------------------------------------
(* The events that simulation_actor is taken from: of several, the latest, but *)
(* there is at most one *)

SimulationEvents == {"simulation_succeeded", "simulation_failed"}
SimulationEventsRead == {e \in SimulationEvents : view.audit[e] > 0}

\* What the reader is shown stays true for as long as it is looked at, however the
\* rows it was derived from move on and however old each of them is: SIMULATED and
\* FAILED are final unless recovery has failed the action, SIMULATED names the actor of
\* a success, nobody who saw REJECTED sees the action run, and APPROVED or EXPIRED
\* speak of an approval that was given and, for EXPIRED, has run out.
ViewsStayTrue ==
    LET recovered == audit[Shown]["stale_simulation_recovered"] > 0 IN
    /\ view.shown = "SIMULATED" =>
           /\ Stage(Shown) = "SUCCEEDED" \/ recovered
           /\ SimulationEventsRead = {"simulation_succeeded"}
    /\ view.shown = "FAILED" => Stage(Shown) = "FAILED" \/ recovered
    /\ view.shown = "REJECTED" => Stage(Shown) = "REJECTED"
    /\ view.shown \in {"APPROVED", "EXPIRED"} => approvals[Shown].decision = "APPROVED"
    /\ view.shown = "EXPIRED" => approvals[Shown].expires_at <= clock
=============================================================================
