--------------------------- MODULE ActionWorkflow ---------------------------
(***************************************************************************)
(* The approval and the simulated execution of high-impact actions: every  *)
(* concurrent call of ApprovalService.approve, reject and execute          *)
(* (application/approval_service.py), the operator's recovery of stale     *)
(* simulations (application/recovery_service.py), and the tables           *)
(* approval_decisions, action_executions and audit_events they share.      *)
(*                                                                         *)
(* The actions exist from the start: the final commit of a triage run      *)
(* stored them with the result that requires their approval, and nothing   *)
(* rewrites either, so the checks of catalog, digest, policy version and   *)
(* approval requirement always pass and are not repeated here.  A row of   *)
(* action_executions is reduced to its state and started_at.               *)
(***************************************************************************)
EXTENDS Integers, Sequences, FiniteSets

CONSTANTS
    Calls,             \* calls of approve, reject and execute
    Actions,           \* rows of recommended_actions
    Actors,            \* principals, each with the reason it gives
    Reviewers,         \* those AuthorizationService knows as reviewers
    ApprovalLifetime,  \* approval_lifetime, in ticks
    StaleAfter,        \* the recovery service's action threshold, in ticks
    CallBudget,        \* bound: ticks a live call may take; the code has none
    MaxTime,           \* bound: the last clock value
    LastCall,          \* bound: the last clock value a call arrives at
    MaxFaults          \* bound: database errors, lost acknowledgements, crashes

ASSUME WorkflowAssumption ==
    /\ Reviewers \subseteq Actors
    /\ ApprovalLifetime \in Nat \ {0}
    /\ StaleAfter \in Nat \ {0}
    /\ CallBudget \in Nat
    /\ MaxTime \in Nat
    /\ LastCall \in Nat
    /\ MaxFaults \in Nat

VARIABLES
    approvals,   \* approval_decisions: the row of each action
    executions,  \* action_executions: the row of each action
    audit,       \* audit_events of each action, counted per event type
    simulated,   \* how often the executor was invoked for each action
    request,     \* what each call asks for
    pc,          \* where each call is
    now,         \* the `now` of each call
    code,        \* the reason an execute call is to be denied for
    reply,       \* what each call returned or raised
    recovery,    \* the recovery transaction in flight
    clock,
    faults

database == <<approvals, executions, audit>>
vars == <<approvals, executions, audit, simulated, request, pc, now, code,
          reply, recovery, clock, faults>>

-----------------------------------------------------------------------------
(* Types *)

Decisions == {"APPROVED", "REJECTED"}
Request == [op : Decisions \cup {"EXECUTE"}, action : Actions, actor : Actors]

NoExpiry == -1
Approval == [decision : Decisions, reviewer : Reviewers,
             expires_at : {NoExpiry} \cup (0..(MaxTime + ApprovalLifetime))]
NoApproval == [decision |-> "NONE"]

Ended == {"SUCCEEDED", "FAILED"}
Execution == [state : {"EXECUTING"} \cup Ended, started_at : 0..MaxTime]
NoExecution == [state |-> "NONE"]

AuditEvents == {"approved", "rejected", "execution_denied", "simulation_started",
                "simulation_succeeded", "simulation_failed",
                "stale_simulation_recovered"}

\* As in TriageExecutions, the order that readers get by sorting a trail by
\* occurred_at is not the order of the commits, and is left out.
Trail == [AuditEvents -> Nat]
NoTrail == [e \in AuditEvents |-> 0]

Denials == {"APPROVAL_MISSING", "APPROVAL_REJECTED", "APPROVAL_EXPIRED"}
Replies == Denials \cup {"PENDING", "RECORDED", "DECISION_CONFLICT", "SUCCEEDED",
                         "REVIEWER_INVALID", "EXECUTOR_FAILED",
                         "PERSISTENCE_FAILED", "PERSISTENCE_ERROR"}

Simulating == {"simulating", "succeeding", "failing"}
Live == {"loading", "deciding", "denying", "starting"} \cup Simulating
Places == {"idle", "done", "crashed"} \cup Live

NoRecovery == [now |-> 0, stale |-> {}, active |-> FALSE]

TypeOK ==
    /\ approvals \in [Actions -> Approval \cup {NoApproval}]
    /\ executions \in [Actions -> Execution \cup {NoExecution}]
    /\ audit \in [Actions -> Trail]
    /\ simulated \in [Actions -> Nat]
    /\ request \in [Calls -> Request]
    /\ pc \in [Calls -> Places]
    /\ now \in [Calls -> 0..MaxTime]
    /\ code \in [Calls -> Denials]
    /\ reply \in [Calls -> Replies]
    /\ recovery \in [now : 0..MaxTime, stale : SUBSET Actions, active : BOOLEAN]
    /\ clock \in 0..MaxTime
    /\ faults \in 0..MaxFaults

-----------------------------------------------------------------------------
(* Units of work, as in TriageExecutions *)

CommitOutcomes == {"ok", "error", "lost"}
Applied(outcome) == outcome # "error"
Spend(outcome) ==
    IF outcome = "ok" THEN UNCHANGED faults
                      ELSE faults < MaxFaults /\ faults' = faults + 1

\* Mutant: the unique index on action_executions covers live attempts only.
ExecutingNow(a) == executions[a].state = "EXECUTING"

\* action_id is unique in approval_decisions and in action_executions.
Decided(a) == approvals[a] # NoApproval
Executed(a) == executions[a] # NoExecution

\* Of a call: its action, its answer, its next place.
Subject(c) == request[c].action
Goto(c, place) == pc' = [pc EXCEPT ![c] = place]
Answer(c, outcome) ==
    /\ Goto(c, "done")
    /\ reply' = [reply EXCEPT ![c] = outcome]

\* A trail with one more row.
Logged(trail, event) == [trail EXCEPT ![event] = @ + 1]
Log(a, event) == audit' = [audit EXCEPT ![a] = Logged(@, event)]

-----------------------------------------------------------------------------
Init ==
    /\ approvals = [a \in Actions |-> NoApproval]
    /\ executions = [a \in Actions |-> NoExecution]
    /\ audit = [a \in Actions |-> NoTrail]
    /\ simulated = [a \in Actions |-> 0]
    /\ request \in [Calls -> Request]
    /\ pc = [c \in Calls |-> "idle"]
    /\ now = [c \in Calls |-> 0]
    /\ code = [c \in Calls |-> "APPROVAL_MISSING"]
    /\ reply = [c \in Calls |-> "PENDING"]
    /\ recovery = NoRecovery
    /\ clock = 0
    /\ faults = 0

\* Mutant: no check of the actor.
AnyActor(actor) == actor \in Actors

\* is_authorized_reviewer_id
IsReviewer(actor) == actor \in Reviewers

\* The actor is no reviewer.
Refuse(c) ==
    /\ pc[c] = "idle"
    /\ ~IsReviewer(request[c].actor)
    /\ Answer(c, "REVIEWER_INVALID")
    /\ UNCHANGED <<database, simulated, request, now, code, recovery, clock, faults>>

\* The call reads the clock, before its unit of work begins.
Arrive(c) ==
    /\ pc[c] = "idle"
    /\ clock <= LastCall
    /\ IsReviewer(request[c].actor)
    /\ now' = [now EXCEPT ![c] = clock]
    /\ Goto(c, "loading")
    /\ UNCHANGED <<database, simulated, request, code, reply, recovery, clock, faults>>

\* The database cannot be read.
LoadFails(c) ==
    /\ pc[c] = "loading"
    /\ Spend("error")
    /\ Answer(c, "PERSISTENCE_ERROR")
    /\ UNCHANGED <<database, simulated, request, now, code, recovery, clock>>

-----------------------------------------------------------------------------
(* approve and reject *)

\* Mutant: any recorded decision of the same kind is the caller's own.
SameDecisionOnly(c, approval) == approval.decision = request[c].op

\* The retry of a recorded decision, by the same reviewer for the same reason.
SameDecision(c, approval) ==
    /\ approval.decision = request[c].op
    /\ approval.reviewer = request[c].actor

\* _decide meets a recorded decision.
AnswerDecided(c) ==
    /\ pc[c] = "loading"
    /\ request[c].op \in Decisions
    /\ Decided(Subject(c))
    /\ Answer(c, IF SameDecision(c, approvals[Subject(c)]) THEN "RECORDED"
                                                           ELSE "DECISION_CONFLICT")
    /\ UNCHANGED <<database, simulated, request, now, code, recovery, clock, faults>>

\* _decide meets none.
LoadUndecided(c) ==
    /\ pc[c] = "loading"
    /\ request[c].op \in Decisions
    /\ ~Decided(Subject(c))
    /\ Goto(c, "deciding")
    /\ UNCHANGED <<database, simulated, request, now, code, reply, recovery, clock,
                   faults>>

\* The commit of _decide loses against another decision.
DecisionConflicts(c) ==
    /\ pc[c] = "deciding"
    /\ Decided(Subject(c))
    /\ Answer(c, "PERSISTENCE_ERROR")
    /\ UNCHANGED <<database, simulated, request, now, code, recovery, clock, faults>>

\* The commit of _decide: the decision and its audit event.
Decide(c, outcome) ==
    /\ pc[c] = "deciding"
    /\ ~Decided(Subject(c))
    /\ Spend(outcome)
    /\ IF Applied(outcome)
       THEN /\ approvals' = [approvals EXCEPT ![Subject(c)] =
                    [decision |-> request[c].op, reviewer |-> request[c].actor,
                     expires_at |-> IF request[c].op = "APPROVED"
                                    THEN now[c] + ApprovalLifetime ELSE NoExpiry]]
            /\ Log(Subject(c),
                   IF request[c].op = "APPROVED" THEN "approved" ELSE "rejected")
       ELSE UNCHANGED <<approvals, audit>>
    /\ Answer(c, IF outcome = "ok" THEN "RECORDED" ELSE "PERSISTENCE_ERROR")
    /\ UNCHANGED <<executions, simulated, request, now, code, recovery, clock>>

-----------------------------------------------------------------------------
(* execute *)

\* Mutant: every ended execution is taken for a success.
HasEnded(a) == executions[a].state \in Ended

HasSucceeded(a) == executions[a].state = "SUCCEEDED"

\* execute meets a simulation that has succeeded.
AnswerSucceeded(c) ==
    /\ pc[c] = "loading"
    /\ request[c].op = "EXECUTE"
    /\ HasSucceeded(Subject(c))
    /\ Answer(c, "SUCCEEDED")
    /\ UNCHANGED <<database, simulated, request, now, code, recovery, clock, faults>>

\* Mutant: an expired approval is no obstacle.
DenialsButExpiry(approval, at) ==
    {d \in Denials :
        \/ d = "APPROVAL_MISSING" /\ approval = NoApproval
        \/ d = "APPROVAL_REJECTED" /\ approval.decision = "REJECTED"}

\* Why execute denies an action with this approval: at most one reason.
DenialsOf(approval, at) ==
    {d \in Denials :
        \/ d = "APPROVAL_MISSING" /\ approval = NoApproval
        \/ d = "APPROVAL_REJECTED" /\ approval.decision = "REJECTED"
        \/ d = "APPROVAL_EXPIRED" /\ approval.decision = "APPROVED"
                                  /\ approval.expires_at <= at}

\* execute validates the approval it has loaded at the time it read before.
Validate(c) ==
    /\ pc[c] = "loading"
    /\ request[c].op = "EXECUTE"
    /\ ~HasSucceeded(Subject(c))
    /\ LET denials == DenialsOf(approvals[Subject(c)], now[c])
       IN \/ /\ denials = {}
             /\ Goto(c, "starting")
             /\ UNCHANGED code
          \/ \E d \in denials :
             /\ code' = [code EXCEPT ![c] = d]
             /\ Goto(c, "denying")
    /\ UNCHANGED <<database, simulated, request, now, reply, recovery, clock, faults>>

\* The commit of a denial, which is only audited.
Deny(c, outcome) ==
    /\ pc[c] = "denying"
    /\ Spend(outcome)
    /\ IF Applied(outcome) THEN Log(Subject(c), "execution_denied")
                           ELSE UNCHANGED audit
    /\ Answer(c, IF outcome = "ok" THEN code[c] ELSE "PERSISTENCE_ERROR")
    /\ UNCHANGED <<approvals, executions, simulated, request, now, code, recovery,
                   clock>>

\* Mutant: the conflicting insert is retried as if the failure were transient.
StartRetries(c) == pc[c] = "starting" /\ Executed(Subject(c)) /\ UNCHANGED vars

\* The commit of the start loses against the row of an earlier or concurrent
\* attempt, ended or not: a failed simulation is never started again.
StartConflicts(c) ==
    /\ pc[c] = "starting"
    /\ Executed(Subject(c))
    /\ Answer(c, "PERSISTENCE_ERROR")
    /\ UNCHANGED <<database, simulated, request, now, code, recovery, clock, faults>>

\* The commit of the start: the EXECUTING row and its audit event.
StartSimulation(c, outcome) ==
    /\ pc[c] = "starting"
    /\ ~Executed(Subject(c))
    /\ Spend(outcome)
    /\ IF Applied(outcome)
       THEN /\ executions' = [executions EXCEPT ![Subject(c)] =
                    [state |-> "EXECUTING", started_at |-> now[c]]]
            /\ Log(Subject(c), "simulation_started")
       ELSE UNCHANGED <<executions, audit>>
    /\ IF outcome = "ok" THEN Goto(c, "simulating") /\ UNCHANGED reply
                         ELSE Answer(c, "PERSISTENCE_ERROR")
    /\ UNCHANGED <<approvals, simulated, request, now, code, recovery, clock>>

\* The executor runs outside any transaction and returns or raises.
Simulate(c) ==
    /\ pc[c] = "simulating"
    /\ simulated' = [simulated EXCEPT ![Subject(c)] = @ + 1]
    /\ Goto(c, "succeeding") \/ Goto(c, "failing")
    /\ UNCHANGED <<database, request, now, code, reply, recovery, clock, faults>>

\* Mutant: the success event of an execution that recovery failed is dropped.
EndQuietly(a, state, event) ==
    /\ executions' = [executions EXCEPT ![a].state = state]
    /\ IF executions[a].state = "EXECUTING" THEN Log(a, event) ELSE UNCHANGED audit

\* A commit that ends an execution in the given state, whatever state it is in.
End(a, state, event) ==
    /\ executions' = [executions EXCEPT ![a].state = state]
    /\ Log(a, event)

\* The final commit of execute.
Succeed(c, outcome) ==
    /\ pc[c] = "succeeding"
    /\ Spend(outcome)
    /\ IF Applied(outcome) THEN End(Subject(c), "SUCCEEDED", "simulation_succeeded")
                           ELSE UNCHANGED <<executions, audit>>
    /\ Answer(c, IF outcome = "ok" THEN "SUCCEEDED" ELSE "PERSISTENCE_FAILED")
    /\ UNCHANGED <<approvals, simulated, request, now, code, recovery, clock>>

\* The commit of _finish_failed.
FinishFailed(c, outcome) ==
    /\ pc[c] = "failing"
    /\ Spend(outcome)
    /\ IF Applied(outcome) THEN End(Subject(c), "FAILED", "simulation_failed")
                           ELSE UNCHANGED <<executions, audit>>
    /\ Answer(c, IF outcome = "ok" THEN "EXECUTOR_FAILED" ELSE "PERSISTENCE_ERROR")
    /\ UNCHANGED <<approvals, simulated, request, now, code, recovery, clock>>

\* The server process dies under a call.
Crash(c) ==
    /\ pc[c] \in Live
    /\ Spend("error")
    /\ Goto(c, "crashed")
    /\ UNCHANGED <<database, simulated, request, now, code, reply, recovery, clock>>

-----------------------------------------------------------------------------
(* The operator's recovery command *)

\* Mutants: an inclusive threshold, swapped operands.
StaleInclusive(at) == {a \in Actions : executions[a].state = "EXECUTING"
                                       /\ executions[a].started_at + StaleAfter <= at}
StaleSwapped(at) == {a \in Actions : executions[a].state = "EXECUTING"
                                     /\ at + StaleAfter < executions[a].started_at}

\* list_executing_before(now - threshold)
Stale(at) == {a \in Actions : executions[a].state = "EXECUTING"
                              /\ executions[a].started_at + StaleAfter < at}

\* recover_stale_actions reads the clock and lists the stale executions.
ListStale ==
    /\ ~recovery.active
    /\ recovery' = [now |-> clock, stale |-> Stale(clock), active |-> TRUE]
    /\ UNCHANGED <<database, simulated, request, pc, now, code, reply, clock, faults>>

\* One commit fails every listed execution, in whatever state it is by now.
FailStale(outcome) ==
    /\ recovery.active
    /\ Spend(outcome)
    /\ IF Applied(outcome)
       THEN /\ executions' = [a \in Actions |->
                    IF a \in recovery.stale
                    THEN [executions[a] EXCEPT !.state = "FAILED"]
                    ELSE executions[a]]
            /\ audit' = [a \in Actions |->
                    IF a \in recovery.stale
                    THEN Logged(audit[a], "stale_simulation_recovered")
                    ELSE audit[a]]
       ELSE UNCHANGED <<executions, audit>>
    /\ recovery' = NoRecovery
    /\ UNCHANGED <<approvals, simulated, request, pc, now, code, reply, clock>>

-----------------------------------------------------------------------------
(* Time: no tick passes while a live call has spent its budget. *)

InBudget(at) == \A c \in Calls : pc[c] \in Live => at <= now[c] + CallBudget

Tick ==
    /\ clock < MaxTime
    /\ InBudget(clock + 1)
    /\ clock' = clock + 1
    /\ UNCHANGED <<database, simulated, request, pc, now, code, reply, recovery, faults>>

-----------------------------------------------------------------------------
CallStep(c) ==
    \/ Refuse(c) \/ Arrive(c) \/ LoadFails(c)
    \/ AnswerDecided(c) \/ LoadUndecided(c) \/ DecisionConflicts(c)
    \/ AnswerSucceeded(c) \/ Validate(c) \/ StartConflicts(c) \/ Simulate(c)
    \/ \E outcome \in CommitOutcomes :
        \/ Decide(c, outcome)
        \/ Deny(c, outcome)
        \/ StartSimulation(c, outcome)
        \/ Succeed(c, outcome)
        \/ FinishFailed(c, outcome)

Recover == ListStale \/ \E outcome \in CommitOutcomes : FailStale(outcome)

Next ==
    \/ \E c \in Calls : CallStep(c) \/ Crash(c)
    \/ Recover
    \/ Tick

Spec == Init /\ [][Next]_vars

\* A call that has arrived is served to its end, the operator runs the
\* recovery command again and again, and time passes.
Progress(c) == pc[c] \in Live /\ CallStep(c)

Fairness ==
    /\ \A c \in Calls : WF_vars(Progress(c))
    /\ WF_vars(Recover)
    /\ WF_vars(Tick)

FairSpec == Spec /\ Fairness

-----------------------------------------------------------------------------
(* Safety *)

\* The executor is invoked at most once for an action, however many execute
\* calls race, are retried after an error or follow a recovered attempt.
SimulatedAtMostOnce == \A a \in Actions : simulated[a] <= 1

\* Nothing is executed but what a reviewer approved, at a recorded start time
\* before the recorded expiry of that approval.
OnlyApprovedActionsRun ==
    \A a \in Actions :
        executions[a] # NoExecution =>
            /\ approvals[a].decision = "APPROVED"
            /\ executions[a].started_at < approvals[a].expires_at

\* A decision acknowledged to a reviewer is the one that is stored, with that
\* reviewer as its author: of two racing decisions one is told it failed.
RecordedDecisionsStand ==
    \A c \in Calls :
        reply[c] = "RECORDED" =>
            /\ approvals[Subject(c)].decision = request[c].op
            /\ approvals[Subject(c)].reviewer = request[c].actor

\* No success is inferred: a SUCCEEDED row, or a caller told of success, stands
\* for one invocation of the executor, whose success was audited.
SuccessIsEarned ==
    \A a \in Actions :
        (\/ executions[a].state = "SUCCEEDED"
         \/ \E c \in Calls : Subject(c) = a /\ reply[c] = "SUCCEEDED")
        => /\ simulated[a] = 1
           /\ audit[a]["simulation_succeeded"] = 1

\* Where an action is in its lifecycle.  Expiry is not a stored state.
Stage(a) ==
    IF executions[a] # NoExecution THEN executions[a].state
    ELSE IF approvals[a] # NoApproval THEN approvals[a].decision
    ELSE "PENDING_APPROVAL"

\* The stage an event that ends an execution says its action is in.
Announces ==
    [e \in {"simulation_succeeded", "simulation_failed", "stale_simulation_recovered"} |->
        IF e = "simulation_succeeded" THEN "SUCCEEDED" ELSE "FAILED"]

\* The stages a trail tells of, denials aside.
Told(trail) ==
    LET ends == {e \in DOMAIN Announces : trail[e] > 0}
    IN  IF ends # {} THEN {Announces[e] : e \in ends}
        ELSE IF trail["simulation_started"] > 0 THEN {"EXECUTING"}
        ELSE IF trail["approved"] > 0 THEN {"APPROVED"}
        ELSE IF trail["rejected"] > 0 THEN {"REJECTED"}
        ELSE {"PENDING_APPROVAL"}

\* The audit trail accounts for the stage that approval and execution row put
\* an action in, though three services write them in any order: the action is
\* decided, started and ended by a call once at most each, and is in a stage
\* its trail tells of.  Where a call and recovery both ended it, the trail may
\* name two stages and does not say which of them stands.
AuditExplainsStage ==
    \A a \in Actions :
        /\ audit[a]["approved"] + audit[a]["rejected"] <= 1
        /\ audit[a]["simulation_started"] <= 1
        /\ audit[a]["simulation_succeeded"] + audit[a]["simulation_failed"] <= 1
        /\ Stage(a) \in Told(audit[a])

\* The lifecycle of domain/actions.py.
Lifecycle == INSTANCE ActionLifecycle WITH state <- [a \in Actions |-> Stage(a)]

\* Approval, execution and recovery move actions along its table, while live
\* calls keep within the recovery threshold.
FollowsLifecycle == Lifecycle!Spec

-----------------------------------------------------------------------------
(* Liveness *)

\* Every call that has arrived is answered, unless its process dies.
CallsAreAnswered == \A c \in Calls : pc[c] \in Live ~> pc[c] \in {"done", "crashed"}

\* No action stays EXECUTING: a crash between the start and the final commit,
\* or a final commit that failed, is cleared by the recovery command.
NoActionExecutesForever ==
    \A a \in Actions : executions[a].state = "EXECUTING" ~> executions[a].state \in Ended

-----------------------------------------------------------------------------
(* What the documentation promises beyond that *)

\* docs/security-invariants.md: stale EXECUTING simulation records recover only
\* to FAILED; domain/actions.py: nothing follows FAILED.
FailedStaysFailed ==
    [][\A a \in Actions :
        executions[a].state = "FAILED" => executions'[a].state = "FAILED"]_vars

\* docs/security-invariants.md: an expired approval cannot execute, and
\* execution revalidates the approval immediately before simulation.
ExpiredCannotExecute ==
    [][\A a \in Actions :
        simulated'[a] > simulated[a] => clock < approvals[a].expires_at]_vars
=============================================================================
