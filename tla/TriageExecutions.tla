-------------------------- MODULE TriageExecutions --------------------------
(***************************************************************************)
(* The persisted life of triage executions: every concurrent call of       *)
(* TriageOrchestrator.run (application/orchestrator.py), the operator's    *)
(* recovery of stale executions (application/recovery_service.py) in a     *)
(* process of its own, and the database they share.                        *)
(*                                                                         *)
(* A step is what one unit of work reads, or what its commit writes: the   *)
(* code reads, computes and commits without a lock, so other actors may    *)
(* commit between the two.  The advisory loop is reduced to what it leaves *)
(* in the database, tool rows and a decision.  Rows of recommended_actions *)
(* are inserted by the commit that inserts the result and are part of it.  *)
(*                                                                         *)
(* A run is named by the fresh execution id its caller generated.          *)
(***************************************************************************)
EXTENDS Integers, Sequences, FiniteSets

CONSTANTS
    Runs,           \* calls of run(), one fresh execution id each
    Keys,           \* idempotency keys clients send
    MaxIterations,  \* OrchestrationLimits.max_iterations
    MaxEvidence,    \* OrchestrationLimits.max_evidence_items
    StaleAfter,     \* the recovery service's execution threshold, in ticks
    RunBudget,      \* bound: ticks a live run may take; the code has none
    MaxTime,        \* bound: the last clock value
    LastRequest,    \* bound: the last clock value a request arrives at
    MaxFaults       \* bound: failed commits, lost acknowledgements, crashes

ASSUME LimitsAssumption ==
    /\ MaxIterations \in Nat \ {0}
    /\ MaxEvidence \in Nat \ {0}
    /\ StaleAfter \in Nat \ {0}
    /\ RunBudget \in Nat
    /\ MaxTime \in Nat
    /\ LastRequest \in Nat
    /\ MaxFaults \in Nat

VARIABLES
    executions,   \* triage_executions: the row of each execution id
    tools,        \* tool_invocations: each execution's outcomes, in order
    results,      \* triage_results: the row of each execution
    audit,        \* audit_events of each execution, counted per event type
    pc,           \* where each run is
    key,          \* the idempotency key of each run's request
    startedAt,    \* the `now` of each run's _persist_start
    accumulated,  \* each run's evidence: indices of its tool invocations
    decision,     \* each run's policy decision
    loaded,       \* the failure category _persist_final read
    category,     \* the failure category a failing run is to record
    reply,        \* what each run returned
    recovery,     \* the recovery transaction in flight
    clock,
    faults

database == <<executions, tools, results, audit>>
locals == <<key, startedAt, accumulated, decision, loaded, category>>
vars == <<executions, tools, results, audit, pc, key, startedAt, accumulated,
          decision, loaded, category, reply, recovery, clock, faults>>

-----------------------------------------------------------------------------
(* Types *)

Terminal == {"COMPLETED", "NEEDS_REVIEW", "FAILED"}
Finished == {"COMPLETED", "NEEDS_REVIEW"}
States == {"RUNNING"} \cup Terminal

RunFailures == {"START_PERSISTENCE_FAILED", "TOOL_PERSISTENCE_FAILED",
                "FINALIZATION_FAILED"}
Categories == RunFailures \cup {"STALE_EXECUTION", "None"}

Row == [state : States, key : Keys, updated_at : 0..MaxTime,
        failure_category : Categories]
NoRow == [state |-> "ABSENT"]

ToolOutcomes == {"SUCCESS", "DENIED", "FAILED"}

\* "ASSESSED" stands for BENIGN, SUSPICIOUS and MALICIOUS.
Dispositions == {"ASSESSED", "NEEDS_REVIEW"}
Result == [disposition : Dispositions, evidence : SUBSET (1..MaxIterations)]
NoResult == [disposition |-> "ABSENT", evidence |-> {}]
SafeReview == [disposition |-> "NEEDS_REVIEW", evidence |-> {}]

AuditEvents == {"execution_started", "tool_invoked", "policy_enforced",
                "execution_completed", "execution_needs_review",
                "persistence_failed", "stale_execution_recovered"}

\* The table keeps no order of its own.  Readers sort a trail by occurred_at,
\* which recovery sets to the time it read before it listed what to fail: a
\* later commit may sort first.  The order is left out, and nothing rests on it.
Trail == [AuditEvents -> Nat]
NoTrail == [e \in AuditEvents |-> 0]

Reply == [durable : BOOLEAN,
          reason : {"DECIDED", "IDEMPOTENT_REPLAY", "PERSISTENCE_FAILURE"},
          execution : Runs,
          result : Result \cup {NoResult}]
NoReply == [reason |-> "PENDING"]

Working == {"reasoning", "finalizing", "committing"}
Failing == {"failing", "recording"}
Live == {"starting"} \cup Working \cup Failing
Places == {"idle", "done", "crashed"} \cup Live

NoRecovery == [now |-> 0, stale |-> {}, active |-> FALSE]

TypeOK ==
    /\ executions \in [Runs -> Row \cup {NoRow}]
    /\ tools \in [Runs -> Seq(ToolOutcomes)]
    /\ results \in [Runs -> Result \cup {NoResult}]
    /\ audit \in [Runs -> Trail]
    /\ pc \in [Runs -> Places]
    /\ key \in [Runs -> Keys]
    /\ startedAt \in [Runs -> 0..MaxTime]
    /\ accumulated \in [Runs -> SUBSET (1..MaxIterations)]
    /\ decision \in [Runs -> Result]
    /\ loaded \in [Runs -> Categories]
    /\ category \in [Runs -> RunFailures]
    /\ reply \in [Runs -> Reply \cup {NoReply}]
    /\ recovery \in [now : 0..MaxTime, stale : SUBSET Runs, active : BOOLEAN]
    /\ clock \in 0..MaxTime
    /\ faults \in 0..MaxFaults

-----------------------------------------------------------------------------
(* Units of work *)

\* A commit is acknowledged, fails and writes nothing, or is applied while the
\* caller gets an exception (the connection is lost after the commit).
CommitOutcomes == {"ok", "error", "lost"}
Applied(outcome) == outcome # "error"

\* Everything but an acknowledged commit spends the fault budget.
Spend(outcome) ==
    IF outcome = "ok" THEN UNCHANGED faults
                      ELSE faults < MaxFaults /\ faults' = faults + 1

\* Mutant: the unique index covers live executions only.
LiveKeyTaken(k) ==
    \E e \in Runs : executions[e].state = "RUNNING" /\ executions[e].key = k

\* triage_executions.idempotency_key is unique.
KeyTaken(k) == \E e \in Runs : executions[e] # NoRow /\ executions[e].key = k

Exists(r) == executions[r] # NoRow

\* A trail with one more row.
Logged(trail, event) == [trail EXCEPT ![event] = @ + 1]

\* Mutant: a persistence failure answers with the decision nevertheless.
DecisionAnyway(r) == [durable |-> TRUE, reason |-> "DECIDED",
                      execution |-> r, result |-> decision[r]]

\* _persistence_failure
Failure(r) == [durable |-> FALSE, reason |-> "PERSISTENCE_FAILURE",
               execution |-> r, result |-> NoResult]

Goto(r, place) == pc' = [pc EXCEPT ![r] = place]
Answer(r, outcome) == reply' = [reply EXCEPT ![r] = outcome]

\* Mutant: the loop goes on after a tool row it could not store.
FailLater(r, failure) ==
    /\ Goto(r, IF failure = "TOOL_PERSISTENCE_FAILED" THEN "reasoning" ELSE "failing")
    /\ category' = [category EXCEPT ![r] = failure]

\* _record_persistence_failure is the next thing a failed unit of work calls.
FailWith(r, failure) ==
    /\ Goto(r, "failing")
    /\ category' = [category EXCEPT ![r] = failure]

-----------------------------------------------------------------------------
(* A run *)

\* What the placeholder locals of a run that has not been called hold.
Init ==
    /\ executions = [r \in Runs |-> NoRow]
    /\ tools = [r \in Runs |-> <<>>]
    /\ results = [r \in Runs |-> NoResult]
    /\ audit = [r \in Runs |-> NoTrail]
    /\ pc = [r \in Runs |-> "idle"]
    /\ key \in [Runs -> Keys]
    /\ startedAt = [r \in Runs |-> 0]
    /\ accumulated = [r \in Runs |-> {}]
    /\ decision = [r \in Runs |-> SafeReview]
    /\ loaded = [r \in Runs |-> "None"]
    /\ category = [r \in Runs |-> "START_PERSISTENCE_FAILED"]
    /\ reply = [r \in Runs |-> NoReply]
    /\ recovery = NoRecovery
    /\ clock = 0
    /\ faults = 0

\* _find_replay meets an execution with the request's key: whatever its
\* state, it is answered with the result stored for it so far.
Replay(r) ==
    /\ pc[r] = "idle"
    /\ clock <= LastRequest
    /\ \E e \in Runs :
        /\ Exists(e)
        /\ executions[e].key = key[r]
        /\ Answer(r, [durable |-> TRUE, reason |-> "IDEMPOTENT_REPLAY",
                      execution |-> e, result |-> results[e]])
    /\ Goto(r, "done")
    /\ UNCHANGED <<database, locals, recovery, clock, faults>>

\* _find_replay cannot read the database.
ReplayLookupFails(r) ==
    /\ pc[r] = "idle"
    /\ clock <= LastRequest
    /\ Spend("error")
    /\ Answer(r, Failure(r))
    /\ Goto(r, "done")
    /\ UNCHANGED <<database, locals, recovery, clock>>

\* _find_replay finds no execution, _persist_start reads the clock.
Begin(r) ==
    /\ pc[r] = "idle"
    /\ clock <= LastRequest
    /\ ~KeyTaken(key[r])
    /\ startedAt' = [startedAt EXCEPT ![r] = clock]
    /\ Goto(r, "starting")
    /\ UNCHANGED <<database, key, accumulated, decision, loaded, category,
                   reply, recovery, clock, faults>>

\* Mutant: the conflicting insert is retried as if the failure were transient.
StartRetries(r) == pc[r] = "starting" /\ KeyTaken(key[r]) /\ UNCHANGED vars

\* The commit of _persist_start loses against a row with the same key.
StartConflicts(r) ==
    /\ pc[r] = "starting"
    /\ KeyTaken(key[r])
    /\ FailWith(r, "START_PERSISTENCE_FAILED")
    /\ UNCHANGED <<database, key, startedAt, accumulated, decision, loaded,
                   reply, recovery, clock, faults>>

\* The commit of _persist_start: the RUNNING row and its audit event.
PersistStart(r, outcome) ==
    /\ pc[r] = "starting"
    /\ ~KeyTaken(key[r])
    /\ Spend(outcome)
    /\ IF Applied(outcome)
       THEN /\ executions' = [executions EXCEPT ![r] =
                    [state |-> "RUNNING", key |-> key[r],
                     updated_at |-> startedAt[r], failure_category |-> "None"]]
            /\ audit' = [audit EXCEPT ![r] = Logged(@, "execution_started")]
       ELSE UNCHANGED <<executions, audit>>
    /\ IF outcome = "ok"
       THEN Goto(r, "reasoning") /\ UNCHANGED category
       ELSE FailWith(r, "START_PERSISTENCE_FAILED")
    /\ UNCHANGED <<tools, results, key, startedAt, accumulated, decision,
                   loaded, reply, recovery, clock>>

\* One iteration with a tool proposal: the gateway's outcome and the commit of
\* _persist_tool.  Only a successful outcome lets the loop go on, and only
\* while there is room for its evidence.
CallTool(r, status, outcome) ==
    /\ pc[r] = "reasoning"
    /\ Len(tools[r]) < MaxIterations
    /\ Spend(outcome)
    /\ IF Applied(outcome)
       THEN /\ tools' = [tools EXCEPT ![r] = Append(@, status)]
            /\ audit' = [audit EXCEPT ![r] = Logged(@, "tool_invoked")]
       ELSE UNCHANGED <<tools, audit>>
    /\ \/ /\ outcome # "ok"
          /\ FailWith(r, "TOOL_PERSISTENCE_FAILED")
          /\ UNCHANGED <<accumulated, decision>>
       \/ /\ outcome = "ok"
          /\ status = "SUCCESS"
          /\ Cardinality(accumulated[r]) < MaxEvidence
          /\ accumulated' = [accumulated EXCEPT ![r] = @ \cup {Len(tools[r]) + 1}]
          /\ UNCHANGED <<pc, decision, category>>
       \/ /\ outcome = "ok"
          /\ \/ status # "SUCCESS"
             \/ Cardinality(accumulated[r]) >= MaxEvidence
          /\ decision' = [decision EXCEPT ![r] = SafeReview]
          /\ Goto(r, "finalizing")
          /\ UNCHANGED <<accumulated, category>>
    /\ UNCHANGED <<executions, results, key, startedAt, loaded, reply, recovery,
                   clock>>

\* The loop ends without a candidate: deadline, context size, reasoner failure,
\* invalid output, foreign evidence references or the iteration limit.
StopWithoutCandidate(r) ==
    /\ pc[r] = "reasoning"
    /\ decision' = [decision EXCEPT ![r] = SafeReview]
    /\ Goto(r, "finalizing")
    /\ UNCHANGED <<database, key, startedAt, accumulated, loaded, category,
                   reply, recovery, clock, faults>>

\* Mutant: the policy lets every proposed disposition stand.
AsProposed(proposed, cited) == [disposition |-> proposed, evidence |-> cited]

\* The policy lets a disposition other than NEEDS_REVIEW stand only when it
\* cites evidence.
Enforced(proposed, cited) ==
    [disposition |-> IF cited = {} THEN "NEEDS_REVIEW" ELSE proposed,
     evidence |-> cited]

\* A candidate whose references are evidence of this run.
AcceptCandidate(r) ==
    /\ pc[r] = "reasoning"
    /\ Len(tools[r]) < MaxIterations
    /\ \E cited \in SUBSET accumulated[r], proposed \in Dispositions :
        decision' = [decision EXCEPT ![r] = Enforced(proposed, cited)]
    /\ Goto(r, "finalizing")
    /\ UNCHANGED <<database, key, startedAt, accumulated, loaded, category,
                   reply, recovery, clock, faults>>

\* _persist_final loads its execution, in whatever state it finds it.
LoadFinal(r) ==
    /\ pc[r] = "finalizing"
    /\ Exists(r)
    /\ loaded' = [loaded EXCEPT ![r] = executions[r].failure_category]
    /\ Goto(r, "committing")
    /\ UNCHANGED <<database, key, startedAt, accumulated, decision, category,
                   reply, recovery, clock, faults>>

\* Mutants: the terminal state, or its event, follows the evidence.
TerminalByEvidence(result) ==
    IF result.evidence = {} THEN "NEEDS_REVIEW" ELSE "COMPLETED"
EventByEvidence(result) ==
    IF result.evidence = {} THEN "execution_needs_review" ELSE "execution_completed"

TerminalOf(result) ==
    IF result.disposition = "NEEDS_REVIEW" THEN "NEEDS_REVIEW" ELSE "COMPLETED"
TerminalEvent(result) ==
    IF result.disposition = "NEEDS_REVIEW" THEN "execution_needs_review"
                                           ELSE "execution_completed"

\* The commit of _persist_final: result, terminal state and both audit events.
\* The row is updated column by column: a failure category written since it
\* was loaded is overwritten or survives, as replace() re-read it or not.
PersistFinal(r, outcome) ==
    /\ pc[r] = "committing"
    /\ Spend(outcome)
    /\ IF Applied(outcome)
       THEN /\ \E kept \in {loaded[r], executions[r].failure_category} :
                executions' = [executions EXCEPT ![r] =
                    [@ EXCEPT !.state = TerminalOf(decision[r]),
                              !.updated_at = clock,
                              !.failure_category = kept]]
            /\ results' = [results EXCEPT ![r] = decision[r]]
            /\ audit' = [audit EXCEPT ![r] =
                    Logged(Logged(@, "policy_enforced"), TerminalEvent(decision[r]))]
       ELSE UNCHANGED <<executions, results, audit>>
    /\ \/ /\ outcome = "ok"
          /\ Answer(r, [durable |-> TRUE, reason |-> "DECIDED",
                        execution |-> r, result |-> decision[r]])
          /\ Goto(r, "done")
          /\ UNCHANGED category
       \/ /\ outcome # "ok"
          /\ FailWith(r, "FINALIZATION_FAILED")
          /\ UNCHANGED reply
    /\ UNCHANGED <<tools, key, startedAt, accumulated, decision, loaded,
                   recovery, clock>>

\* Mutants: the failure is recorded over whatever the execution became, or
\* without checking that it exists.
RecordsOverAny(r) == Exists(r)
RecordsAlways(r) == r \in Runs

\* _record_persistence_failure records nothing over an execution that is gone
\* or has ended.
Recordable(r) == executions[r].state = "RUNNING"

\* _record_persistence_failure loads the execution.
LoadFailure(r) ==
    /\ pc[r] = "failing"
    /\ \/ /\ Recordable(r)
          /\ Goto(r, "recording")
          /\ UNCHANGED reply
       \/ /\ ~Recordable(r)
          /\ Answer(r, Failure(r))
          /\ Goto(r, "done")
    /\ UNCHANGED <<database, locals, recovery, clock, faults>>

\* The commit of _record_persistence_failure, a best effort.
RecordFailure(r, outcome) ==
    /\ pc[r] = "recording"
    /\ Spend(outcome)
    /\ IF Applied(outcome)
       THEN /\ executions' = [executions EXCEPT ![r] =
                    [@ EXCEPT !.state = "FAILED", !.updated_at = clock,
                              !.failure_category = category[r]]]
            /\ audit' = [audit EXCEPT ![r] = Logged(@, "persistence_failed")]
       ELSE UNCHANGED <<executions, audit>>
    /\ Answer(r, Failure(r))
    /\ Goto(r, "done")
    /\ UNCHANGED <<tools, results, locals, recovery, clock>>

\* The server process dies under a run.
Crash(r) ==
    /\ pc[r] \in Live
    /\ Spend("error")
    /\ Goto(r, "crashed")
    /\ UNCHANGED <<database, locals, reply, recovery, clock>>

-----------------------------------------------------------------------------
(* The operator's recovery command *)

\* Mutants: an inclusive threshold, no test of the state, swapped operands.
StaleInclusive(now) == {r \in Runs : executions[r].state = "RUNNING"
                                     /\ executions[r].updated_at + StaleAfter <= now}
StaleInAnyState(now) == {r \in Runs : Exists(r)
                                      /\ executions[r].updated_at + StaleAfter < now}
StaleSwapped(now) == {r \in Runs : executions[r].state = "RUNNING"
                                   /\ now + StaleAfter < executions[r].updated_at}

\* list_running_before(now - threshold)
Stale(now) == {r \in Runs : executions[r].state = "RUNNING"
                            /\ executions[r].updated_at + StaleAfter < now}

\* recover_stale_executions reads the clock and lists the stale executions.
ListStale ==
    /\ ~recovery.active
    /\ recovery' = [now |-> clock, stale |-> Stale(clock), active |-> TRUE]
    /\ UNCHANGED <<database, pc, locals, reply, clock, faults>>

\* One commit fails every listed execution, in whatever state it is by now.
\* To the caller a lost acknowledgement is an error, to the database a commit.
FailStale(outcome) ==
    /\ recovery.active
    /\ Spend(outcome)
    /\ IF Applied(outcome)
       THEN /\ executions' = [r \in Runs |->
                    IF r \in recovery.stale
                    THEN [executions[r] EXCEPT
                            !.state = "FAILED", !.updated_at = recovery.now,
                            !.failure_category = "STALE_EXECUTION"]
                    ELSE executions[r]]
            /\ audit' = [r \in Runs |->
                    IF r \in recovery.stale
                    THEN Logged(audit[r], "stale_execution_recovered")
                    ELSE audit[r]]
       ELSE UNCHANGED <<executions, audit>>
    /\ recovery' = NoRecovery
    /\ UNCHANGED <<tools, results, pc, locals, reply, clock>>

-----------------------------------------------------------------------------
(* Time: no tick passes while a live run has spent its budget. *)

InBudget(now) == \A r \in Runs : pc[r] \in Live => now <= startedAt[r] + RunBudget

Tick ==
    /\ clock < MaxTime
    /\ InBudget(clock + 1)
    /\ clock' = clock + 1
    /\ UNCHANGED <<database, pc, locals, reply, recovery, faults>>

-----------------------------------------------------------------------------
RunStep(r) ==
    \/ Replay(r)
    \/ ReplayLookupFails(r)
    \/ Begin(r)
    \/ StartConflicts(r)
    \/ \E outcome \in CommitOutcomes : PersistStart(r, outcome)
    \/ \E status \in ToolOutcomes, outcome \in CommitOutcomes :
            CallTool(r, status, outcome)
    \/ StopWithoutCandidate(r)
    \/ AcceptCandidate(r)
    \/ LoadFinal(r)
    \/ \E outcome \in CommitOutcomes : PersistFinal(r, outcome)
    \/ LoadFailure(r)
    \/ \E outcome \in CommitOutcomes : RecordFailure(r, outcome)

Recover == ListStale \/ \E outcome \in CommitOutcomes : FailStale(outcome)

Next ==
    \/ \E r \in Runs : RunStep(r) \/ Crash(r)
    \/ Recover
    \/ Tick

Spec == Init /\ [][Next]_vars

\* Every call of the code on a run's path returns: the reasoner and the tools
\* under a timeout, the database with an answer or an error.  Requests need
\* not arrive.  The operator runs the recovery command again and again, and
\* time passes.
Progress(r) == pc[r] \in Live /\ RunStep(r)

Fairness ==
    /\ \A r \in Runs : WF_vars(Progress(r))
    /\ WF_vars(Recover)
    /\ WF_vars(Tick)

FairSpec == Spec /\ Fairness

-----------------------------------------------------------------------------
(* Safety *)

\* An idempotency key names at most one execution, however many requests that
\* saw no execution with it race to insert one (_find_replay, _persist_start).
OneExecutionPerKey ==
    \A e, f \in Runs :
        Exists(e) /\ Exists(f) /\ executions[e].key = executions[f].key => e = f

\* Never do two runs spend reasoner and tool calls on the same request: past
\* _persist_start a run owns its key, also after lost acknowledgements and
\* after recovery has failed its execution.
OneWorkerPerKey ==
    \A q, r \in Runs :
        pc[q] \in Working /\ pc[r] \in Working /\ key[q] = key[r] => q = r

\* The state an event that ends its execution says it is in.
Announces ==
    [e \in {"execution_completed", "execution_needs_review", "persistence_failed",
           "stale_execution_recovered"} |->
        CASE e = "execution_completed" -> "COMPLETED"
          [] e = "execution_needs_review" -> "NEEDS_REVIEW"
          [] OTHER -> "FAILED"]

\* The states a trail tells of.
Told(trail) ==
    LET ends == {e \in DOMAIN Announces : trail[e] > 0}
    IN  IF ends = {} THEN {"RUNNING"} ELSE {Announces[e] : e \in ends}

\* How often a run has ended its own execution.
OwnEndings(trail) == trail["execution_completed"] + trail["execution_needs_review"]
                        + trail["persistence_failed"]

\* The audit trail accounts for the state column, though a run, its failure
\* record and recovery write both in any order and with acknowledgements lost:
\* an execution was started once, its run has ended it once at most, and it is
\* in a state its trail tells of, RUNNING only if nothing has ended it.  Where
\* the run and recovery both did, the trail may name two states and does not
\* say which of them stands.
AuditExplainsState ==
    \A r \in Runs :
        IF Exists(r)
        THEN /\ audit[r]["execution_started"] = 1
             /\ OwnEndings(audit[r]) <= 1
             /\ executions[r].state \in Told(audit[r])
        ELSE audit[r] = NoTrail

\* A finished execution has a stored result of the matching disposition, and
\* an execution nobody has ended has none (_persist_final is all or nothing).
ResultMatchesState ==
    \A r \in Runs :
        /\ executions[r].state \in Finished =>
                /\ results[r] # NoResult
                /\ results[r].disposition = "NEEDS_REVIEW" <=>
                        executions[r].state = "NEEDS_REVIEW"
        /\ executions[r].state \in {"ABSENT", "RUNNING"} => results[r] = NoResult

\* A stored assessment other than NEEDS_REVIEW cites evidence, all of it tool
\* invocations of its own execution that are stored as successful, and no tool
\* call of that execution was denied or failed: those fail closed.
AssessmentRestsOnStoredEvidence ==
    \A r \in Runs :
        results[r].disposition = "ASSESSED" =>
            /\ results[r].evidence # {}
            /\ results[r].evidence \subseteq 1..Len(tools[r])
            /\ \A i \in 1..Len(tools[r]) : tools[r][i] = "SUCCESS"

\* A reply that carries a result tells what the database holds for an
\* execution of the request's own key, and goes on holding, whatever recovery
\* and failing commits do meanwhile.
DurableRepliesAreStored ==
    \A r \in Runs :
        reply[r].reason \in {"DECIDED", "IDEMPOTENT_REPLAY"} =>
            /\ Exists(reply[r].execution)
            /\ executions[reply[r].execution].key = key[r]
            /\ reply[r].result # NoResult =>
                    results[reply[r].execution] = reply[r].result

-----------------------------------------------------------------------------
(* Steps *)

\* Only the recovery command can turn a finished execution into a failed one:
\* a run that lost the acknowledgement of its final commit does not record a
\* failure over it.
OnlyRecoveryFailsFinished ==
    [][\A r \in Runs :
        executions[r].state \in Finished /\ executions'[r].state = "FAILED" =>
            recovery.active /\ r \in recovery.stale]_vars

\* No step rewrites the row of an execution in a terminal state, its failure
\* category and its time included.  Holds while live runs keep within the
\* recovery threshold.
TerminalStatesAreFinal ==
    [][\A r \in Runs :
        executions[r].state \in Terminal => executions'[r] = executions[r]]_vars

\* The lifecycle of domain/states.py; an execution without a row is PENDING.
Lifecycle == INSTANCE ExecutionLifecycle WITH
    Executions <- Runs,
    state <- [r \in Runs |-> IF Exists(r) THEN executions[r].state ELSE "PENDING"]

\* The services, which never call transition_to, still move executions along
\* its table, while live runs keep within the recovery threshold.
FollowsLifecycle == Lifecycle!Spec

\* What a run leaves of its advisory loop in the database and cites of it.
Loop(r) == INSTANCE AdvisoryLoop WITH
    stored <- tools[r],
    evidence <- accumulated[r],
    open <- pc[r] \in {"idle", "starting", "reasoning"}

\* Every run, whatever its siblings and recovery do to its execution, and
\* whichever of its commits fail or are applied unacknowledged, goes through the
\* abstract loop: no tool row is stored after one that was no success, and
\* evidence is counted only when its row was acknowledged.
RunsFollowLoop ==
    /\ \A r \in Runs : Loop(r)!Init
    /\ [][\A r \in Runs : [Loop(r)!Next]_(Loop(r)!vars)]_vars

-----------------------------------------------------------------------------
(* Liveness *)

\* Every run that got past the replay lookup returns an outcome, unless its
\* process dies.
RunsAnswer == \A r \in Runs : pc[r] \in Live ~> pc[r] \in {"done", "crashed"}

\* No execution stays RUNNING: crashes and failure records that were lost are
\* cleared by the recovery command.
NoExecutionRunsForever ==
    \A r \in Runs : executions[r].state = "RUNNING" ~> executions[r].state \in Terminal

-----------------------------------------------------------------------------
(* What the documentation promises beyond that *)

\* docs/architecture.md: a repeated request returns the already durable result.
ReplayReturnsTheResult ==
    \A r \in Runs : reply[r].reason = "IDEMPOTENT_REPLAY" => reply[r].result # NoResult
=============================================================================
