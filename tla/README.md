# Verification of the security triage agent

TLA+ models of `src/security_triage_agent`, their TLC configurations, and
TLAPS proofs. Paths below are relative to `src/security_triage_agent` unless
they begin with `docs/`. `PROJECT.json` maps every definition to the lines it
models and lists runs, mutants, findings, hazards and theorems.

## 1. The system

A service triages security alerts. An untrusted *reasoner* proposes evidence
calls and an assessment; deterministic code bounds what it may do, enforces
policy, stores everything with an audit trail, and lets a human reviewer
approve high-impact actions, which are then executed in simulation.

| Component | State | Operations | Interacts with |
|---|---|---|---|
| Orchestrator `application/orchestrator.py` | locals of a call | `run`: replay lookup, start, bounded loop, policy, finalisation, failure record | gateway, reasoner (thread), policy, database |
| Tool gateway and registry `application/tool_gateway.py` | per-run `ToolExecutionContext`: counters, seen calls, records | `invoke` | evidence tools (thread) |
| Recovery `application/recovery_service.py` | none | `recover_stale_executions`, `recover_stale_actions` (an operator's command, its own process) | database |
| Approvals `application/approval_service.py` | none | `approve`, `reject`, `execute` | executor, authorization, database |
| Persistence `adapters/persistence` | alerts, executions, tool invocations, results, actions, approvals, action executions, audit | units of work: read, add, replace, commit | all services |
| Domain lifecycles `domain/states.py`, `actions.py`, `approvals.py` | none | `transition_to` | approvals and action recovery |
| Policy and catalog `application/policy.py`, `action_catalog.py` | none | `evaluate`, `evaluate_untrusted` | orchestrator |
| Alert ingestion `application/alert_service.py` | none | `ingest` | database |
| Evidence tools, fixtures | immutable data | look-ups | gateway |
| Reasoners `adapters/reasoners` | provider client | `next_step` | orchestrator |
| HTTP API `adapters/api` | CSRF tokens | handlers, read models `execution_payload`, `action_payload` | all services |
| Evaluation `evaluation/` | reports | `EvaluationRunner.run`, `score_case`, `aggregate_scores` | orchestrator, database |
| Start-up, config, logging, migrations | settings, schema | wiring | all |

What is hard here is not the single call but the sharing. The services hold no
lock: each reads in one statement, decides in Python, and commits later.
Several HTTP calls run at once, the recovery command runs in another process,
a commit can be applied while its caller sees an exception, a process can die
between two units of work, and reasoner and tools run on threads that are
abandoned when late. What makes each part correct:

* *Orchestrator*: one execution, and one worker, per idempotency key; a result
  exactly when finished; only stored evidence behind an assessment; a durable
  answer is a stored one; every run answers.
* *Gateway and loop*: budgets, scope and no repetition against any reasoner;
  a refused, failed or unstored call ends the run; bounded overrun.
* *Recovery*: never touches live or finished work; nothing stays `RUNNING` or
  `EXECUTING` for ever.
* *Approvals*: at most one simulation per action, only as approved; recorded
  decisions stand; success is never inferred.
* *Policy*: only permitted actions survive, each bound to an approval; a broken
  rule, and nothing else, overrules the reasoner.
* *Ingestion*: what a client was told of its alert is what is stored; one audit
  event per ingested alert.
* *Read models*: what is shown hangs together and stays true, though its rows
  are read one after the other.
* *Provider's reasoner*: it can cause neither a reference violation nor an
  unknown or ill-parameterised action.
* *Evaluation*: a report is complete, and its scores tell what policy did.
* *Audit*: the trail names every decision, start and end there was, and the
  state is one that it names.

## 2. Modules

| Module | Models | Kind |
|---|---|---|
| `ExecutionLifecycle` | table of `domain/states.py` | abstract specification |
| `ActionLifecycle` | table of `domain/actions.py` | abstract specification |
| `AdvisoryLoop` | what the bounded loop may leave behind | abstract specification |
| `TriageExecutions` | concurrent `run()` calls + execution recovery + database | composition |
| `ActionWorkflow` | concurrent approve/reject/execute + action recovery + database | composition |
| `Investigation` | one loop of `run()` + `ToolGateway.invoke` + threads | composition |
| `ActionCatalog` | the catalog's constructor and initial entries | operators |
| `Policy` | `DeterministicPolicy.evaluate`, `evaluate_untrusted`, validation of `TriageResult` | component |
| `Scoring` | scenario, `score_case`, `aggregate_scores` of the evaluation | operators |
| `Assessment` | `Policy` behind the last turn of `run()` and the provider's `next_step`, `Scoring` in front of it | composition |
| `ExecutionView` | `execution_payload` over `TriageExecutions` | composition |
| `ActionView` | `action_payload` over `ActionWorkflow` | composition |
| `AlertDesk` | ingestion, triage requests and evaluations over one store | composition |
| `MC*` | symmetry sets and instances for TLC | instances |
| `TriageExecutionsProofs`, `TriageRecoveryProofs` | theorems on `TriageExecutions` | proofs |
| `ExecutionViewProofs`, `ActionViewProofs` | theorems on the read models | proofs |
| `ActionWorkflowProofs` | theorems on `ActionWorkflow` | proofs |
| `AlertDeskProofs` | theorems on `AlertDesk` | proofs |
| `InvestigationProofs` | theorems on `Investigation` | proofs |
| `AssessmentProofs` | theorems on `Policy`, the turn around it and `Scoring` | proofs |

Refinements: `TriageExecutions` implements `ExecutionLifecycle` (state column;
no row is `PENDING`) under a pace assumption, and `AdvisoryLoop` once per run;
`Investigation` implements `AdvisoryLoop`, which is what justifies that
`TriageExecutions` reduces the loop to `CallTool`, `AcceptCandidate` and
`StopWithoutCandidate`; `ActionWorkflow` implements `ActionLifecycle` under a
pace assumption.

### TriageExecutions

One step is what one unit of work reads or what its commit writes.

| Code | Action |
|---|---|
| `_find_replay` | `Replay`, `ReplayLookupFails`, and the read of `Begin` |
| `_persist_start` | clock in `Begin`; commit in `PersistStart`, `StartConflicts` |
| a tool iteration and `_persist_tool` | `CallTool` |
| loop exits without / with candidate, policy | `StopWithoutCandidate` / `AcceptCandidate` |
| `_persist_final` | `LoadFinal`, `PersistFinal` |
| `_record_persistence_failure` | `LoadFailure`, `RecordFailure` |
| `recover_stale_executions` | `ListStale`, `FailStale` |
| process death, time | `Crash`, `Tick` |

A commit outcome is `ok`, `error` (nothing written) or `lost` (written, but the
caller gets an exception). Separate read and commit steps are what both
supported databases give: with SQLite the driver opens a transaction at the
first write, with PostgreSQL statements read committed data. A failed *read*
in `_persist_final` behaves as `LoadFinal` and a failed commit. `replace()`
writes only changed columns, and whether it re-reads the row depends on the
session's weak identity map; `PersistFinal` leaves that open with `kept`.
Alert rows exist before `run()` is called (`triage_alert`). Policy is reduced
to the one rule the properties see: without evidence the disposition is
`NEEDS_REVIEW` (`Enforced`; forced reviews for other reasons are among the
proposed dispositions).

A trail is kept as a count per event type, here and in `ActionWorkflow`. The
database stores no order of commits: readers sort by `occurred_at`
(`repositories.py:394`), and recovery stamps its events with the time it read
before its list (`recovery_service.py:52` and `:69`, `:85` and `:107`). If a run
commits its end between that list and recovery's commit, the row says `FAILED`
and the run's own event sorts last. So the properties do not read a state off the
end of a trail. `AuditExplainsState` and `AuditExplainsStage` claim what the
stored rows do support: one start, one decision, and one end by the run or the
call itself at most, and a state that some event of the trail stands for. Where
recovery and a live call both ended something, the trail names both ends and
does not tell which one stands. The model has one recovery command in flight at
a time.

### ActionWorkflow

| Code | Action |
|---|---|
| authorization test, clock | `Refuse`, `Arrive` |
| `_decide` | `AnswerDecided`, `LoadUndecided`, `Decide`, `DecisionConflicts` |
| `execute`, first unit of work | `AnswerSucceeded`, `Validate`, `Deny`, `StartSimulation`, `StartConflicts` |
| the executor | `Simulate` |
| `execute`, last unit of work / `_finish_failed` | `Succeed` / `FinishFailed` |
| `recover_stale_actions` | `ListStale`, `FailStale` |

Rows of this workflow only ever appear or end, so reading approval and
execution in one unit of work equals an atomic read. Reviewers are fixed at
start-up. Actions and results are immutable, so digest, policy-version and
catalog mismatches cannot arise and are left out.

### Investigation

`AskReasoner` to `ReasonerTimesOut` are the reasoner's turn, `Refuse` and
`Dispatch` the gateway's checks (`RefusalOf` keeps their order), `ToolAnswers`
and and `ToolTimesOut` the tool, `StoreAndGoOn`, `StoreAndStop` and `StoreFails`
`_persist_tool` and what follows it, `RecordFailure` the second unit of work of
a run whose call could not be stored. A thread that nobody waits for any more is
known by who left it and in which iteration., `StoreAndStop` and `StoreFails`
`_persist_tool` and what follows it. The reasoner may propose anything: unknown
tools, invalid or oversized arguments, entities outside the alert, repeats.
A `TimeoutError` raised by tool or reasoner is taken for a timeout, as the
code's `except FutureTimeoutError` does. Two arguments naming the same entity
count as the same fingerprint; the registry holds read-only tools only, so
`READ_ONLY_REQUIRED` cannot occur.

### Policy

One evaluation, a step per turn of its loop: `RefusePayload` is
`evaluate_untrusted` on a payload that does not parse, `CheckEvidence` the
minimum-evidence rule, `RejectAction` and `AcceptAction` the two ways through
the loop over the recommendations (`Refusal` keeps the order of the checks),
`Conclude` everything after it: `ForcedReview`, `Codes`, the result `Enforced`
and its validation (`Validates`), which falls back to `SafeReview`.
Identifiers come from a counter, as fresh as the service's UUIDs; a digest is
the material it hashes; the order of reason codes and the texts are left out.
A parameters model is the set of names it demands (none has an optional one,
all forbid others). The evaluation shares no state, so its order with other
runs does not matter; `TriageExecutions` uses its outcome only.

### Assessment and Scoring

`Assessment` puts the orchestrator's last turn around `Policy`.

| Code | Definition |
|---|---|
| the loop hands over a final step | `TakeTurn` |
| `_candidate_references_are_valid` | `ReferencesAreValid`, in `Consider` |
| every other end of the loop | `Terminate`, `EndWith` |
| policy and the outcome's reason code | `Decide` (which is `Policy`'s `Next`) |
| OpenAI `next_step` on a final answer | `ProviderAnswers`: `ConformsToSchema`, `KnownReferences`, `ToDomain` |

The provider names evidence by identifier, which `to_domain` looks up among the
items of the context; any other reasoner hands over items of its own making,
forged ones included. Whatever the provider's answer lacks raises, and the
orchestrator takes it for `REASONER_FAILURE`. `Scoring` has the two scoring
functions field by field; the properties apply them to every decision that
`Policy` reaches, once stored and once as a run that could not be stored.

### ExecutionView and ActionView

The read models issue one statement per table, and with the databases' default
isolation each sees what is committed by then. `Read` is one statement, in the
order the code issues them (`Reads`); in `ActionView`, `Derive` reads the clock
and computes the workflow state, which is stored nowhere; `Serve` sends the
response. Both run with all actions of the module below them. What never
changes (the alert, the catalog, the action itself) is left out.

### AlertDesk

| Code | Action |
|---|---|
| `AlertIngestionService.ingest`, look-up / commit | `Ingest` / `Store`, `StoreConflicts` |
| `triage_alert`, `browser_triage` | `ApiRequest`, `PageRequest` |
| `_find_replay` | `Replay`, `LookupMisses`, `LookupFails` |
| `_persist_start` | `LoadAlert`, `Start`, `StartConflicts` |
| `_persist_final` | `Finish` |
| `EvaluationRunner.run`, `_run_case` | `Evaluate`, `RunCase` |
| `EvaluationRepository.add` | `Save`, `SaveConflicts` |
| process death | `Crash` |

A run is reduced to the units of work that touch alerts and keys; what happens
between start and finish is `TriageExecutions`. The two differ on purpose in one
point: here the alert may be missing when `_persist_start` looks for it, which
is how an evaluation's isolated alert enters the store. `alerts` carries two
unique keys, identifier and payload digest; `Taken` is what an insert breaks.

## 3. Runs

All runs use TLC's breadth-first search of the whole bounded state space.

| Run | Asks | Bounds |
|---|---|---|
| `triage_safety` | is the database truthful under any interleaving and fault? | 2 runs, 2 keys, 2 faults, threshold 1 tick, clock to 2, runs of unlimited pace: 1.7 M states |
| `triage_liveness` | if no live run outlasts the threshold, are terminal states final and the lifecycle kept? do runs answer and executions end? does a page hang together? | 2 runs, 1 key, 2 faults, clock to 3, run budget = threshold = 1, 1 page: 642 k |
| `action_safety` | at most one simulation, only as approved, audited, shown truthfully? | 3 calls, 1 action, 2 reviewers, 1 fault, calls of unlimited pace, 1 reader: 5.7 M |
| `action_liveness` | if no live call outlasts the threshold, is the lifecycle kept? are calls answered, do actions end? | 3 calls that arrive at time 0, 1 reviewer and 1 actor that is none, 1 fault, clock to 3: 219 k |
| `investigation` | does the loop bound an arbitrary reasoner? | 2 tools of 3 names, 3 entities in scope and 1 outside, 3 calls, 2 per tool, 5 iterations, deadline 2: 42 k |
| `assessment` | is the decision the permitted part of the answer, citing this run's evidence, and does its score say so? | initial catalog; 4 action names (1 unregistered), 3 targets, 3 parameter sets, lists of up to 2; 10 citations, sound, forged, duplicated; 4 scenarios: 324 k |
| `desk` | is what clients were told what is stored? | 3 of 2 ingests, 2 requests and 2 evaluations; 2 alerts, 3 contents with 2 digests, 1 key, 2 scenarios, 1 fault: 1.2 M |
| `triage_lifecycle_doc`, `triage_replay_doc`, `action_recovery_doc`, `action_expiry_doc`, `ingest_race_doc` | does a documented promise hold? (violated) | smallest instance that shows it |

Why the bounds suffice. Interference is between one run and recovery, or two
runs on a key, so two runs meet every pair; the proofs lift the safety
properties to any number. Two faults allow a lost final commit followed by a
lost failure record or a crash. With a threshold of 1, the clock must reach 2
for a row to be stale, and 3 for a recovery that follows one. Three calls allow
approve, reject and execute, or three racing `execute`s, on one action; actions
do not interact. The liveness runs are *paced* (budget and threshold are one
tick): that is the assumption under which the lifecycles hold, and the safety
runs, where a call may last for ever, cover the other case. In `investigation`
the per-tool budget (2 of 3 entities) and the total (3) are both reached, and so
is the evidence limit's neighbour; the limit itself is reached in
`triage_safety`, where `MaxEvidence` is 1. In `assessment` every check refuses
some recommendation, and two recommendations give every pair of an accepted or
refused neighbour and two identical ones; the scenarios carry each label of
`evaluations/v1/manifest.json`. In `desk` three callers out of six give two
racing ingests under a third that triages, two requests on one key for two
alerts, or two evaluations of one suite; the store may hold any legal alerts at
the start. Symmetry is used where no liveness is checked; requests are not
interchangeable in `desk`, because a request's fresh key is the request itself.

`CHECK_DEADLOCK FALSE` is set for `investigation`, `assessment` and `desk`
because the loop, the turn and the callers end. In the other runs time or
recovery can always step, or a reader can.

### Fairness

Weak fairness of each run or call that has arrived: reasoner and tools are
awaited under a timeout and the database answers or raises, so each step of a
served call returns. Requests need not arrive and crashes need not happen.
Weak fairness of `Recover` states that the operator runs the command again and
again (it is documented as an operational duty, not scheduled by the code),
and of `Tick` that time passes. Without recovery `NoExecutionRunsForever` and
`NoActionExecutesForever` are false: nothing else ends orphaned work.

### Findings

* **Terminal executions are not immutable.** Recovery fails what it listed,
  whatever it has become; a run finalises what it loaded, whatever recovery did.
  `TerminalStatesAreFinal` needs a live run to take no longer than the recovery
  threshold; the code enforces no such
  relation (the loop's deadline is at most 30 s and the threshold at least 60 s,
  900 s by default, but commits and a suspended process are not bounded).
* **A replay may carry no result** and is nevertheless reported durable.
* **A recovered action can still become `SUCCEEDED`** when its executor is late.
* **An approval can expire before its simulation starts**: what does hold is
  `OnlyApprovedActionsRun`, expiry against the recorded start time.
* **Identical ingests are not idempotent when they race**: both find no alert,
  and the second commit fails on the primary key with an error that is neither
  `created=False` nor a conflict. What does hold is
  `AcknowledgedAlertsAreStored`.

Not a disagreement with any document, but worth knowing: a key that a client
reuses for another alert is answered with the other alert's execution
(`AnswersConcernTheAlert` allows exactly that case); one evaluation case that
was never stored takes the whole report with it (`SaveConflicts`); a review
that a sound candidate concluded with on its own is counted as forced by policy
(`ScoreFollows`), because `ACCEPTED` is among the codes that count.

### Mutants

Definitions whose comment begins "Mutant" are plausible mistakes in the
definition that follows them. For each property `PROJECT.json` names one under
which its run fails.

## 4. Proofs

For every value of the constants (any runs, keys, limits, faults):

| Theorem | States | Rests on |
|---|---|---|
| `TypeCorrect` | `TypeOK` and `RowsOwned` | per-action case split |
| `Idempotency`, `OneWorker` | `OneExecutionPerKey`, `OneWorkerPerKey` | an inserted key was free; a worker owns its row |
| `AuditIsTruthful` | `AuditExplainsState` | `Accounts`, `Footprint` |
| `ResultsMatchStates` | `ResultMatchesState` | `Footprint` |
| `OnlyRecovery` | `OnlyRecoveryFailsFinished` | `RecordsUnfinished` |
| `AssessmentsAreGrounded` | `AssessmentRestsOnStoredEvidence` | `EvidenceInv` |
| `RepliesAreStored` | `DurableRepliesAreStored` | `Undecided` |
| `RunsAreAdvisory` | `RunsFollowLoop` | `LoopSteps` |
| `PromptRunsAreFinal` | `TerminalStatesAreFinal` | `Prompt`, `RunBudget <= StaleAfter` |
| `PromptRunsFollowLifecycle` | `FollowsLifecycle` | the same |

`RowsOwned` says that other tables refer to existing executions and that a run
past its start has one. The lemma `Footprint` classifies what a step can write
to one execution: nothing, a start, a tool row, a finalisation, a failure
record, a stale failure; the safety proofs argue over these six. `Accounts` is
what makes `AuditExplainsState` inductive: a run that may still end its execution,
or record its failure, has not done so before, and an execution without a row
has no trail. A result, once
stored, stays (`ResultsKept`): its run is past deciding, which `Undecided` says.
`AssessmentRestsOnStoredEvidence` alone is not inductive, because the citation
is decided before it is stored: `EvidenceInv` carries the same claim through
`accumulated` and `decision`, and adds that a working run has no unsuccessful
tool row. `OnlyRecovery` needs that a run about to record a failure saw
`RUNNING` and that only recovery can change that meanwhile.

`Prompt` is the invariant of the last two theorems: live runs are within
budget; a `RUNNING` row bears its run's start time; a working run's execution
is `RUNNING`; what recovery has listed is `RUNNING` and has no live run. The
strict threshold is used exactly once, to show that a listed execution has lost
its run. Without `RunBudget <= StaleAfter` that step fails, and the run
`triage_lifecycle_doc` shows why.

About `ActionWorkflow`, for any calls, actions, actors, lifetimes, thresholds
and faults, and, the last theorem apart, calls that last as long as they like:

| Theorem | States | Rests on |
|---|---|---|
| `TypeCorrect` | `TypeOK`, `RowsOwned`, `Checked` | `CallFootprint`, `RowFootprint` |
| `AtMostOneSimulation` | `SimulatedAtMostOnce` | `Attempts` |
| `RunsAreApproved` | `OnlyApprovedActionsRun` | `Validated` |
| `AcknowledgedDecisionsStand` | `RecordedDecisionsStand` | `Stands` |
| `SuccessesAreEarned` | `SuccessIsEarned` | `Attempts`, `Accounts` |
| `AuditIsTruthful` | `AuditExplainsStage` | `Attempts`, `Accounts` |
| `PromptCallsFollowLifecycle` | `FollowsLifecycle` | `Prompt`, `CallBudget <= StaleAfter` |

Two lemmas carry them. `CallFootprint` says what a step may do to one call: it
rests, arrives, proceeds without writing, begins, executes or ends.
`RowFootprint` says what a step may write to the rows of one action: nothing, a
decision, a denial, a start, an end or a stale failure. `SimulatedAtMostOnce`
is not inductive: `Attempts` adds that an invocation comes after the row, that
a call about to invoke finds the count at 0, and that two simulating calls of
one action are the same call, which is what the unique `action_id` gives, ended
rows included. `Validated` carries the check of `execute` over to its commit:
the approval it read cannot change meanwhile (`Stands`), the time it compared
is the one it records. `AuditExplainsStage` is not inductive: that a call ends an
action once rests on the calls, not on the trail. `Accounts` says what the trail
has counted for the rows there are, and that a call which has the executor's
answer still to store has not stored it; `Attempts`, that no second call holds
the action.

The last theorem alone limits how long a call lasts. Its `Prompt` says that live
calls are within budget, that a simulating call still finds its row `EXECUTING`
with the start it recorded (`Holding`), and that what recovery has listed is
`EXECUTING` and nobody's (`StaleAreAbandoned`); it needs `Attempts`, since only
one call can hold a row, and `Validated`, since a start must follow an approval.

About `AlertDesk`, for any numbers of clients, requests, evaluations, scenarios,
alerts, contents, keys and faults:

| Theorem | States | Rests on |
|---|---|---|
| `TypeCorrect` | `TypeOK`, `Owns` | the footprint lemmas |
| `AcknowledgementsHold` | `AcknowledgedAlertsAreStored` | `Unanswered`, `Told` |
| `AnswersAreConcerned` | `AnswersConcernTheAlert` | `OwnedAnswers` |
| `ReportsComplete` | `ReportsAreComplete` | `OwnedReports` |

Four lemmas say what one step does to a run, an ingest, an alert and an
evaluation. `Owns` is the invariant: what a run was asked is what its caller
asks for (`AskedWell`), a row bears the key and alert of the run that inserted
it (`RowsOwned`), an answer names a row under the asked key (`OutcomesOwned`),
and a saved report is made of the answers of its evaluation's own cases
(`Saved`). Both properties about answers follow from it without another
induction, because an evaluation's keys are nobody else's (`KeysAreTheirs`).

About `Investigation`, for any tools, entities, limits and reasoner:

| Theorem | States | Rests on |
|---|---|---|
| `TypeCorrect` | `TypeOK` | `Paced`, `Recorded` |
| `BudgetsHold` | `CallsStayInBudget` | `Charged` |
| `CallsAreDistinct` | `NoCallIsRepeated` | `Marked` |
| `EvidenceStands` | `EvidenceIsGenuine` | `Cited` |
| `OverrunIsBounded` | `EndsInTime` | `Timed` |
| `ThreadsDoNotPileUp` | `OneThreadLeftBehind` | `LeftLast` |
| `LoopIsAdvisory` | `IsAdvisoryLoop` | `StoredKept`, `StoredNext` |

The properties speak of the records of past calls, the gateway of counters and
fingerprints; each invariant ties the two. `Charged`: a counter is the number of
records that reached a tool, and one more while a call is under way. `Marked`:
what reached a tool is among the fingerprints, and the call under way is not
among the records. `Timed` bounds the clock by place: within the deadline when
a step begins, plus a tool's timeout while its answer is stored. `LeftLast`: an
abandoned thread is the last thing that happened, so the loop does not go on.
`Timed` allows a unit of work on top while a call is stored, and another while
its failure is recorded: that is why `EndsInTime` grants `PERSISTENCE_FAILURE`
two.

About `Policy`, `Assessment` and `Scoring`, for every catalog, scope, set of
candidates and suite:

| Theorem | States | Rests on |
|---|---|---|
| `TypeCorrect` | `TypeOK` | `Types` |
| `DiscardsOnlyBroken` | `OnlyBrokenCandidatesAreDiscarded` | `ValidatesIffTraceable` |
| `RecommendationsAnswered` | `EveryRecommendationIsAnswered` | `Answered` |
| `ApprovalsBind` | `ApprovalsBindTheActions` | `Accepted` |
| `ViolationsForce`, `ReasonsComplete` | `ViolationsForceReview`, `ReasonsAreComplete` | `ForcedIffUnsound` |
| `OnlyPermittedActions` | no decision holds an action that is not permitted | `RefusalIsExact`, `Accepted` |
| `DecisionsCiteTheContext` | `AssessmentsCiteTheContext`, with the initial catalog | `Considered`, `Evaluated` |
| `ScoresFollow` | `ScoresFollowTheDecision` | `Audited`, `ClassesAddUp` |

Those about the policy hold of an evaluation by itself (`Spec`) and of the one
that ends a run (`AssessmentSpec`). The invariant `Inv` is that of a loop: the
accepted actions carry the identifiers `1..Len(accepted)`, one approval each,
and are permitted (`Accepted`); there is a reason exactly when a rule was broken
among the recommendations seen (`Reasons`, `Refusals`); each recommendation seen
has its answer at its place (`Answered`), which depends on how many permitted
ones precede it, so that one step moves the place of all that follow. `Audited`
says which codes and approvals a decision may carry, on which the scores rely.

`Considered` says that a candidate that got past the check cites the run's
evidence, and, if it is the provider's, has typed actions (`Looked`);
`SchemasAgree`, the only place where the catalog matters, that the provider's
schema demands what the initial catalog demands; `Evaluated` carries both
through the policy's loop.

`ScoresFollow` covers the report too. That the cells of the confusion matrix add
up to the number of cases is a statement about a fold over a set, which is
recursive underneath; as the library's induction cannot be used, the proof takes
a set of least size for which the fold is wrong (`Least`, `SumsExist`,
`SumUnfolds`, `ClassesAddUp`). The rates are rates only as long as a scenario's
label agrees with the first of its dispositions (`LabelsAgree`), which holds of
the shipped manifest but is validated nowhere; hence it is a hypothesis
inside the property. Everything else in the property needs no hypothesis.

About the read models, for anything the modules below them allow and any time
between two statements:

| Theorem | States | Rests on |
|---|---|---|
| `ServedPagesHangTogether` | `PagesHangTogether` | `PageHolds`, `Grounded` |
| `ServedStatesStayTrue` | `ViewsStayTrue` | `Viewed`, `Outcomes` |

A page is put together from rows of different ages, so both invariants relate
what has been read to what is stored *now*: `PageHolds` says that a state that
was read has its result and its event in the database from then on, and that
each table read later has them too; `RowsHold` that a decision stays, and that
an ended row stays or recovery has failed it. This needs facts that no theorem
on the modules below states. `Grounded`: whatever a run decides cites stored
successes, and a result never comes without its policy event. `Outcomes`, which
follows from `Accounts`: once the trail records how a simulation ended, nobody
simulates the action any more, so that it cannot record both ends; this is what
makes the actor on a page the actor of the success it shows, in whatever order
the trail is read.

Only model-checked: `RunsAnswer`, `NoExecutionRunsForever`, `CallsAreAnswered`
and `NoActionExecutesForever`. Liveness under fairness needs `ENABLED`, which is
out of the prover's reach. Every safety property that a passing run checks has a
theorem. No module declares a `RECURSIVE` operator.

## 5. Plan

Done, in this order: `ExecutionLifecycle`, `TriageExecutions` (the core, as it
owns the results everything else relies on), its proofs, `ActionLifecycle`,
`ActionWorkflow`, `AdvisoryLoop`, `Investigation`, `ActionCatalog`, `Policy`
and its proofs; then `AlertDesk`, `Scoring` and `Assessment`, the two read
models, and the proofs about `ActionWorkflow`, `AlertDesk`, `Investigation` and
the last turn.

Then the proofs about the read models, the answers to recommendations and the
scores, with which every safety property has its theorem.

Next, should the models grow: what recovery audits beside the states (the labels
of its events on the page), and the step lemmas that the liveness properties
rest on, that is, what each scheduled step brings nearer.

## 6. Not modelled

* *Evidence tools and fixtures*: look-ups in immutable data. To the gateway a
  tool is an answer, an exception or a timeout, which `Investigation` has.
* *Prompts, context serialisation, the scripted reasoners*: text. The reasoner
  of `Investigation` proposes anything at all.
* *CSRF, authentication, templates, the index page*: no state that outlives a
  request, and no rule the modelled services rely on.
* *The suite's loader and the printing of reports*: file I/O.
* *Start-up, configuration, runtime, logging*: wiring; the limits it sets are
  the constants of the modules.
* *Migrations*: the unique and foreign keys they create are those the commits
  of the modules fail on.
* *The severity match* of a score: a comparison of two constants, copied.
* *A change of the fixtures between releases*, which could leave an evaluation
  with a stale isolated alert: the scenario's alert is a constant here.
