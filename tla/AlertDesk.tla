----------------------------- MODULE AlertDesk -----------------------------
(***************************************************************************)
(* Who puts work into the store, and what they are told: clients that      *)
(* ingest alerts (application/alert_service.py), analysts that ask for the *)
(* triage of a stored alert through the API or a page                      *)
(* (adapters/api/app.py), and offline evaluations (evaluation/runner.py),  *)
(* which run the same orchestrator on alerts of their own.                 *)
(*                                                                         *)
(* TriageExecutions has what happens inside a run; here a run is its       *)
(* replay lookup, the commit that starts it and the commit that ends it.   *)
(* A failed run's failure record changes nothing this module tells apart.  *)
(*                                                                         *)
(* An alert is its identifier and its content, of which the payload digest *)
(* is told apart: alerts.payload_digest is unique as well.  SHA-256 is     *)
(* injective: a scenario names its isolated alert.                         *)
(***************************************************************************)
EXTENDS Integers, FiniteSets

CONSTANTS
    Ingests,      \* POST /api/alerts, one for each call
    Requests,     \* POSTs that ask for a triage, one fresh execution id each
    Evaluations,  \* calls of EvaluationRunner.run
    Scenarios,    \* the evaluation suite
    Alerts,       \* identifiers of the alerts clients send
    Keys,         \* idempotency keys clients send
    Contents,     \* what clients send: [digest, text]
    None,         \* an absent value
    MaxCalls,     \* bound: callers that come at all
    MaxFaults     \* bound: failed commits and reads, lost acknowledgements, crashes

Cases == Evaluations \X Scenarios
Runs == Requests \cup Cases          \* calls of TriageOrchestrator.run
Callers == Ingests \cup Requests \cup Evaluations
Ids == Alerts \cup Scenarios

ASSUME DeskAssumption ==
    /\ MaxCalls \in Nat
    /\ MaxFaults \in Nat
    /\ Ingests \cap (Requests \cup Evaluations \cup Cases) = {}
    /\ Requests \cap (Evaluations \cup Cases) = {}
    /\ Evaluations \cap Cases = {}
    /\ Alerts \cap Scenarios = {}
    /\ Keys \cap Runs = {}
    /\ None \notin Ids \cup Keys \cup Runs
    /\ \A c \in Contents : c.digest \notin Scenarios \cup {None}

VARIABLES
    alerts,      \* alerts: the content stored under each identifier
    ingested,    \* audit_events: the alert.ingested events of each identifier
    executions,  \* triage_executions, and whether a result is stored for each
    reports,     \* evaluation_runs with their evaluation_case_results
    pc,          \* where each caller and each run is
    asked,       \* what each ingest or run is about
    met,         \* whether _persist_start has met the alert of each run
    reply,       \* what each ingest or request was told
    outcome,     \* the OrchestrationOutcome of each run
    suite,       \* the scenarios each evaluation runs
    faults

database == <<alerts, ingested, executions, reports>>
vars == <<alerts, ingested, executions, reports, pc, asked, met, reply, outcome, suite,
          faults>>

-----------------------------------------------------------------------------
(* Types *)

\* _isolated_alert: a digest no client sends.
Isolated(s) == [digest |-> s, text |-> s]
Content == Contents \cup {Isolated(s) : s \in Scenarios}
NoAlert == [digest |-> None, text |-> None]

NoRow == [alert |-> None, key |-> None, finished |-> FALSE]
Row == [alert : Ids, key : Keys \cup Runs, finished : BOOLEAN]

Asked == [alert : Ids, content : Content, key : Keys \cup Runs \cup {None}]
NotAsked == [alert |-> None, content |-> NoAlert, key |-> None]

Outcome == [execution : Runs, durable : BOOLEAN, result : BOOLEAN]
NoOutcome == [execution |-> None, durable |-> FALSE, result |-> FALSE]
Case == [scenario : Scenarios, execution : Runs, durable : BOOLEAN]

Replies == {"PENDING", "CREATED", "UNCHANGED", "CONFLICT", "ERROR", "NOT_FOUND"}
Places == {"idle", "storing", "lookup", "loading", "starting", "working", "running",
           "done", "crashed"}

TypeOK ==
    /\ alerts \in [Ids -> Content \cup {NoAlert}]
    /\ ingested \in [Ids -> Nat]
    /\ executions \in [Runs -> Row \cup {NoRow}]
    /\ reports \in [Evaluations -> SUBSET Case]
    /\ pc \in [Callers \cup Runs -> Places]
    /\ asked \in [Ingests \cup Runs -> Asked \cup {NotAsked}]
    /\ met \in [Runs -> BOOLEAN]
    /\ reply \in [Ingests \cup Requests -> Replies]
    /\ outcome \in [Runs -> Outcome \cup {NoOutcome}]
    /\ suite \in [Evaluations -> SUBSET Scenarios]
    /\ faults \in 0..MaxFaults

-----------------------------------------------------------------------------
(* Units of work *)

CommitOutcomes == {"ok", "error", "lost"}
Applied(commit) == commit # "error"

\* Everything but an acknowledged commit spends the fault budget.
Spend(commit) ==
    IF commit = "ok" THEN UNCHANGED faults ELSE faults < MaxFaults /\ faults' = faults + 1

Goto(a, place) == pc' = [pc EXCEPT ![a] = place]

\* Room for one more caller.
Comes(c) == pc[c] = "idle" /\ Cardinality({d \in Callers : pc[d] # "idle"}) < MaxCalls

\* Mutant: the table has no primary key, only the unique digest.
TakenByDigest(a, content) == \E b \in Ids : alerts[b].digest = content.digest

\* What the commit of a new alert fails on: the primary key or the unique digest.
Taken(a, content) ==
    \/ alerts[a] # NoAlert
    \/ \E b \in Ids : alerts[b].digest = content.digest

\* The server is started on what earlier ones left of alerts.
Init ==
    /\ alerts \in [Ids -> Contents \cup {NoAlert}]
    /\ \A s \in Scenarios : alerts[s] = NoAlert
    /\ \A a, b \in Alerts :
           alerts[a].digest = alerts[b].digest => a = b \/ alerts[a] = NoAlert
    /\ ingested = [a \in Ids |-> IF alerts[a] = NoAlert THEN 0 ELSE 1]
    /\ executions = [r \in Runs |-> NoRow]
    /\ reports = [e \in Evaluations |-> {}]
    /\ pc = [a \in Callers \cup Runs |-> "idle"]
    /\ asked = [a \in Ingests \cup Runs |-> NotAsked]
    /\ met = [r \in Runs |-> FALSE]
    /\ reply = [a \in Ingests \cup Requests |-> "PENDING"]
    /\ outcome = [r \in Runs |-> NoOutcome]
    /\ suite = [e \in Evaluations |-> {}]
    /\ faults = 0

-----------------------------------------------------------------------------
(* Ingestion *)

\* ingest looks the identifier up.
Ingest(i, a, content) ==
    /\ Comes(i)
    /\ asked' = [asked EXCEPT ![i] = [alert |-> a, content |-> content, key |-> None]]
    /\ IF alerts[a] = NoAlert
       THEN Goto(i, "storing") /\ UNCHANGED reply
       ELSE /\ Goto(i, "done")
            /\ reply' = [reply EXCEPT ![i] =
                   IF alerts[a] = content THEN "UNCHANGED" ELSE "CONFLICT"]
    /\ UNCHANGED <<database, met, outcome, suite, faults>>

\* The insert breaks a constraint: the error is no AlertConflictError.
StoreConflicts(i) ==
    /\ pc[i] = "storing"
    /\ Taken(asked[i].alert, asked[i].content)
    /\ reply' = [reply EXCEPT ![i] = "ERROR"]
    /\ Goto(i, "done")
    /\ UNCHANGED <<database, asked, met, outcome, suite, faults>>

\* One commit stores the alert and its audit event.
Store(i, commit) ==
    /\ pc[i] = "storing"
    /\ ~Taken(asked[i].alert, asked[i].content)
    /\ Spend(commit)
    /\ IF Applied(commit)
       THEN /\ alerts' = [alerts EXCEPT ![asked[i].alert] = asked[i].content]
            /\ ingested' = [ingested EXCEPT ![asked[i].alert] = @ + 1]
       ELSE UNCHANGED <<alerts, ingested>>
    /\ reply' = [reply EXCEPT ![i] = IF commit = "ok" THEN "CREATED" ELSE "ERROR"]
    /\ Goto(i, "done")
    /\ UNCHANGED <<executions, reports, asked, met, outcome, suite>>

-----------------------------------------------------------------------------
(* Requests for a triage *)

\* Mutant: the page's key is drawn once for the process.
ProcessKey(q) == CHOOSE p \in Requests : TRUE

\* browser_triage draws a fresh key.
FreshKey(q) == q

\* triage_alert and browser_triage read the alert they hand to the orchestrator.
Request(q, a, key) ==
    /\ Comes(q)
    /\ IF alerts[a] = NoAlert
       THEN /\ Goto(q, "done")
            /\ reply' = [reply EXCEPT ![q] = "NOT_FOUND"]
            /\ UNCHANGED asked
       ELSE /\ Goto(q, "lookup")
            /\ asked' = [asked EXCEPT ![q] =
                   [alert |-> a, content |-> alerts[a], key |-> key]]
            /\ UNCHANGED reply
    /\ UNCHANGED <<database, met, outcome, suite, faults>>

ApiRequest(q, a) == \E key \in Keys : Request(q, a, key)
PageRequest(q, a) == Request(q, a, FreshKey(q))

-----------------------------------------------------------------------------
(* Runs of the orchestrator *)

\* run returns.
Return(r, result) ==
    /\ outcome' = [outcome EXCEPT ![r] = result]
    /\ Goto(r, "done")

Failure(r) == [execution |-> r, durable |-> FALSE, result |-> FALSE]

\* _find_replay answers with the execution that holds the key, whatever its alert.
Replay(r) ==
    /\ pc[r] = "lookup"
    /\ \E x \in Runs :
        /\ executions[x] # NoRow
        /\ executions[x].key = asked[r].key
        /\ Return(r, [execution |-> x, durable |-> TRUE, result |-> executions[x].finished])
    /\ UNCHANGED <<database, asked, met, reply, suite, faults>>

\* _find_replay cannot read the database.
LookupFails(r) ==
    /\ pc[r] = "lookup"
    /\ Spend("error")
    /\ Return(r, Failure(r))
    /\ UNCHANGED <<database, asked, met, reply, suite>>

KeyTaken(k) == \E x \in Runs : executions[x] # NoRow /\ executions[x].key = k

LookupMisses(r) ==
    /\ pc[r] = "lookup"
    /\ ~KeyTaken(asked[r].key)
    /\ Goto(r, "loading")
    /\ UNCHANGED <<database, asked, met, reply, outcome, suite, faults>>

\* _persist_start looks the alert up.
LoadAlert(r) ==
    /\ pc[r] = "loading"
    /\ met' = [met EXCEPT ![r] = alerts[asked[r].alert] # NoAlert]
    /\ Goto(r, "starting")
    /\ UNCHANGED <<database, asked, reply, outcome, suite, faults>>

\* What _persist_start's inserts fail on.
StartBlocked(r) ==
    \/ KeyTaken(asked[r].key)
    \/ ~met[r] /\ Taken(asked[r].alert, asked[r].content)

StartConflicts(r) ==
    /\ pc[r] = "starting"
    /\ StartBlocked(r)
    /\ Return(r, Failure(r))
    /\ UNCHANGED <<database, asked, met, reply, suite, faults>>

\* The commit of _persist_start: the execution, and the alert when it was not met,
\* without the audit event that ingestion appends.
Start(r, commit) ==
    /\ pc[r] = "starting"
    /\ ~StartBlocked(r)
    /\ Spend(commit)
    /\ IF Applied(commit)
       THEN /\ alerts' = IF met[r] THEN alerts
                         ELSE [alerts EXCEPT ![asked[r].alert] = asked[r].content]
            /\ executions' = [executions EXCEPT ![r] =
                   [alert |-> asked[r].alert, key |-> asked[r].key, finished |-> FALSE]]
       ELSE UNCHANGED <<alerts, executions>>
    /\ IF commit = "ok" THEN Goto(r, "working") /\ UNCHANGED outcome
                        ELSE Return(r, Failure(r))
    /\ UNCHANGED <<ingested, reports, asked, met, reply, suite>>

\* The commit of _persist_final.
Finish(r, commit) ==
    /\ pc[r] = "working"
    /\ Spend(commit)
    /\ executions' = IF Applied(commit) THEN [executions EXCEPT ![r].finished = TRUE]
                                        ELSE executions
    /\ Return(r, IF commit = "ok"
                 THEN [execution |-> r, durable |-> TRUE, result |-> TRUE]
                 ELSE Failure(r))
    /\ UNCHANGED <<alerts, ingested, reports, asked, met, reply, suite>>

-----------------------------------------------------------------------------
(* Evaluations *)

\* EvaluationRunner.run takes one scenario or the whole suite.
Evaluate(e) ==
    /\ Comes(e)
    /\ \E scenarios \in {Scenarios} \cup {{s} : s \in Scenarios} :
           suite' = [suite EXCEPT ![e] = scenarios]
    /\ Goto(e, "running")
    /\ UNCHANGED <<database, asked, met, reply, outcome, faults>>

\* _run_case, one scenario after the other.
RunCase(e, s) ==
    /\ pc[e] = "running"
    /\ s \in suite[e]
    /\ pc[<<e, s>>] = "idle"
    /\ \A t \in suite[e] : pc[<<e, t>>] \in {"idle", "done"}
    /\ asked' = [asked EXCEPT ![<<e, s>>] =
           [alert |-> s, content |-> Isolated(s), key |-> <<e, s>>]]
    /\ Goto(<<e, s>>, "lookup")
    /\ UNCHANGED <<database, met, reply, outcome, suite, faults>>

\* The cases that run hands to the repository.
Records(e) ==
    {[scenario |-> s, execution |-> outcome[<<e, s>>].execution,
      durable |-> outcome[<<e, s>>].durable] : s \in suite[e]}

Evaluated(e) == pc[e] = "running" /\ \A s \in suite[e] : pc[<<e, s>>] = "done"

\* Mutant: SQLite connections without PRAGMA foreign_keys.
Unchecked(e) == e \in Evaluations

\* evaluation_case_results refers to triage_executions.
References(e) == \A c \in Records(e) : executions[c.execution] # NoRow

\* A case that was never started takes the report of the others with it.
SaveConflicts(e) ==
    /\ Evaluated(e)
    /\ ~References(e)
    /\ Goto(e, "done")
    /\ UNCHANGED <<database, asked, met, reply, outcome, suite, faults>>

\* One commit stores the run and its cases.
Save(e, commit) ==
    /\ Evaluated(e)
    /\ References(e)
    /\ Spend(commit)
    /\ reports' = IF Applied(commit) THEN [reports EXCEPT ![e] = Records(e)] ELSE reports
    /\ Goto(e, "done")
    /\ UNCHANGED <<alerts, ingested, executions, asked, met, reply, outcome, suite>>

-----------------------------------------------------------------------------
Owned(c) == {c} \cup ({c} \X Scenarios)

\* The process under a caller dies, and a case with its evaluation.
Crash(c) ==
    /\ pc[c] \notin {"idle", "done", "crashed"}
    /\ Spend("error")
    /\ pc' = [a \in Callers \cup Runs |->
           IF a \in Owned(c) /\ pc[a] # "done" THEN "crashed" ELSE pc[a]]
    /\ UNCHANGED <<database, asked, met, reply, outcome, suite>>

IngestStep(i) ==
    \/ \E a \in Alerts, content \in Contents : Ingest(i, a, content)
    \/ StoreConflicts(i)
    \/ \E commit \in CommitOutcomes : Store(i, commit)

RunStep(r) ==
    \/ Replay(r) \/ LookupFails(r) \/ LookupMisses(r) \/ LoadAlert(r) \/ StartConflicts(r)
    \/ \E commit \in CommitOutcomes : Start(r, commit) \/ Finish(r, commit)

EvaluationStep(e) ==
    \/ Evaluate(e)
    \/ \E s \in Scenarios : RunCase(e, s)
    \/ SaveConflicts(e)
    \/ \E commit \in CommitOutcomes : Save(e, commit)

Next ==
    \/ \E i \in Ingests : IngestStep(i)
    \/ \E q \in Requests, a \in Alerts : ApiRequest(q, a) \/ PageRequest(q, a)
    \/ \E r \in Runs : RunStep(r)
    \/ \E e \in Evaluations : EvaluationStep(e)
    \/ \E c \in Callers : Crash(c)

Spec == Init /\ [][Next]_vars

-----------------------------------------------------------------------------
(* Properties *)

\* What a client was told of its alert stays true, however many ingests of the
\* identifier or of the same payload race: an acknowledged alert is stored as sent and
\* audited, a conflict is about a different one, and of one alert's ingestion there is
\* one audit event and at most one acknowledged creation.
AcknowledgedAlertsAreStored ==
    /\ \A i \in Ingests :
           LET stored == alerts[asked[i].alert] IN
           /\ reply[i] \in {"CREATED", "UNCHANGED"} => stored = asked[i].content
           /\ reply[i] = "CONFLICT" => stored \notin {NoAlert, asked[i].content}
    /\ \A a \in Alerts : ingested[a] = IF alerts[a] = NoAlert THEN 0 ELSE 1
    /\ \A i, j \in Ingests :
           reply[i] = "CREATED" /\ reply[j] = "CREATED" /\ asked[i].alert = asked[j].alert
               => i = j

\* A durable answer to a request for a triage names a stored execution under the key
\* of the request, and one of another alert only where a client has sent that key for
\* that alert; the content that was triaged is still the one stored.
AnswersConcernTheAlert ==
    \A q \in Requests :
        outcome[q].durable =>
            LET found == executions[outcome[q].execution] IN
            /\ found # NoRow
            /\ found.key = asked[q].key
            /\ alerts[asked[q].alert] = asked[q].content
            /\ found.alert # asked[q].alert =>
                   /\ asked[q].key \in Keys
                   /\ \E p \in Requests :
                          asked[p].key = asked[q].key /\ asked[p].alert = found.alert

\* A stored report has exactly one case for each scenario that was to be run, each with
\* a stored execution of its own that is about the scenario's alert, and a case that is
\* reported durable has a stored result.
ReportsAreComplete ==
    \A e \in Evaluations :
        reports[e] # {} =>
            /\ \A s \in Scenarios :
                   Cardinality({c \in reports[e] : c.scenario = s})
                       = IF s \in suite[e] THEN 1 ELSE 0
            /\ \A c \in reports[e] :
                   /\ executions[c.execution] # NoRow
                   /\ executions[c.execution].alert = c.scenario
                   /\ executions[c.execution].key = <<e, c.scenario>>
                   /\ c.durable => executions[c.execution].finished

-----------------------------------------------------------------------------
(* What the documentation promises beyond that *)

\* docs/architecture.md: duplicate identical alerts are idempotent.  While nothing
\* fails, an ingest of the alert that is stored is not answered with an error.
IdenticalIngestsAreIdempotent ==
    \A i \in Ingests :
        reply[i] = "ERROR" => alerts[asked[i].alert] # asked[i].content
=============================================================================
