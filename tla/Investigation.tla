---------------------------- MODULE Investigation ----------------------------
(***************************************************************************)
(* The bounded loop of one TriageOrchestrator.run                          *)
(* (application/orchestrator.py) around an untrusted reasoner, with the    *)
(* ToolGateway (application/tool_gateway.py) that every tool proposal has  *)
(* to pass.  Each execution has a ToolExecutionContext of its own, so one  *)
(* run is enough.  The reasoner and the tools run on threads that the loop *)
(* abandons when they are late.                                            *)
(*                                                                         *)
(* Of a tool request the gateway sees the tool's name, whether the         *)
(* arguments are valid and within the size limit, and the entity they      *)
(* name; two requests with the same tool and entity have the same          *)
(* fingerprint.  The registry holds read-only tools only, so the gateway's *)
(* own access check never fires and is left out.                           *)
(***************************************************************************)
EXTENDS Integers, Sequences, FiniteSets

CONSTANTS
    ToolNames,      \* names a reasoner may come up with
    Registered,     \* those in the ToolRegistry
    Entities,       \* entities a request may name
    Scope,          \* those of the alert: EntityScope.keys
    MaxIterations,  \* OrchestrationLimits.max_iterations
    MaxEvidence,    \* OrchestrationLimits.max_evidence_items
    Deadline,       \* OrchestrationLimits.deadline_ms, in ticks
    TotalCalls,     \* GatewayLimits.total_calls
    PerToolCalls,   \* GatewayLimits.per_tool_calls
    ToolTimeout,    \* min(timeout_ms, timeout_cap_ms), in ticks
    CommitTime      \* bound: ticks a unit of work takes; the code has none

ASSUME InvestigationAssumption ==
    /\ Registered \subseteq ToolNames
    /\ Scope \subseteq Entities
    /\ MaxIterations \in Nat \ {0}
    /\ MaxEvidence \in Nat \ {0}
    /\ Deadline \in Nat \ {0}
    /\ TotalCalls \in Nat \ {0}
    /\ PerToolCalls \in Nat \ {0}
    /\ ToolTimeout \in Nat
    /\ CommitTime \in Nat

VARIABLES
    place,        \* where the loop is
    iteration,
    elapsed,      \* ticks since the loop began
    proposal,     \* the tool request in hand
    totalCalls,   \* ToolExecutionContext._total_calls
    perTool,      \* ToolExecutionContext._per_tool_calls
    seen,         \* ToolExecutionContext._seen_calls
    records,      \* ToolExecutionContext.invocation_records
    stored,       \* tool_invocations: how many of the records are stored
    evidence,     \* accumulated: the records that may be cited
    abandoned,    \* threads the loop no longer waits for, by their iteration
    termination   \* why the loop ended

context == <<totalCalls, perTool, seen>>
vars == <<place, iteration, elapsed, proposal, totalCalls, perTool, seen, records,
          stored, evidence, abandoned, termination>>

-----------------------------------------------------------------------------
(* Types *)

Proposal == [tool : ToolNames, valid : BOOLEAN, entity : Entities]
Fingerprint == [tool : ToolNames, entity : Entities]

Refusals == {"TOOL_NOT_FOUND", "INVALID_REQUEST", "OUT_OF_SCOPE",
             "DUPLICATE_REQUEST", "BUDGET_EXCEEDED"}
\* A TimeoutError that the tool itself raises is taken for a timeout.
Answers == {"SUCCESS", "INVALID_ADAPTER_RESULT", "ADAPTER_FAILURE", "TIMEOUT"}
Statuses == Refusals \cup Answers
Record == [tool : ToolNames, entity : Entities, allowed : BOOLEAN,
           status : Statuses, ended : Nat]

Terminations == {"CANDIDATE", "ITERATION_LIMIT", "DEADLINE_EXCEEDED", "CONTEXT_LIMIT",
                 "REASONER_FAILURE", "INVALID_REASONER_OUTPUT",
                 "EVIDENCE_REFERENCE_VIOLATION", "TOOL_REQUEST_DENIED",
                 "TOOL_FAILURE", "PERSISTENCE_FAILURE"}

TypeOK ==
    /\ place \in {"checking", "reasoning", "invoking", "waiting", "storing",
                 "recording", "ended"}
    /\ iteration \in 1..(MaxIterations + 1)
    /\ elapsed \in Nat
    /\ proposal \in Proposal
    /\ totalCalls \in Nat
    /\ perTool \in [Registered -> Nat]
    /\ seen \subseteq [tool : Registered, entity : Scope]
    /\ records \in Seq(Record)
    /\ stored \in 0..Len(records)
    /\ evidence \subseteq 1..Len(records)
    /\ abandoned \subseteq {"reasoner", "tool"} \X (1..MaxIterations)
    /\ termination \in Terminations \cup {"None"}

-----------------------------------------------------------------------------
Init ==
    /\ place = "checking"
    /\ iteration = 1
    /\ elapsed = 0
    /\ proposal \in Proposal
    /\ totalCalls = 0
    /\ perTool = [t \in Registered |-> 0]
    /\ seen = {}
    /\ records = <<>>
    /\ stored = 0
    /\ evidence = {}
    /\ abandoned = {}
    /\ termination = "None"

Terminate(reason) == place' = "ended" /\ termination' = reason

-----------------------------------------------------------------------------
(* The loop and the reasoner *)

\* The limits that stop the loop before it asks the reasoner again.
LimitsReached ==
    IF iteration > MaxIterations THEN {"ITERATION_LIMIT"}
    ELSE IF elapsed >= Deadline THEN {"DEADLINE_EXCEEDED"}
    ELSE {}

StopAtLimit ==
    /\ place = "checking"
    /\ \E limit \in LimitsReached : Terminate(limit)
    /\ UNCHANGED <<iteration, elapsed, proposal, context, records, stored, evidence,
                   abandoned>>

\* The serialized context of alert and evidence exceeds max_context_bytes.
ContextTooLarge ==
    /\ place = "checking"
    /\ LimitsReached = {}
    /\ Terminate("CONTEXT_LIMIT")
    /\ UNCHANGED <<iteration, elapsed, proposal, context, records, stored, evidence,
                   abandoned>>

AskReasoner ==
    /\ place = "checking"
    /\ LimitsReached = {}
    /\ place' = "reasoning"
    /\ UNCHANGED <<iteration, elapsed, proposal, context, records, stored, evidence,
                   abandoned, termination>>

\* Mutant: every iteration grants the reasoner the whole deadline anew.
ReasonsAfresh ==
    /\ place = "reasoning"
    /\ elapsed' \in elapsed..(elapsed + Deadline)

\* The reasoner takes its time, within what the deadline leaves.
Reasons ==
    /\ place = "reasoning"
    /\ elapsed' \in elapsed..Deadline

ProposeTool ==
    /\ Reasons
    /\ proposal' \in Proposal
    /\ place' = "invoking"
    /\ UNCHANGED <<iteration, context, records, stored, evidence, abandoned,
                   termination>>

\* A candidate whose references are, or are not, evidence of this run.
ProposeCandidate ==
    /\ Reasons
    /\ Terminate("CANDIDATE") \/ Terminate("EVIDENCE_REFERENCE_VIOLATION")
    /\ UNCHANGED <<iteration, proposal, context, records, stored, evidence, abandoned>>

\* The reasoner raises, or returns what is no reasoner step.  A TimeoutError of
\* its own is taken for the deadline.
ReasonerFails ==
    /\ Reasons
    /\ \/ Terminate("REASONER_FAILURE")
       \/ Terminate("INVALID_REASONER_OUTPUT")
       \/ Terminate("DEADLINE_EXCEEDED")
    /\ UNCHANGED <<iteration, proposal, context, records, stored, evidence, abandoned>>

\* The deadline passes first: the reasoner's thread is left behind.
ReasonerTimesOut ==
    /\ place = "reasoning"
    /\ elapsed' = Deadline
    /\ abandoned' = abandoned \cup {<<"reasoner", iteration>>}
    /\ Terminate("DEADLINE_EXCEEDED")
    /\ UNCHANGED <<iteration, proposal, context, records, stored, evidence>>

-----------------------------------------------------------------------------
(* ToolGateway.invoke *)

FingerprintOf(p) == [tool |-> p.tool, entity |-> p.entity]

\* Mutants: no scope check, no duplicate check, a budget that admits one more.
RefusalWithoutScope(p) ==
    CASE p.tool \notin Registered -> "TOOL_NOT_FOUND"
      [] ~p.valid -> "INVALID_REQUEST"
      [] FingerprintOf(p) \in seen -> "DUPLICATE_REQUEST"
      [] totalCalls >= TotalCalls -> "BUDGET_EXCEEDED"
      [] perTool[p.tool] >= PerToolCalls -> "BUDGET_EXCEEDED"
      [] OTHER -> "None"
RefusalWithoutDuplicates(p) ==
    CASE p.tool \notin Registered -> "TOOL_NOT_FOUND"
      [] ~p.valid -> "INVALID_REQUEST"
      [] p.entity \notin Scope -> "OUT_OF_SCOPE"
      [] totalCalls >= TotalCalls \/ perTool[p.tool] >= PerToolCalls -> "BUDGET_EXCEEDED"
      [] OTHER -> "None"
RefusalBeyondBudget(p) ==
    CASE p.tool \notin Registered -> "TOOL_NOT_FOUND"
      [] ~p.valid -> "INVALID_REQUEST"
      [] p.entity \notin Scope -> "OUT_OF_SCOPE"
      [] FingerprintOf(p) \in seen -> "DUPLICATE_REQUEST"
      [] totalCalls > TotalCalls \/ perTool[p.tool] > PerToolCalls -> "BUDGET_EXCEEDED"
      [] OTHER -> "None"

\* The first check of the gateway that a proposal fails.
RefusalOf(p) ==
    CASE p.tool \notin Registered -> "TOOL_NOT_FOUND"
      [] ~p.valid -> "INVALID_REQUEST"
      [] p.entity \notin Scope -> "OUT_OF_SCOPE"
      [] FingerprintOf(p) \in seen -> "DUPLICATE_REQUEST"
      [] totalCalls >= TotalCalls -> "BUDGET_EXCEEDED"
      [] perTool[p.tool] >= PerToolCalls -> "BUDGET_EXCEEDED"
      [] OTHER -> "None"

RecordOf(p, allowed, status, ended) ==
    [tool |-> p.tool, entity |-> p.entity, allowed |-> allowed, status |-> status,
     ended |-> ended]

\* A refused call runs nothing and is charged nothing, but is on record.
Refuse ==
    /\ place = "invoking"
    /\ RefusalOf(proposal) # "None"
    /\ records' = Append(records, RecordOf(proposal, FALSE, RefusalOf(proposal), elapsed))
    /\ place' = "storing"
    /\ UNCHANGED <<iteration, elapsed, proposal, context, stored, evidence, abandoned,
                   termination>>

\* An admitted call is charged before its tool starts on a thread of its own.
Dispatch ==
    /\ place = "invoking"
    /\ RefusalOf(proposal) = "None"
    /\ seen' = seen \cup {FingerprintOf(proposal)}
    /\ totalCalls' = totalCalls + 1
    /\ perTool' = [perTool EXCEPT ![proposal.tool] = @ + 1]
    /\ place' = "waiting"
    /\ UNCHANGED <<iteration, elapsed, proposal, records, stored, evidence, abandoned,
                   termination>>

\* The tool answers or raises; its answer passes the response model and the
\* output limit, or does not.
ToolAnswers(status) ==
    /\ place = "waiting"
    /\ elapsed' \in elapsed..(elapsed + ToolTimeout)
    /\ records' = Append(records, RecordOf(proposal, TRUE, status, elapsed'))
    /\ place' = "storing"
    /\ UNCHANGED <<iteration, proposal, context, stored, evidence, abandoned,
                   termination>>

\* The tool is late: its thread is left behind and its answer never looked at.
ToolTimesOut ==
    /\ place = "waiting"
    /\ elapsed' = elapsed + ToolTimeout
    /\ records' = Append(records, RecordOf(proposal, TRUE, "TIMEOUT", elapsed'))
    /\ abandoned' = abandoned \cup {<<"tool", iteration>>}
    /\ place' = "storing"
    /\ UNCHANGED <<iteration, proposal, context, stored, evidence, termination>>

-----------------------------------------------------------------------------
(* _persist_tool and what the loop makes of the call *)

\* Mutant: after a timeout the reasoner may try another call.
VerdictAfterTimeout(record) ==
    IF record.status \in {"SUCCESS", "TIMEOUT"} THEN "None"
    ELSE IF record.allowed THEN "TOOL_FAILURE"
    ELSE "TOOL_REQUEST_DENIED"

\* Why the loop ends after a stored call, if it does.
Verdict(record) ==
    IF record.status = "SUCCESS"
    THEN IF Cardinality(evidence) >= MaxEvidence THEN "CONTEXT_LIMIT" ELSE "None"
    ELSE IF record.allowed THEN "TOOL_FAILURE" ELSE "TOOL_REQUEST_DENIED"

Commits == elapsed' \in elapsed..(elapsed + CommitTime)

\* The row of the call is committed, and the call becomes evidence.
StoreAndGoOn ==
    /\ place = "storing"
    /\ Verdict(records[Len(records)]) = "None"
    /\ Commits
    /\ stored' = Len(records)
    /\ evidence' = evidence \cup {Len(records)}
    /\ iteration' = iteration + 1
    /\ place' = "checking"
    /\ UNCHANGED <<proposal, context, records, abandoned, termination>>

\* The row of the call is committed, and ends the loop.
StoreAndStop ==
    /\ place = "storing"
    /\ Verdict(records[Len(records)]) # "None"
    /\ Commits
    /\ stored' = Len(records)
    /\ Terminate(Verdict(records[Len(records)]))
    /\ UNCHANGED <<iteration, proposal, context, records, evidence, abandoned>>

\* The commit fails, or its acknowledgement is lost: run() is about to give up.
StoreFails ==
    /\ place = "storing"
    /\ Commits
    /\ stored' \in {stored, Len(records)}
    /\ place' = "recording"
    /\ termination' = "PERSISTENCE_FAILURE"
    /\ UNCHANGED <<iteration, proposal, context, records, evidence, abandoned>>

\* _record_persistence_failure has a unit of work of its own, and run() returns
\* whether that commits or not.
RecordFailure ==
    /\ place = "recording"
    /\ Commits
    /\ place' = "ended"
    /\ UNCHANGED <<iteration, proposal, context, records, stored, evidence, abandoned,
                   termination>>

-----------------------------------------------------------------------------
Next ==
    \/ StopAtLimit
    \/ ContextTooLarge
    \/ AskReasoner
    \/ ProposeTool
    \/ ProposeCandidate
    \/ ReasonerFails
    \/ ReasonerTimesOut
    \/ Refuse
    \/ Dispatch
    \/ \E status \in Answers : ToolAnswers(status)
    \/ ToolTimesOut
    \/ StoreAndGoOn
    \/ StoreAndStop
    \/ StoreFails
    \/ RecordFailure

Spec == Init /\ [][Next]_vars

-----------------------------------------------------------------------------
(* Properties *)

Allowed == {i \in 1..Len(records) : records[i].allowed}

\* However a reasoner mixes tools, entities, refused and repeated requests, the
\* calls that reached a tool stay within both budgets of GatewayLimits, those
\* that failed or timed out included.
CallsStayInBudget ==
    /\ Cardinality(Allowed) <= TotalCalls
    /\ \A t \in Registered :
        Cardinality({i \in Allowed : records[i].tool = t}) <= PerToolCalls

\* No tool is called twice for one entity in a run, not even after the first
\* call failed or the answer was lost.
NoCallIsRepeated ==
    \A i, j \in Allowed :
        records[i].tool = records[j].tool /\ records[i].entity = records[j].entity
            => i = j

\* What a candidate may cite is a stored, successful call of a registered tool
\* on an entity of the alert; never the answer of a tool that was abandoned.
EvidenceIsGenuine ==
    \A i \in evidence :
        /\ i <= stored
        /\ records[i].status = "SUCCESS"
        /\ records[i].tool \in Registered
        /\ records[i].entity \in Scope

\* The deadline is checked between iterations only, yet the loop overruns it by
\* no more than one tool call and one unit of work, and by a second one when it
\* has to record that the first failed.
EndsInTime ==
    elapsed <= Deadline + ToolTimeout + CommitTime
                 + (IF termination = "PERSISTENCE_FAILURE" THEN CommitTime ELSE 0)

\* A run leaves at most one thread behind it, and only after a timeout it
\* reports as such: abandoned work does not pile up.
OneThreadLeftBehind ==
    /\ Cardinality(abandoned) <= 1
    /\ abandoned # {} /\ place = "ended" =>
        termination \in {"DEADLINE_EXCEEDED", "TOOL_FAILURE", "PERSISTENCE_FAILURE"}

\* The loop is the abstract one: its outcomes are what is stored of the records.
Outcome(record) ==
    IF record.status = "SUCCESS" THEN "SUCCESS"
    ELSE IF record.allowed THEN "FAILED" ELSE "DENIED"

Loop == INSTANCE AdvisoryLoop WITH
    stored <- [i \in 1..stored |-> Outcome(records[i])],
    open <- place \notin {"recording", "ended"}

\* run()'s loop gathers stored successes only and is closed for good by the
\* first call that was refused, failed, or could not be stored.
IsAdvisoryLoop == Loop!Spec
=============================================================================
