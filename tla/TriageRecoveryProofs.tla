------------------------ MODULE TriageRecoveryProofs ------------------------
(***************************************************************************)
(* Theorems about TriageExecutions that relate results, tool rows and the  *)
(* recovery command to the states of executions, for every value of the    *)
(* constants; the last section limits the recovery threshold.              *)
(***************************************************************************)
EXTENDS TriageExecutionsProofs

(***************************************************************************)
(* Results and states.                                                     *)
(***************************************************************************)

LEMMA DecisionIsTerminal ==
    ASSUME TypeOK, NEW r \in Runs
    PROVE  /\ decision[r] # NoResult
           /\ TerminalOf(decision[r]) \in Finished
  <1>1. decision[r] \in Result
    BY DEF TypeOK
  <1> QED
    BY <1>1 DEF Result, Dispositions, NoResult, TerminalOf, Finished

\* The state each of the five commits leaves an execution in.
LEMMA WrittenStates ==
    ASSUME TypeOK, RowsOwned, [Next]_vars, NEW r \in Runs
    PROVE  /\ Started(r) => executions[r].state = "ABSENT" /\ executions'[r].state = "RUNNING"
           /\ Finalized(r) => executions'[r].state = TerminalOf(decision[r])
           /\ FailureRecorded(r) \/ StaleFailed(r) => executions'[r].state = "FAILED"
  <1>1. Finalized(r) \/ FailureRecorded(r) \/ StaleFailed(r) => executions[r] \in Row
    BY RowState DEF Finalized, FailureRecorded, StaleFailed, RowsOwned, Working
  <1>2. Finalized(r) => executions'[r].state = TerminalOf(decision[r])
    BY <1>1 DEF Finalized, Row
  <1>3. FailureRecorded(r) => executions'[r].state = "FAILED"
    BY <1>1 DEF FailureRecorded, Row
  <1>4. StaleFailed(r) => executions'[r].state = "FAILED"
    BY <1>1 DEF StaleFailed, Row
  <1>5. Started(r) => executions[r].state = "ABSENT" /\ executions'[r].state = "RUNNING"
    BY DEF Started, RowsOwned, Exists, NoRow
  <1> QED
    BY <1>2, <1>3, <1>4, <1>5

LEMMA ResultStep ==
    TypeOK /\ RowsOwned /\ ResultMatchesState /\ [Next]_vars => ResultMatchesState'
  <1> SUFFICES ASSUME TypeOK, RowsOwned, ResultMatchesState, [Next]_vars,
                      NEW r \in Runs
               PROVE  /\ executions'[r].state \in Finished =>
                            /\ results'[r] # NoResult
                            /\ results'[r].disposition = "NEEDS_REVIEW" <=>
                                    executions'[r].state = "NEEDS_REVIEW"
                      /\ executions'[r].state \in {"ABSENT", "RUNNING"} =>
                            results'[r] = NoResult
    BY DEF ResultMatchesState
  <1>old. /\ executions[r].state \in Finished =>
                /\ results[r] # NoResult
                /\ results[r].disposition = "NEEDS_REVIEW" <=>
                        executions[r].state = "NEEDS_REVIEW"
          /\ executions[r].state \in {"ABSENT", "RUNNING"} => results[r] = NoResult
    BY DEF ResultMatchesState
  <1>1. CASE Untouched(r)
    BY <1>1, <1>old DEF Untouched
  <1>2. CASE Started(r)
    BY <1>2, <1>old, WrittenStates DEF Started, Finished
  <1>3. CASE ToolStored(r)
    BY <1>3, <1>old DEF ToolStored
  <1>4. CASE Finalized(r)
    <2>1. executions'[r].state = TerminalOf(decision[r]) /\ results'[r] = decision[r]
      BY <1>4, WrittenStates DEF Finalized
    <2> QED
      BY <2>1, DecisionIsTerminal DEF Finished, TerminalOf
  <1>5. CASE FailureRecorded(r) \/ StaleFailed(r)
    BY <1>5, WrittenStates DEF Finished
  <1> QED
    BY <1>1, <1>2, <1>3, <1>4, <1>5, Footprint DEF Written

\* A finished execution has the result its state announces and an execution
\* that was never ended has none, through lost acknowledgements and recovery:
\* _persist_final commits result and state together or not at all.
THEOREM ResultsMatchStates == Spec => []ResultMatchesState
  <1>1. Init => ResultMatchesState
    BY DEF Init, ResultMatchesState, NoRow, Finished
  <1> QED
    BY <1>1, InitTypes, TypeStep, RowsStep, ResultStep, PTL DEF Spec

(***************************************************************************)
(* Who may fail a finished execution.                                      *)
(***************************************************************************)

\* A run that is about to record its failure has not finished its execution.
RecordsUnfinished ==
    \A r \in Runs : pc[r] = "recording" => executions[r].state \notin Finished

LEMMA RecordsUnfinishedStep ==
    TypeOK /\ RowsOwned /\ RecordsUnfinished /\ [Next]_vars => RecordsUnfinished'
  <1> SUFFICES ASSUME TypeOK, RowsOwned, RecordsUnfinished, [Next]_vars,
                      NEW r \in Runs, pc'[r] = "recording"
               PROVE  executions'[r].state \notin Finished
    BY DEF RecordsUnfinished
  <1>1. executions[r].state \notin Finished
    BY Moves DEF RecordsUnfinished, Finished
  <1>2. ~Finalized(r)
    BY DEF Finalized
  <1>3. CASE Untouched(r) \/ ToolStored(r)
    BY <1>1, <1>3 DEF Untouched, ToolStored
  <1>4. CASE Started(r) \/ FailureRecorded(r) \/ StaleFailed(r)
    BY <1>4, WrittenStates DEF Finished
  <1> QED
    BY <1>2, <1>3, <1>4, Footprint DEF Written

\* Nothing but the recovery command turns a COMPLETED or NEEDS_REVIEW execution
\* into a FAILED one: _record_persistence_failure never does.
THEOREM OnlyRecovery == Spec => OnlyRecoveryFailsFinished
  <1>1. Init => RecordsUnfinished
    BY DEF Init, RecordsUnfinished
  <1>2. ASSUME TypeOK, RowsOwned, RecordsUnfinished, [Next]_vars, NEW r \in Runs,
               executions[r].state \in Finished, executions'[r].state = "FAILED"
        PROVE  recovery.active /\ r \in recovery.stale
    <2>1. executions'[r] # executions[r]
      BY <1>2 DEF Finished
    <2>2. ~Untouched(r) /\ ~ToolStored(r)
      BY <2>1 DEF Untouched, ToolStored
    <2>3. ~Started(r)
      BY <1>2, WrittenStates DEF Finished
    <2>4. ~Finalized(r)
      BY <1>2, WrittenStates, DecisionIsTerminal DEF Finished
    <2>5. ~FailureRecorded(r)
      BY <1>2 DEF FailureRecorded, RecordsUnfinished
    <2>6. StaleFailed(r)
      BY <1>2, <2>2, <2>3, <2>4, <2>5, Footprint DEF Written
    <2> QED
      BY <2>6 DEF StaleFailed
  <1>3. TypeOK /\ RowsOwned /\ RecordsUnfinished /\ [Next]_vars =>
            [\A r \in Runs :
                executions[r].state \in Finished /\ executions'[r].state = "FAILED" =>
                    recovery.active /\ r \in recovery.stale]_vars
    BY <1>2
  <1> QED
    BY <1>1, <1>3, InitTypes, TypeStep, RowsStep, RecordsUnfinishedStep, PTL
       DEF Spec, OnlyRecoveryFailsFinished

(***************************************************************************)
(* Assessments and evidence.                                               *)
(***************************************************************************)

AllSuccessful(r) == \A i \in 1..Len(tools[r]) : tools[r][i] = "SUCCESS"

\* Evidence that may be cited: stored invocations of an untroubled execution.
Citable(r, evidence) == evidence \subseteq 1..Len(tools[r]) /\ AllSuccessful(r)

Sound(r, result) ==
    result.disposition = "ASSESSED" =>
        result.evidence # {} /\ Citable(r, result.evidence)

\* The tool rows of a run at work are exactly the evidence it may cite, its
\* decision is sound, and its result is not stored yet.
EvidenceInv ==
    \A r \in Runs :
        /\ pc[r] \in {"idle", "starting"} => tools[r] = <<>> /\ accumulated[r] = {}
        /\ pc[r] = "reasoning" => Citable(r, accumulated[r])
        /\ pc[r] \in {"finalizing", "committing"} => Sound(r, decision[r])
        /\ pc[r] \in {"idle", "starting"} \cup Working => results[r] = NoResult
        /\ Sound(r, results[r])

LEMMA EvidenceIsAssessment == EvidenceInv => AssessmentRestsOnStoredEvidence
  BY DEF EvidenceInv, Sound, Citable, AllSuccessful, AssessmentRestsOnStoredEvidence

\* What a step keeps of the run it does not advance.
LEMMA OtherRuns ==
    ASSUME TypeOK, [Next]_vars, NEW r \in Runs,
           ~(RunStep(r) \/ Crash(r))
    PROVE  /\ tools'[r] = tools[r]
           /\ results'[r] = results[r]
           /\ pc'[r] = pc[r]
           /\ startedAt'[r] = startedAt[r]
           /\ accumulated'[r] = accumulated[r]
           /\ decision'[r] = decision[r]
  <1>0. /\ tools \in [Runs -> Seq(ToolOutcomes)]
        /\ results \in [Runs -> Result \cup {NoResult}]
        /\ pc \in [Runs -> Places]
        /\ startedAt \in [Runs -> 0..MaxTime]
        /\ accumulated \in [Runs -> SUBSET (1..MaxIterations)]
        /\ decision \in [Runs -> Result]
    BY DEF TypeOK
  <1>1. ASSUME NEW q \in Runs, q # r, RunStep(q) \/ Crash(q)
        PROVE  /\ tools'[r] = tools[r]
               /\ results'[r] = results[r]
               /\ pc'[r] = pc[r]
               /\ startedAt'[r] = startedAt[r]
               /\ accumulated'[r] = accumulated[r]
               /\ decision'[r] = decision[r]
    <2>1. CASE \/ Replay(q) \/ ReplayLookupFails(q) \/ Begin(q) \/ StartConflicts(q)
               \/ LoadFinal(q) \/ LoadFailure(q) \/ Crash(q)
               \/ StopWithoutCandidate(q) \/ AcceptCandidate(q)
      BY <1>0, <1>1, <2>1 DEF Replay, ReplayLookupFails, Begin, StartConflicts,
         LoadFinal, LoadFailure, Crash, StopWithoutCandidate, AcceptCandidate,
         FailWith, Goto, database, locals
    <2>2. ASSUME NEW o \in CommitOutcomes, PersistStart(q, o) \/ RecordFailure(q, o)
          PROVE  /\ tools' = tools /\ results' = results /\ startedAt' = startedAt
                 /\ accumulated' = accumulated /\ decision' = decision
                 /\ pc'[r] = pc[r]
      BY <1>0, <1>1, <2>2 DEF PersistStart, RecordFailure, FailWith, Goto, locals
    <2>3. ASSUME NEW o \in CommitOutcomes, PersistFinal(q, o)
          PROVE  /\ tools' = tools /\ startedAt' = startedAt
                 /\ accumulated' = accumulated /\ decision' = decision
                 /\ pc'[r] = pc[r] /\ results'[r] = results[r]
      BY <1>0, <1>1, <2>3 DEF PersistFinal, FailWith, Goto
    <2>4. ASSUME NEW s \in ToolOutcomes, NEW o \in CommitOutcomes, CallTool(q, s, o)
          PROVE  /\ results' = results /\ startedAt' = startedAt
                 /\ tools'[r] = tools[r] /\ pc'[r] = pc[r]
                 /\ accumulated'[r] = accumulated[r] /\ decision'[r] = decision[r]
      BY <1>0, <1>1, <2>4 DEF CallTool, FailWith, Goto
    <2> QED
      BY <1>1, <2>1, <2>2, <2>3, <2>4 DEF RunStep
  <1>2. CASE Recover \/ Tick \/ UNCHANGED vars
    BY <1>2 DEF Recover, ListStale, FailStale, Tick, vars, database, locals
  <1> QED
    BY <1>1, <1>2 DEF Next

LEMMA EvidenceStep == TypeOK /\ EvidenceInv /\ [Next]_vars => EvidenceInv'
  <1> SUFFICES ASSUME TypeOK, EvidenceInv, [Next]_vars, NEW r \in Runs
               PROVE  /\ pc'[r] \in {"idle", "starting"} =>
                            tools'[r] = <<>> /\ accumulated'[r] = {}
                      /\ pc'[r] = "reasoning" => Citable(r, accumulated[r])'
                      /\ pc'[r] \in {"finalizing", "committing"} =>
                            Sound(r, decision[r])'
                      /\ pc'[r] \in {"idle", "starting"} \cup Working =>
                            results'[r] = NoResult
                      /\ Sound(r, results[r])'
    BY DEF EvidenceInv
  <1> DEFINE Goal ==
                      /\ pc'[r] \in {"idle", "starting"} =>
                            tools'[r] = <<>> /\ accumulated'[r] = {}
                      /\ pc'[r] = "reasoning" => Citable(r, accumulated[r])'
                      /\ pc'[r] \in {"finalizing", "committing"} =>
                            Sound(r, decision[r])'
                      /\ pc'[r] \in {"idle", "starting"} \cup Working =>
                            results'[r] = NoResult
                      /\ Sound(r, results[r])'
  <1>0. /\ tools \in [Runs -> Seq(ToolOutcomes)]
        /\ results \in [Runs -> Result \cup {NoResult}]
        /\ pc \in [Runs -> Places]
        /\ accumulated \in [Runs -> SUBSET (1..MaxIterations)]
        /\ decision \in [Runs -> Result]
    BY DEF TypeOK
  <1>old. /\ pc[r] \in {"idle", "starting"} => tools[r] = <<>> /\ accumulated[r] = {}
          /\ pc[r] = "reasoning" => Citable(r, accumulated[r])
          /\ pc[r] \in {"finalizing", "committing"} => Sound(r, decision[r])
          /\ pc[r] \in {"idle", "starting"} \cup Working => results[r] = NoResult
          /\ Sound(r, results[r])
    BY DEF EvidenceInv
  <1>same. ASSUME tools'[r] = tools[r], results'[r] = results[r],
                  accumulated'[r] = accumulated[r]
           PROVE  /\ Citable(r, accumulated[r])' <=> Citable(r, accumulated[r])
                  /\ Sound(r, results[r])' <=> Sound(r, results[r])
                  /\ decision'[r] = decision[r] =>
                        (Sound(r, decision[r])' <=> Sound(r, decision[r]))
    BY <1>same DEF Citable, AllSuccessful, Sound
  <1>1. CASE ~(RunStep(r) \/ Crash(r))
    BY <1>1, <1>same, <1>old, OtherRuns
  \* Steps that leave the tool rows, the result and the evidence alone.
  <1>2. CASE \/ Replay(r) \/ ReplayLookupFails(r) \/ Begin(r) \/ StartConflicts(r)
             \/ LoadFinal(r) \/ LoadFailure(r) \/ Crash(r)
    <2>1. tools' = tools /\ results' = results /\ accumulated' = accumulated
          /\ decision' = decision
      BY <1>2 DEF Replay, ReplayLookupFails, Begin, StartConflicts, LoadFinal,
         LoadFailure, Crash, database, locals
    <2>2. \/ pc[r] = "idle" /\ pc'[r] = "starting"
          \/ pc[r] = "finalizing" /\ pc'[r] = "committing"
          \/ pc'[r] \in {"done", "crashed", "failing", "recording"}
      BY <1>0, <1>2 DEF Replay, ReplayLookupFails, Begin, StartConflicts, LoadFinal,
         LoadFailure, Crash, FailWith, Goto
    <2> QED
      BY <2>1, <2>2, <1>old, <1>same DEF Working
  <1>3. ASSUME NEW o \in CommitOutcomes, PersistStart(r, o)
        PROVE  Goal
    <2>1. /\ tools' = tools /\ results' = results /\ accumulated' = accumulated
          /\ decision' = decision /\ pc[r] = "starting"
      BY <1>3 DEF PersistStart
    <2>2. pc'[r] \in {"reasoning", "failing"}
      BY <1>0, <1>3 DEF PersistStart, FailWith, Goto
    <2>3. Citable(r, accumulated[r])
      BY <2>1, <1>old DEF Citable, AllSuccessful
    <2> QED
      BY <2>1, <2>2, <2>3, <1>old, <1>same DEF Working
  <1>4. ASSUME NEW s \in ToolOutcomes, NEW o \in CommitOutcomes, CallTool(r, s, o)
        PROVE  Goal
    <2>1. pc[r] = "reasoning" /\ results' = results
      BY <1>4 DEF CallTool
    <2>2. results'[r] = NoResult
      BY <2>1, <1>old DEF Working
    <2>3. CASE o # "ok"
      <3>1. pc'[r] = "failing"
        BY <1>0, <1>4, <2>3 DEF CallTool, FailWith, Goto
      <3> QED
        BY <2>2, <3>1 DEF Working, Sound, NoResult
    <2>4. CASE /\ o = "ok" /\ s = "SUCCESS"
               /\ Cardinality(accumulated[r]) < MaxEvidence
               /\ accumulated' =
                    [accumulated EXCEPT ![r] = @ \cup {Len(tools[r]) + 1}]
               /\ UNCHANGED <<pc, decision, category>>
      <3>1. tools' = [tools EXCEPT ![r] = Append(@, s)]
        BY <1>4, <2>4 DEF CallTool, Applied
      <3>2. tools'[r] = Append(tools[r], s) /\ tools[r] \in Seq(ToolOutcomes)
        BY <1>0, <3>1
      <3>3. accumulated'[r] = accumulated[r] \cup {Len(tools[r]) + 1}
        BY <1>0, <2>4
      <3>4. accumulated[r] \subseteq 1..Len(tools[r])
            /\ \A i \in 1..Len(tools[r]) : tools[r][i] = "SUCCESS"
        BY <2>1, <1>old DEF Citable, AllSuccessful
      <3>5. Len(tools[r]) \in Nat /\ Len(tools'[r]) = Len(tools[r]) + 1
        BY <3>2
      <3>6. accumulated'[r] \subseteq 1..Len(tools'[r])
        BY <3>3, <3>4, <3>5
      <3>7. \A i \in 1..Len(tools'[r]) : tools'[r][i] = "SUCCESS"
        BY <2>4, <3>2, <3>4
      <3>8. Citable(r, accumulated[r])'
        BY <3>6, <3>7 DEF Citable, AllSuccessful
      <3>9. pc'[r] = "reasoning"
        BY <2>1, <2>4
      <3> QED
        BY <2>2, <3>8, <3>9 DEF Sound, NoResult
    <2>5. CASE /\ o = "ok"
               /\ decision' = [decision EXCEPT ![r] = SafeReview]
               /\ Goto(r, "finalizing")
      <3>1. decision'[r] = SafeReview /\ pc'[r] = "finalizing"
        BY <1>0, <2>5 DEF Goto
      <3> QED
        BY <2>2, <3>1 DEF Sound, NoResult, SafeReview
    <2> QED
      BY <1>4, <2>3, <2>4, <2>5 DEF CallTool
  <1>5. CASE StopWithoutCandidate(r)
    <2>1. pc[r] = "reasoning" /\ tools' = tools /\ results' = results
      BY <1>5 DEF StopWithoutCandidate, database
    <2>2. decision'[r] = SafeReview /\ pc'[r] = "finalizing"
      BY <1>0, <1>5 DEF StopWithoutCandidate, Goto
    <2>3. results'[r] = NoResult
      BY <2>1, <1>old DEF Working
    <2> QED
      BY <2>2, <2>3 DEF Sound, NoResult, SafeReview
  <1>6. CASE AcceptCandidate(r)
    <2>1. /\ pc[r] = "reasoning" /\ tools' = tools /\ results' = results
      BY <1>6 DEF AcceptCandidate, database
    <2>2. pc'[r] = "finalizing"
      BY <1>0, <1>6 DEF AcceptCandidate, Goto
    <2>3. results'[r] = NoResult
      BY <2>1, <1>old DEF Working
    <2>4. PICK cited \in SUBSET accumulated[r], proposed \in Dispositions :
            decision' = [decision EXCEPT ![r] =
                [disposition |-> IF cited = {} THEN "NEEDS_REVIEW" ELSE proposed,
                 evidence |-> cited]]
      BY <1>6 DEF AcceptCandidate, Enforced
    <2>5. decision'[r] =
                [disposition |-> IF cited = {} THEN "NEEDS_REVIEW" ELSE proposed,
                 evidence |-> cited]
      BY <1>0, <2>4
    <2>6. Citable(r, cited)'
      BY <2>1, <2>4, <1>old DEF Citable, AllSuccessful
    <2>7. Sound(r, decision[r])'
      <3>1. decision'[r].evidence = cited
            /\ (decision'[r].disposition = "ASSESSED" => cited # {})
        BY <2>5
      <3> QED
        BY <3>1, <2>6 DEF Sound
    <2> QED
      BY <2>2, <2>3, <2>7 DEF Sound, NoResult
  <1>7. ASSUME NEW o \in CommitOutcomes, PersistFinal(r, o)
        PROVE  Goal
    <2>1. /\ pc[r] = "committing" /\ tools' = tools /\ decision' = decision
      BY <1>7 DEF PersistFinal
    <2>2. pc'[r] \in {"done", "failing"}
      BY <1>0, <1>7 DEF PersistFinal, FailWith, Goto
    <2>3. results' = results \/ results' = [results EXCEPT ![r] = decision[r]]
      BY <1>7 DEF PersistFinal
    <2>4. results'[r] \in {results[r], decision[r]}
      BY <1>0, <2>3
    <2>5. Sound(r, decision[r]) /\ Sound(r, results[r])
      BY <2>1, <1>old
    <2>6. Sound(r, results[r])'
      BY <2>1, <2>4, <2>5 DEF Sound, Citable, AllSuccessful
    <2> QED
      BY <2>2, <2>6 DEF Working
  <1>8. ASSUME NEW o \in CommitOutcomes, RecordFailure(r, o)
        PROVE  Goal
    <2>1. tools' = tools /\ results' = results /\ accumulated' = accumulated
      BY <1>8 DEF RecordFailure, locals
    <2>2. pc'[r] = "done"
      BY <1>0, <1>8 DEF RecordFailure, Goto
    <2> QED
      BY <2>1, <2>2, <1>old, <1>same DEF Working
  <1> QED
    BY <1>1, <1>2, <1>3, <1>4, <1>5, <1>6, <1>7, <1>8 DEF RunStep

\* No assessment reaches the database without evidence: whatever is stored as
\* BENIGN, SUSPICIOUS or MALICIOUS cites stored, successful tool invocations of
\* its own execution, none of whose calls was denied or failed.
THEOREM AssessmentsAreGrounded == Spec => []AssessmentRestsOnStoredEvidence
  <1>1. Init => EvidenceInv
    BY DEF Init, EvidenceInv, Sound, NoResult, Working
  <1> QED
    BY <1>1, InitTypes, TypeStep, RowsStep, EvidenceStep, EvidenceIsAssessment, PTL
       DEF Spec

(***************************************************************************)
(* Replies.                                                                *)
(***************************************************************************)

\* A run that may still store a result has stored none.
Undecided ==
    \A r \in Runs : pc[r] \in Working \cup {"idle", "starting"} => results[r] = NoResult

LEMMA ResultsKept ==
    ASSUME TypeOK, RowsOwned, Undecided, [Next]_vars, NEW r \in Runs
    PROVE  \/ results'[r] = results[r]
           \/ results[r] = NoResult /\ pc'[r] \in {"done", "failing"}
  <1>1. CASE Finalized(r)
    BY <1>1 DEF Finalized, Undecided, Working
  <1>2. CASE ~Finalized(r)
    BY <1>2, Footprint DEF Written, Untouched, Started, ToolStored, FailureRecorded, StaleFailed
  <1> QED
    BY <1>1, <1>2

LEMMA UndecidedStep == TypeOK /\ RowsOwned /\ Undecided /\ [Next]_vars => Undecided'
  <1> SUFFICES ASSUME TypeOK, RowsOwned, Undecided, [Next]_vars, NEW r \in Runs,
                      pc'[r] \in Working \cup {"idle", "starting"}
               PROVE  results'[r] = NoResult
    BY DEF Undecided
  <1>1. results'[r] = results[r]
    BY ResultsKept DEF Working
  <1>2. pc[r] \in Working \cup {"idle", "starting"}
    BY Moves DEF Started
  <1> QED
    BY <1>1, <1>2 DEF Undecided

Replayed(r) ==
    \E e \in Runs :
        /\ Exists(e) /\ executions[e].key = key[r]
        /\ reply'[r] = [durable |-> TRUE, reason |-> "IDEMPOTENT_REPLAY",
                        execution |-> e, result |-> results[e]]
        /\ UNCHANGED <<executions, results>>

Decided(r) ==
    /\ Exists(r)
    /\ reply'[r] = [durable |-> TRUE, reason |-> "DECIDED",
                    execution |-> r, result |-> decision[r]]
    /\ results'[r] = decision[r]

\* What a step may make of one run's reply.
LEMMA Replies ==
    ASSUME TypeOK, RowsOwned, [Next]_vars, NEW r \in Runs
    PROVE  \/ reply'[r] = reply[r]
           \/ reply'[r].reason = "PERSISTENCE_FAILURE"
           \/ Replayed(r)
           \/ Decided(r)
  <1>0. /\ reply \in [Runs -> Reply \cup {NoReply}]
        /\ results \in [Runs -> Result \cup {NoResult}]
    BY DEF TypeOK
  <1>1. ASSUME NEW q \in Runs, q # r, RunStep(q) PROVE reply'[r] = reply[r]
    BY <1>0, <1>1 DEF RunStep, Replay, ReplayLookupFails, Begin, StartConflicts,
       PersistStart, CallTool, StopWithoutCandidate, AcceptCandidate, LoadFinal,
       PersistFinal, LoadFailure, RecordFailure, Answer
  <1>2. CASE Replay(r)
    BY <1>0, <1>2 DEF Replay, Replayed, Answer, database
  <1>3. ASSUME NEW o \in CommitOutcomes, PersistFinal(r, o)
        PROVE  reply'[r] = reply[r] \/ Decided(r)
    <2>1. CASE o = "ok"
      <3>1. Exists(r)
        BY <1>3 DEF PersistFinal, RowsOwned, Working
      <3>2. results' = [results EXCEPT ![r] = decision[r]]
        BY <1>3, <2>1 DEF PersistFinal, Applied
      <3>3. reply' = [reply EXCEPT ![r] = [durable |-> TRUE, reason |-> "DECIDED",
                                           execution |-> r, result |-> decision[r]]]
        BY <1>3, <2>1 DEF PersistFinal, Answer
      <3> QED
        BY <1>0, <3>1, <3>2, <3>3 DEF Decided
    <2>2. CASE o # "ok"
      BY <1>3, <2>2 DEF PersistFinal
    <2> QED
      BY <2>1, <2>2
  <1>4. ASSUME reply' = [reply EXCEPT ![r] = Failure(r)]
        PROVE  reply'[r].reason = "PERSISTENCE_FAILURE"
    BY <1>0, <1>4 DEF Failure
  <1>5. ASSUME ReplayLookupFails(r) \/ LoadFailure(r)
               \/ \E o \in CommitOutcomes : RecordFailure(r, o)
        PROVE  reply' = reply \/ reply' = [reply EXCEPT ![r] = Failure(r)]
    BY <1>5 DEF ReplayLookupFails, LoadFailure, RecordFailure, Answer
  <1>6. CASE \/ Begin(r) \/ StartConflicts(r)
             \/ \E o \in CommitOutcomes : PersistStart(r, o)
             \/ \E s \in ToolOutcomes, o \in CommitOutcomes : CallTool(r, s, o)
             \/ StopWithoutCandidate(r) \/ AcceptCandidate(r) \/ LoadFinal(r)
    BY <1>6 DEF Begin, StartConflicts, PersistStart, CallTool, StopWithoutCandidate,
       AcceptCandidate, LoadFinal
  <1>7. CASE (\E q \in Runs : Crash(q)) \/ Recover \/ Tick \/ UNCHANGED vars
    BY <1>7 DEF Crash, Recover, ListStale, FailStale, Tick, vars
  <1> QED
    BY <1>1, <1>2, <1>3, <1>4, <1>5, <1>6, <1>7 DEF Next, RunStep

LEMMA RepliesStep ==
    TypeOK /\ RowsOwned /\ Undecided /\ DurableRepliesAreStored /\ [Next]_vars =>
        DurableRepliesAreStored'
  <1> SUFFICES ASSUME TypeOK, RowsOwned, Undecided, DurableRepliesAreStored, [Next]_vars,
                      NEW r \in Runs, reply'[r].reason \in {"DECIDED", "IDEMPOTENT_REPLAY"}
               PROVE  LET e == reply'[r].execution IN
                      /\ executions'[e] # NoRow
                      /\ executions'[e].key = key'[r]
                      /\ reply'[r].result # NoResult => results'[e] = reply'[r].result
    BY DEF DurableRepliesAreStored, Exists
  <1>1. key' = key
    BY Moves
  <1>2. CASE reply'[r] = reply[r]
    <2> DEFINE e == reply[r].execution
    <2>1. e \in Runs
      BY <1>2 DEF TypeOK, Reply, NoReply
    <2>2. /\ Exists(e) /\ executions[e].key = key[r]
          /\ reply[r].result # NoResult => results[e] = reply[r].result
      BY <1>2 DEF DurableRepliesAreStored
    <2> HIDE DEF e
    <2>3. executions'[e] # NoRow /\ executions'[e].key = key[r]
      BY <2>1, <2>2, RowsPersist
    <2>4. reply[r].result # NoResult => results'[e] = reply[r].result
      BY <2>1, <2>2, ResultsKept
    <2> QED
      BY <1>1, <1>2, <2>3, <2>4 DEF e
  <1>3. CASE Replayed(r)
    BY <1>1, <1>3 DEF Replayed, Exists
  <1>4. CASE Decided(r)
    <2>1. executions'[r] # NoRow /\ executions'[r].key = key[r]
      BY <1>4, RowsPersist DEF Decided, RowsOwned
    <2> QED
      BY <1>1, <1>4, <2>1 DEF Decided
  <1> QED
    BY <1>2, <1>3, <1>4, Replies

\* A reply that carries a result tells what the database holds for an execution of
\* the request's key, and goes on holding through recovery and failing commits.
THEOREM RepliesAreStored == Spec => []DurableRepliesAreStored
  <1>1. Init => Undecided /\ DurableRepliesAreStored
    BY DEF Init, Undecided, DurableRepliesAreStored, NoReply
  <1> QED
    BY <1>1, InitTypes, TypeStep, RowsStep, UndecidedStep, RepliesStep, PTL DEF Spec

(***************************************************************************)
(* Every run goes through the advisory loop.                               *)
(***************************************************************************)

Open == {"idle", "starting", "reasoning"}

\* What a step means to the loop of one run.
LoopWaits(r) ==
    /\ tools'[r] = tools[r] /\ accumulated'[r] = accumulated[r]
    /\ (pc'[r] \in Open) = (pc[r] \in Open)
LoopGathers(r) ==
    /\ pc[r] \in Open /\ pc'[r] \in Open
    /\ Len(tools[r]) < MaxIterations
    /\ Cardinality(accumulated[r]) < MaxEvidence
    /\ tools'[r] = Append(tools[r], "SUCCESS")
    /\ accumulated'[r] = accumulated[r] \cup {Len(tools[r]) + 1}
LoopCloses(r) ==
    /\ pc[r] \in Open /\ pc'[r] \notin Open
    /\ \/ tools'[r] = tools[r]
       \/ /\ Len(tools[r]) < MaxIterations
          /\ \E outcome \in ToolOutcomes : tools'[r] = Append(tools[r], outcome)
    /\ accumulated'[r] = accumulated[r]

LEMMA LoopSteps ==
    ASSUME TypeOK, [Next]_vars, NEW r \in Runs
    PROVE  LoopWaits(r) \/ LoopGathers(r) \/ LoopCloses(r)
  <1>0. /\ tools \in [Runs -> Seq(ToolOutcomes)] /\ pc \in [Runs -> Places]
        /\ accumulated \in [Runs -> SUBSET (1..MaxIterations)]
    BY DEF TypeOK
  <1>1. ASSUME NEW q \in Runs, q # r, RunStep(q) \/ Crash(q) PROVE LoopWaits(r)
    BY <1>0, <1>1 DEF RunStep, Replay, ReplayLookupFails, Begin, StartConflicts,
       PersistStart, CallTool, StopWithoutCandidate, AcceptCandidate, LoadFinal,
       PersistFinal, LoadFailure, RecordFailure, Crash, FailWith, Goto, database, locals,
       LoopWaits
  <1>2. ASSUME NEW s \in ToolOutcomes, NEW o \in CommitOutcomes, CallTool(r, s, o)
        PROVE  LoopGathers(r) \/ LoopCloses(r)
    <2>1. /\ pc[r] = "reasoning" /\ Len(tools[r]) < MaxIterations
          /\ tools'[r] = tools[r] \/ tools'[r] = Append(tools[r], s)
      BY <1>0, <1>2 DEF CallTool
    <2>2. CASE o = "ok" /\ s = "SUCCESS" /\ Cardinality(accumulated[r]) < MaxEvidence
               /\ pc' = pc
      <3>1. tools'[r] = Append(tools[r], "SUCCESS")
        BY <1>0, <1>2, <2>2 DEF CallTool, Applied
      <3>2. accumulated'[r] = accumulated[r] \cup {Len(tools[r]) + 1}
        BY <1>0, <1>2, <2>1, <2>2 DEF CallTool, FailWith, Goto
      <3> QED
        BY <2>1, <2>2, <3>1, <3>2 DEF LoopGathers, Open
    <2>3. CASE pc'[r] \in {"failing", "finalizing"}
      <3>1. accumulated'[r] = accumulated[r]
        BY <1>0, <1>2, <2>1, <2>3 DEF CallTool
      <3> QED
        BY <2>1, <2>3, <3>1 DEF LoopCloses, Open
    <2> QED
      BY <1>0, <1>2, <2>2, <2>3 DEF CallTool, FailWith, Goto
  <1>3. ASSUME UNCHANGED <<tools, accumulated>>,
               \/ pc[r] \in Open /\ pc'[r] \notin Open
               \/ (pc'[r] \in Open) = (pc[r] \in Open)
        PROVE  LoopWaits(r) \/ LoopCloses(r)
    BY <1>3 DEF LoopWaits, LoopCloses
  <1>4. CASE Replay(r) \/ ReplayLookupFails(r) \/ Begin(r) \/ StartConflicts(r)
    BY <1>0, <1>3, <1>4 DEF Replay, ReplayLookupFails, Begin, StartConflicts, FailWith,
       Goto, database, locals, Open
  <1>5. CASE \/ \E o \in CommitOutcomes : PersistStart(r, o)
             \/ StopWithoutCandidate(r) \/ AcceptCandidate(r) \/ LoadFinal(r)
    BY <1>0, <1>3, <1>5 DEF PersistStart, StopWithoutCandidate, AcceptCandidate, LoadFinal,
       FailWith, Goto, database, Open
  <1>6. CASE \/ \E o \in CommitOutcomes : PersistFinal(r, o)
             \/ LoadFailure(r)
             \/ \E o \in CommitOutcomes : RecordFailure(r, o)
             \/ Crash(r)
    BY <1>0, <1>3, <1>6 DEF PersistFinal, LoadFailure, RecordFailure, Crash, FailWith,
       Goto, database, locals, Open
  <1>7. CASE Recover \/ Tick \/ UNCHANGED vars
    BY <1>3, <1>7 DEF Recover, ListStale, FailStale, Tick, vars, database, locals
  <1> QED
    BY <1>1, <1>2, <1>4, <1>5, <1>6, <1>7 DEF Next, RunStep

\* Whatever its siblings and recovery do to its execution, and whichever of its
\* commits fail or are applied unacknowledged, a run goes through the abstract loop.
THEOREM RunsAreAdvisory == Spec => RunsFollowLoop
  <1>1. Init => \A r \in Runs : Loop(r)!Init
    BY DEF Init, Loop!Init
  <1>2. TypeOK /\ [Next]_vars => [\A r \in Runs : [Loop(r)!Next]_(Loop(r)!vars)]_vars
    <2> SUFFICES ASSUME TypeOK, [Next]_vars, NEW r \in Runs
                 PROVE  [Loop(r)!Next]_(Loop(r)!vars)
      OBVIOUS
    <2>1. CASE LoopWaits(r)
      BY <2>1 DEF LoopWaits, Loop!vars, Open
    <2>2. CASE LoopGathers(r)
      <3>1. Loop(r)!Cardinality(accumulated[r]) = Cardinality(accumulated[r])
        BY DEF Loop!Cardinality, Cardinality
      <3> QED
        BY <2>2, <3>1 DEF LoopGathers, Loop!Next, Loop!Gather, Open
    <2>3. CASE LoopCloses(r)
      BY <2>3 DEF LoopCloses, Loop!Next, Loop!Close, Loop!Outcomes, ToolOutcomes, Open
    <2> QED
      BY <2>1, <2>2, <2>3, LoopSteps
  <1> QED
    BY <1>1, <1>2, TypeCorrect, PTL DEF Spec, RunsFollowLoop

(***************************************************************************)
(* When the recovery threshold is at least the time a live run takes:      *)
(* terminal states are final, and the services implement the lifecycle of  *)
(* domain/states.py.                                                       *)
(***************************************************************************)

\* A RUNNING row still carries the time its run started at.
RunningSinceStart ==
    \A r \in Runs :
        executions[r].state = "RUNNING" => executions[r].updated_at = startedAt[r]

\* A run is at work, or about to record its failure, on a RUNNING execution.
WorkingOnRunning ==
    \A r \in Runs :
        pc[r] \in Working \cup {"recording"} => executions[r].state = "RUNNING"

\* What recovery is about to fail is RUNNING and has lost its run.
StaleAreAbandoned ==
    \A r \in recovery.stale : executions[r].state = "RUNNING" /\ pc[r] \notin Live

Prompt == InBudget(clock) /\ RunningSinceStart /\ WorkingOnRunning /\ StaleAreAbandoned

\* What a step does to the clock, to a run's start and to the recovery in flight.
LEMMA Pace ==
    ASSUME TypeOK, [Next]_vars, NEW r \in Runs
    PROVE  /\ \/ startedAt'[r] = startedAt[r]
              \/ pc[r] = "idle" /\ startedAt'[r] = clock
           /\ pc'[r] \in Live =>
                \/ pc[r] \in Live
                \/ pc[r] = "idle" /\ startedAt'[r] = clock
           /\ \/ clock' = clock
              \/ clock' = clock + 1 /\ InBudget(clock') /\ UNCHANGED <<pc, startedAt>>
           /\ \/ recovery' = recovery
              \/ recovery'.stale = {}
              \/ recovery'.stale = Stale(clock) /\ UNCHANGED <<executions, pc>>
  <1> DEFINE Goal ==
           /\ \/ startedAt'[r] = startedAt[r]
              \/ pc[r] = "idle" /\ startedAt'[r] = clock
           /\ pc'[r] \in Live =>
                \/ pc[r] \in Live
                \/ pc[r] = "idle" /\ startedAt'[r] = clock
           /\ \/ clock' = clock
              \/ clock' = clock + 1 /\ InBudget(clock') /\ UNCHANGED <<pc, startedAt>>
           /\ \/ recovery' = recovery
              \/ recovery'.stale = {}
              \/ recovery'.stale = Stale(clock) /\ UNCHANGED <<executions, pc>>
  <1>0. pc \in [Runs -> Places] /\ startedAt \in [Runs -> 0..MaxTime]
    BY DEF TypeOK
  <1>1. ASSUME NEW q \in Runs, RunStep(q) \/ Crash(q) PROVE Goal
    <2>1. clock' = clock /\ recovery' = recovery
      BY <1>1 DEF RunStep, Replay, ReplayLookupFails, Begin, StartConflicts,
         PersistStart, CallTool, StopWithoutCandidate, AcceptCandidate, LoadFinal,
         PersistFinal, LoadFailure, RecordFailure, Crash
    <2>2. CASE Begin(q)
      <3>1. /\ startedAt' = [startedAt EXCEPT ![q] = clock]
            /\ pc' = [pc EXCEPT ![q] = "starting"]
            /\ pc[q] = "idle"
        BY <2>2 DEF Begin, Goto
      <3> QED
        BY <1>0, <2>1, <3>1
    <2>3. CASE ~Begin(q)
      <3>1. startedAt' = startedAt
        BY <1>1, <2>3 DEF RunStep, Replay, ReplayLookupFails, StartConflicts,
           PersistStart, CallTool, StopWithoutCandidate, AcceptCandidate, LoadFinal,
           PersistFinal, LoadFailure, RecordFailure, Crash, locals
      <3>2. pc[q] \in Live \/ pc'[q] \notin Live
        BY <1>0, <1>1, <2>3 DEF RunStep, Replay, ReplayLookupFails, StartConflicts,
           PersistStart, CallTool, StopWithoutCandidate, AcceptCandidate, LoadFinal,
           PersistFinal, LoadFailure, RecordFailure, Crash, Goto, Live, Working,
           Failing
      <3>3. q # r => pc'[r] = pc[r]
        BY <1>0, <1>1 DEF RunStep, Replay, ReplayLookupFails, Begin, StartConflicts,
           PersistStart, CallTool, StopWithoutCandidate, AcceptCandidate, LoadFinal,
           PersistFinal, LoadFailure, RecordFailure, Crash, FailWith, Goto
      <3> QED
        BY <2>1, <3>1, <3>2, <3>3
    <2> QED
      BY <2>2, <2>3
  <1>2. CASE ListStale
    <2>1. recovery'.stale = Stale(clock)
      BY <1>2 DEF ListStale
    <2> QED
      BY <1>2, <2>1 DEF ListStale, database, locals
  <1>3. ASSUME NEW o \in CommitOutcomes, FailStale(o) PROVE Goal
    BY <1>3 DEF FailStale, NoRecovery, locals
  <1>4. CASE Tick
    BY <1>4 DEF Tick, locals
  <1>5. CASE UNCHANGED vars
    BY <1>5 DEF vars
  <1> QED
    BY <1>1, <1>2, <1>3, <1>4, <1>5 DEF Next, Recover

LEMMA StartTimes == ASSUME TypeOK, NEW r \in Runs
                    PROVE  startedAt[r] \in Int /\ clock \in Int
  BY LimitsAssumption DEF TypeOK

LEMMA BudgetStep == TypeOK /\ InBudget(clock) /\ [Next]_vars => InBudget(clock)'
  <1> SUFFICES ASSUME TypeOK, InBudget(clock), [Next]_vars,
                      NEW r \in Runs, pc'[r] \in Live
               PROVE  clock' <= startedAt'[r] + RunBudget
    BY DEF InBudget
  <1> USE LimitsAssumption
  <1>1. CASE clock' = clock
    <2>1. CASE pc[r] = "idle" /\ startedAt'[r] = clock
      BY <1>1, <2>1, StartTimes
    <2>2. CASE pc[r] \in Live
      <3>1. startedAt'[r] = startedAt[r]
        BY <2>2, Pace DEF Live, Working, Failing
      <3>2. clock <= startedAt[r] + RunBudget
        BY <2>2 DEF InBudget
      <3> QED
        BY <1>1, <3>1, <3>2
    <2> QED
      BY <2>1, <2>2, Pace
  <1>2. CASE InBudget(clock') /\ UNCHANGED <<pc, startedAt>>
    BY <1>2 DEF InBudget
  <1> QED
    BY <1>1, <1>2, Pace

LEMMA PromptStep ==
    ASSUME RunBudget <= StaleAfter
    PROVE  TypeOK /\ RowsOwned /\ Prompt /\ [Next]_vars => Prompt'
  <1> SUFFICES ASSUME TypeOK, RowsOwned, Prompt, [Next]_vars PROVE Prompt'
    OBVIOUS
  <1> USE LimitsAssumption
  <1>1. InBudget(clock)'
    BY BudgetStep DEF Prompt
  \* The commits that leave an execution RUNNING, or make it so.
  <1>2. ASSUME NEW r \in Runs, executions'[r].state = "RUNNING"
        PROVE  Started(r) \/ executions'[r] = executions[r]
    <2>1. ~Finalized(r)
      BY <1>2, WrittenStates, DecisionIsTerminal DEF Finished
    <2>2. ~FailureRecorded(r) /\ ~StaleFailed(r)
      BY <1>2, WrittenStates
    <2> QED
      BY <2>1, <2>2, Footprint DEF Written, Untouched, ToolStored
  <1>3. ASSUME NEW r \in Runs, executions'[r].state = "RUNNING"
        PROVE  executions'[r].updated_at = startedAt'[r]
    <2>1. CASE Started(r)
      <3>1. executions'[r].updated_at = startedAt[r] /\ pc[r] = "starting"
        BY <2>1 DEF Started
      <3>2. startedAt'[r] = startedAt[r]
        BY <3>1, Pace
      <3> QED
        BY <3>1, <3>2
    <2>2. CASE executions'[r] = executions[r]
      <3>1. executions[r].updated_at = startedAt[r]
        BY <1>3, <2>2 DEF Prompt, RunningSinceStart
      <3>2. pc[r] # "idle"
        BY <1>3, <2>2, RowState DEF RowsOwned, States
      <3>3. startedAt'[r] = startedAt[r]
        BY <3>2, Pace
      <3> QED
        BY <2>2, <3>1, <3>3
    <2> QED
      BY <1>2, <1>3, <2>1, <2>2
  <1>4. ASSUME NEW r \in Runs, pc'[r] \in Working \cup {"recording"}
        PROVE  executions'[r].state = "RUNNING"
    <2>1. CASE Started(r)
      BY <2>1 DEF Started
    <2>2. CASE ~Started(r)
      <3>1. executions[r].state = "RUNNING"
        BY <1>4, <2>2, Moves DEF Prompt, WorkingOnRunning
      <3>2. ~Finalized(r) /\ ~FailureRecorded(r)
        BY <1>4 DEF Finalized, FailureRecorded, Working
      <3>3. ~StaleFailed(r)
        <4>1. ASSUME StaleFailed(r) PROVE pc'[r] = pc[r] /\ pc[r] \notin Live
          BY <4>1 DEF StaleFailed, Prompt, StaleAreAbandoned
        <4> QED
          BY <1>4, <4>1 DEF Live, Failing
      <3> QED
        BY <2>2, <3>1, <3>2, <3>3, Footprint DEF Written, Untouched, ToolStored
    <2> QED
      BY <2>1, <2>2
  <1>5. ASSUME NEW r \in recovery'.stale
        PROVE  executions'[r].state = "RUNNING" /\ pc'[r] \notin Live
    <2>1. CASE recovery' = recovery
      <3>1. r \in Runs /\ executions[r].state = "RUNNING" /\ pc[r] \notin Live
        BY <1>5, <2>1 DEF Prompt, StaleAreAbandoned, TypeOK
      <3>2. pc[r] # "idle"
        BY <3>1, RowState DEF RowsOwned, States
      <3>3. pc'[r] \notin Live
        BY <3>1, <3>2, Pace
      <3>4. ~Started(r) /\ ~Finalized(r) /\ ~FailureRecorded(r)
        BY <3>1 DEF Started, Finalized, FailureRecorded, Live, Working, Failing
      <3>5. ~StaleFailed(r)
        BY <1>5 DEF StaleFailed
      <3> QED
        BY <3>1, <3>3, <3>4, <3>5, Footprint DEF Written, Untouched, ToolStored
    <2>2. CASE recovery'.stale = Stale(clock) /\ UNCHANGED <<executions, pc>>
      <3>1. /\ r \in Runs
            /\ executions[r].state = "RUNNING"
            /\ executions[r].updated_at + StaleAfter < clock
        BY <1>5, <2>2 DEF Stale
      <3>2. executions[r].updated_at = startedAt[r]
        BY <3>1 DEF Prompt, RunningSinceStart
      <3>3. pc[r] \in Live => clock <= startedAt[r] + RunBudget
        BY <3>1 DEF Prompt, InBudget
      <3>4. pc[r] \notin Live
        BY <3>1, <3>2, <3>3, StartTimes
      <3> QED
        BY <2>2, <3>1, <3>4
    <2>3. CASE recovery'.stale = {}
      BY <1>5, <2>3
    <2>4. r \in Runs
      BY <1>5, TypeStep DEF TypeOK
    <2> QED
      BY <2>1, <2>2, <2>3, <2>4, Pace
  <1> QED
    BY <1>1, <1>3, <1>4, <1>5 DEF Prompt, RunningSinceStart, WorkingOnRunning,
       StaleAreAbandoned

LEMMA InitPrompt == Init => Prompt
  BY DEF Init, Prompt, InBudget, RunningSinceStart, WorkingOnRunning,
     StaleAreAbandoned, NoRow, NoRecovery, Live, Working, Failing

\* Promptness: live runs and the recovery command never meet on an execution.
LEMMA PromptAlways ==
    ASSUME RunBudget <= StaleAfter
    PROVE  Spec => [](TypeOK /\ RowsOwned /\ Prompt)
  BY InitTypes, InitPrompt, TypeStep, RowsStep, PromptStep, PTL DEF Spec

\* Only RUNNING rows are rewritten, and they end in one commit.
LEMMA PromptWrites ==
    ASSUME TypeOK, RowsOwned, Prompt, [Next]_vars, NEW r \in Runs,
           executions'[r] # executions[r]
    PROVE  \/ executions[r].state = "ABSENT" /\ executions'[r].state = "RUNNING"
           \/ executions[r].state = "RUNNING" /\ executions'[r].state \in Terminal
  <1>1. CASE Started(r)
    BY <1>1, WrittenStates
  <1>2. CASE Finalized(r)
    <2>1. executions[r].state = "RUNNING"
      BY <1>2 DEF Finalized, Prompt, WorkingOnRunning, Working
    <2> QED
      BY <1>2, <2>1, WrittenStates, DecisionIsTerminal DEF Terminal, Finished
  <1>3. CASE FailureRecorded(r) \/ StaleFailed(r)
    <2>1. executions[r].state = "RUNNING"
      BY <1>3 DEF FailureRecorded, StaleFailed, Prompt, WorkingOnRunning,
         StaleAreAbandoned
    <2> QED
      BY <1>3, <2>1, WrittenStates DEF Terminal
  <1> QED
    BY <1>1, <1>2, <1>3, Footprint DEF Written, Untouched, ToolStored

\* The row of an ended execution is never rewritten, provided the operator's
\* threshold is no shorter than a live run: what "terminal results are
\* immutable" rests on, since no commit checks the state it overwrites.
THEOREM PromptRunsAreFinal ==
    ASSUME RunBudget <= StaleAfter
    PROVE  Spec => TerminalStatesAreFinal
  <1>1. TypeOK /\ RowsOwned /\ Prompt /\ [Next]_vars =>
            [\A r \in Runs :
                executions[r].state \in Terminal => executions'[r] = executions[r]]_vars
    BY PromptWrites DEF Terminal
  <1> QED
    BY <1>1, PromptAlways, PTL DEF Spec, TerminalStatesAreFinal

\* The state an execution has in the lifecycle of domain/states.py.
LifecycleState == [r \in Runs |-> IF Exists(r) THEN executions[r].state ELSE "PENDING"]

\* Under the same provision the services implement the transition table of
\* domain/states.py, although none of them calls transition_to.
THEOREM PromptRunsFollowLifecycle ==
    ASSUME RunBudget <= StaleAfter
    PROVE  Spec => FollowsLifecycle
  <1>1. Init => Lifecycle!Init
    BY DEF Init, Lifecycle!Init, Exists
  <1>2. ASSUME TypeOK, RowsOwned, Prompt, [Next]_vars
        PROVE  Lifecycle!TransitionTo
    <2>1. TypeOK'
      BY <1>2, TypeStep
    <2>2. ASSUME NEW r \in Runs
          PROVE  LifecycleState'[r] \in Lifecycle!States
      BY <2>1, <2>2 DEF LifecycleState, Exists, TypeOK, Row, States, Terminal,
         Lifecycle!States
    <2>3. ASSUME NEW r \in Runs, LifecycleState'[r] # LifecycleState[r]
          PROVE  LifecycleState'[r] \in Lifecycle!Successors[LifecycleState[r]]
      <3>1. executions'[r] # executions[r]
        BY <2>3 DEF LifecycleState, Exists
      <3>2. CASE executions[r].state = "ABSENT" /\ executions'[r].state = "RUNNING"
        <4>1. LifecycleState[r] = "PENDING"
          BY <1>2, <3>2, RowState DEF LifecycleState
        <4>2. LifecycleState'[r] = "RUNNING"
          BY <3>2 DEF LifecycleState, Exists, NoRow
        <4> QED
          BY <4>1, <4>2 DEF Lifecycle!Successors, Lifecycle!States
      <3>3. CASE executions[r].state = "RUNNING" /\ executions'[r].state \in Terminal
        <4>1. LifecycleState[r] = "RUNNING"
          BY <3>3 DEF LifecycleState, Exists, NoRow
        <4>2. LifecycleState'[r] \in Terminal
          BY <3>3 DEF LifecycleState, Exists, NoRow, Terminal
        <4> QED
          BY <4>1, <4>2 DEF Lifecycle!Successors, Lifecycle!States, Terminal
      <3> QED
        BY <1>2, <3>1, <3>2, <3>3, PromptWrites
    <2> QED
      BY <2>2, <2>3 DEF Lifecycle!TransitionTo, LifecycleState
  <1> QED
    BY <1>1, <1>2, PromptAlways, PTL DEF Spec, FollowsLifecycle, Lifecycle!Spec
=============================================================================
