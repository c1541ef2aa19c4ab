----------------------- MODULE TriageExecutionsProofs -----------------------
(***************************************************************************)
(* Theorems about TriageExecutions for every number of runs and keys and   *)
(* every value of the limits.                                              *)
(***************************************************************************)
EXTENDS TriageExecutions, TLAPS

(***************************************************************************)
(* Type correctness.                                                       *)
(***************************************************************************)

\* Every row record that a commit of a run or of recovery writes is a row.
LEMMA RowUpdate ==
    ASSUME NEW row \in Row, NEW s \in States, NEW t \in 0..MaxTime,
           NEW c \in Categories
    PROVE  [row EXCEPT !.state = s, !.updated_at = t, !.failure_category = c] \in Row
  BY DEF Row

\* The absent row is no row: it has no failure category, no key and no time.
LEMMA NoRowIsNoRow == NoRow \notin Row
  <1>1. \A row \in Row : row.state \in States
    BY DEF Row
  <1>2. NoRow.state \notin States
    BY DEF NoRow, States, Terminal
  <1> QED
    BY <1>1, <1>2

LEMMA RowState ==
    ASSUME TypeOK, NEW r \in Runs
    PROVE  /\ Exists(r) <=> executions[r] \in Row
           /\ Exists(r) <=> executions[r].state \in States
           /\ Exists(r) <=> executions[r].state # "ABSENT"
  BY NoRowIsNoRow DEF TypeOK, Exists, Row, NoRow, States, Terminal

LEMMA FailureIsReply == \A r \in Runs : Failure(r) \in Reply
  BY DEF Failure, Reply

\* A further row adds one to the count of its own type.
LEMMA LoggedTrail ==
    ASSUME NEW trail \in Trail, NEW e \in AuditEvents
    PROVE  /\ Logged(trail, e) \in Trail
           /\ Logged(trail, e)[e] = trail[e] + 1
           /\ \A f \in AuditEvents \ {e} : Logged(trail, e)[f] = trail[f]
           /\ \A f \in AuditEvents : trail[f] \in Nat
  BY DEF Logged, Trail

\* Who may touch a row: a run has inserted its row, under its own key, exactly
\* from the commit of _persist_start on, and recovery lists rows that exist.
RowsOwned ==
    /\ \A r \in Runs : pc[r] \in {"idle", "starting"} => ~Exists(r)
    /\ \A r \in Runs : pc[r] \in Working \cup {"recording"} => Exists(r)
    /\ \A r \in Runs : Exists(r) => executions[r].key = key[r]
    /\ \A r \in recovery.stale : Exists(r)

\* Every step keeps the types, provided the rows it updates exist.
LEMMA TypeStep == TypeOK /\ RowsOwned /\ [Next]_vars => TypeOK'
  <1> SUFFICES ASSUME TypeOK, RowsOwned, [Next]_vars PROVE TypeOK'
    OBVIOUS
  <1> USE LimitsAssumption
  <1>executions. executions \in [Runs -> Row \cup {NoRow}]
    BY DEF TypeOK
  <1>tools. tools \in [Runs -> Seq(ToolOutcomes)]
    BY DEF TypeOK
  <1>audit. audit \in [Runs -> Trail]
    BY DEF TypeOK
  <1>pc. pc \in [Runs -> Places]
    BY DEF TypeOK
  <1>accumulated. accumulated \in [Runs -> SUBSET (1..MaxIterations)]
    BY DEF TypeOK
  <1>decision. decision \in [Runs -> Result]
    BY DEF TypeOK
  <1>results. results \in [Runs -> Result \cup {NoResult}]
    BY DEF TypeOK
  <1>reply. reply \in [Runs -> Reply \cup {NoReply}]
    BY DEF TypeOK
  <1>faults. faults \in 0..MaxFaults
    BY DEF TypeOK
  <1>clock. clock \in 0..MaxTime
    BY DEF TypeOK
  <1>category. category \in [Runs -> RunFailures]
    BY DEF TypeOK
  <1>1. ASSUME NEW r \in Runs, Replay(r) PROVE TypeOK'
    BY <1>1 DEF TypeOK, Replay, Answer, Goto, Reply, Places, database, locals
  <1>2. ASSUME NEW r \in Runs, ReplayLookupFails(r) PROVE TypeOK'
    BY <1>2 DEF TypeOK, ReplayLookupFails, Spend, Failure, Answer, Goto, Reply,
       Places, database, locals
  <1>3. ASSUME NEW r \in Runs, Begin(r) PROVE TypeOK'
    BY <1>3 DEF TypeOK, Begin, Goto, Places, Live, database
  <1>4. ASSUME NEW r \in Runs, StartConflicts(r) PROVE TypeOK'
    BY <1>4 DEF TypeOK, StartConflicts, FailWith, Goto, RunFailures, Places,
       Live, Failing, database
  <1>5. ASSUME NEW r \in Runs, NEW o \in CommitOutcomes, PersistStart(r, o)
        PROVE TypeOK'
    <2> DEFINE row == [state |-> "RUNNING", key |-> key[r],
                       updated_at |-> startedAt[r], failure_category |-> "None"]
    <2>1. row \in Row
      BY DEF TypeOK, Row, States, Categories
    <2>2. \/ executions' = [executions EXCEPT ![r] = row]
          \/ executions' = executions
      BY <1>5 DEF PersistStart
    <2>3. \/ audit' = [audit EXCEPT ![r] = Logged(@, "execution_started")]
          \/ audit' = audit
      BY <1>5 DEF PersistStart
    <2>4. Logged(audit[r], "execution_started") \in Trail
      BY LoggedTrail DEF TypeOK, AuditEvents
    <2>5. \E place \in Places : pc' = [pc EXCEPT ![r] = place]
      BY <1>5 DEF PersistStart, FailWith, Goto, Places, Live, Working, Failing
    <2>6. \/ category' = [category EXCEPT ![r] = "START_PERSISTENCE_FAILED"]
          \/ category' = category
      BY <1>5 DEF PersistStart, FailWith
    <2>7. faults' \in 0..MaxFaults
      BY <1>5 DEF TypeOK, PersistStart, Spend
    <2>8. executions' \in [Runs -> Row \cup {NoRow}]
      BY <2>1, <2>2, <1>executions
    <2>9. audit' \in [Runs -> Trail]
      BY <2>3, <2>4, <1>audit
    <2>10. pc' \in [Runs -> Places] /\ category' \in [Runs -> RunFailures]
      BY <2>5, <2>6, <1>pc, <1>category DEF RunFailures
    <2> QED
      BY <1>5, <2>7, <2>8, <2>9, <2>10 DEF TypeOK, PersistStart
  <1>6. ASSUME NEW r \in Runs, NEW s \in ToolOutcomes, NEW o \in CommitOutcomes,
               CallTool(r, s, o)
        PROVE TypeOK'
    <2>1. Len(tools[r]) + 1 \in 1..MaxIterations
      BY <1>6 DEF TypeOK, CallTool
    <2>2. tools' = [tools EXCEPT ![r] = Append(@, s)] \/ tools' = tools
      BY <1>6 DEF CallTool
    <2>3. tools' \in [Runs -> Seq(ToolOutcomes)]
      <3>1. Append(tools[r], s) \in Seq(ToolOutcomes)
        BY <1>tools
      <3> QED
        BY <2>2, <3>1, <1>tools
    <2>4. \/ audit' = [audit EXCEPT ![r] = Logged(@, "tool_invoked")]
          \/ audit' = audit
      BY <1>6 DEF CallTool
    <2>5. Logged(audit[r], "tool_invoked") \in Trail
      BY LoggedTrail DEF TypeOK, AuditEvents
    <2>6. audit' \in [Runs -> Trail]
      BY <2>4, <2>5, <1>audit
    <2>7. \/ accumulated' = [accumulated EXCEPT ![r] = @ \cup {Len(tools[r]) + 1}]
          \/ accumulated' = accumulated
      BY <1>6 DEF CallTool
    <2>8. accumulated' \in [Runs -> SUBSET (1..MaxIterations)]
      BY <2>1, <2>7, <1>accumulated
    <2>9. \/ decision' = [decision EXCEPT ![r] = SafeReview]
          \/ decision' = decision
      BY <1>6 DEF CallTool
    <2>10. decision' \in [Runs -> Result]
      BY <2>9, <1>decision DEF SafeReview, Result, Dispositions
    <2>11. pc' = pc \/ \E place \in Places : pc' = [pc EXCEPT ![r] = place]
      BY <1>6 DEF CallTool, FailWith, Goto, Places, Live, Working, Failing
    <2>12. \/ category' = [category EXCEPT ![r] = "TOOL_PERSISTENCE_FAILED"]
           \/ category' = category
      BY <1>6 DEF CallTool, FailWith
    <2>13. pc' \in [Runs -> Places] /\ category' \in [Runs -> RunFailures]
      BY <2>11, <2>12, <1>pc, <1>category DEF RunFailures
    <2>14. faults' \in 0..MaxFaults
      BY <1>6 DEF TypeOK, CallTool, Spend
    <2> QED
      BY <1>6, <2>3, <2>6, <2>8, <2>10, <2>13, <2>14 DEF TypeOK, CallTool
  <1>7. ASSUME NEW r \in Runs, StopWithoutCandidate(r) PROVE TypeOK'
    BY <1>7 DEF TypeOK, StopWithoutCandidate, Goto, SafeReview, Result,
       Dispositions, Places, Live, Working, database
  <1>8. ASSUME NEW r \in Runs, AcceptCandidate(r) PROVE TypeOK'
    <2>1. decision' \in [Runs -> Result]
      BY <1>8 DEF TypeOK, AcceptCandidate, Enforced, Result, Dispositions
    <2> QED
      BY <1>8, <2>1 DEF TypeOK, AcceptCandidate, Goto, Places, Live, Working,
         database
  <1>9. ASSUME NEW r \in Runs, LoadFinal(r) PROVE TypeOK'
    <2>1. executions[r].failure_category \in Categories
      BY <1>9, RowState DEF LoadFinal, Row
    <2> QED
      BY <1>9, <2>1 DEF TypeOK, LoadFinal, Goto, Places, Live, Working, database
  <1>10. ASSUME NEW r \in Runs, NEW o \in CommitOutcomes, PersistFinal(r, o)
         PROVE TypeOK'
    <2>1. executions[r] \in Row
      BY <1>10, RowState DEF PersistFinal, RowsOwned, Working
    <2>2. /\ TerminalOf(decision[r]) \in States
          /\ TerminalEvent(decision[r]) \in AuditEvents
      BY DEF TerminalOf, TerminalEvent, States, Terminal, AuditEvents
    <2>3. \/ executions' = executions
          \/ \E kept \in {loaded[r], executions[r].failure_category} :
                executions' = [executions EXCEPT ![r] =
                    [@ EXCEPT !.state = TerminalOf(decision[r]),
                              !.updated_at = clock,
                              !.failure_category = kept]]
      BY <1>10 DEF PersistFinal
    <2>4. loaded[r] \in Categories /\ executions[r].failure_category \in Categories
      BY <2>1 DEF TypeOK, Row
    <2>row. \A kept \in {loaded[r], executions[r].failure_category} :
             [executions[r] EXCEPT !.state = TerminalOf(decision[r]),
                                   !.updated_at = clock,
                                   !.failure_category = kept] \in Row
      BY <2>1, <2>2, <2>4, <1>clock, RowUpdate
    <2>5. executions' \in [Runs -> Row \cup {NoRow}]
      BY <2>3, <2>row, <1>executions
    <2>6. audit' = audit \/ audit' = [audit EXCEPT ![r] =
                    Logged(Logged(@, "policy_enforced"), TerminalEvent(decision[r]))]
      BY <1>10 DEF PersistFinal
    <2>7. audit' \in [Runs -> Trail]
      <3>1. "policy_enforced" \in AuditEvents
        BY DEF AuditEvents
      <3>2. Logged(Logged(audit[r], "policy_enforced"), TerminalEvent(decision[r])) \in Trail
        BY <2>2, <3>1, <1>audit, LoggedTrail
      <3> QED
        BY <2>6, <3>2, <1>audit
    <2>8. results' = results \/ results' = [results EXCEPT ![r] = decision[r]]
      BY <1>10 DEF PersistFinal
    <2>9. results' \in [Runs -> Result \cup {NoResult}]
      BY <2>8, <1>decision, <1>results
    <2>10. \/ reply' = reply
           \/ reply' = [reply EXCEPT ![r] =
                [durable |-> TRUE, reason |-> "DECIDED",
                 execution |-> r, result |-> decision[r]]]
      BY <1>10 DEF PersistFinal, Answer
    <2>11. reply' \in [Runs -> Reply \cup {NoReply}]
      <3>1. [durable |-> TRUE, reason |-> "DECIDED",
             execution |-> r, result |-> decision[r]] \in Reply
        BY <1>decision DEF Reply
      <3> QED
        BY <2>10, <3>1, <1>reply
    <2>12. pc' = [pc EXCEPT ![r] = "done"] \/ pc' = [pc EXCEPT ![r] = "failing"]
      BY <1>10 DEF PersistFinal, FailWith, Goto
    <2>13. \/ category' = [category EXCEPT ![r] = "FINALIZATION_FAILED"]
           \/ category' = category
      BY <1>10 DEF PersistFinal, FailWith
    <2>14. pc' \in [Runs -> Places] /\ category' \in [Runs -> RunFailures]
      BY <2>12, <2>13, <1>pc, <1>category DEF RunFailures, Places, Live, Failing
    <2>15. faults' \in 0..MaxFaults
      BY <1>10 DEF TypeOK, PersistFinal, Spend
    <2> QED
      BY <1>10, <2>5, <2>7, <2>9, <2>11, <2>14, <2>15 DEF TypeOK, PersistFinal
  <1>11. ASSUME NEW r \in Runs, LoadFailure(r) PROVE TypeOK'
    <2>1. reply' = reply \/ reply' = [reply EXCEPT ![r] = Failure(r)]
      BY <1>11 DEF LoadFailure, Answer
    <2>2. reply' \in [Runs -> Reply \cup {NoReply}]
      BY <2>1, <1>reply, FailureIsReply
    <2>3. pc' = [pc EXCEPT ![r] = "recording"] \/ pc' = [pc EXCEPT ![r] = "done"]
      BY <1>11 DEF LoadFailure, Goto
    <2>4. pc' \in [Runs -> Places]
      BY <2>3, <1>pc DEF Places, Live, Failing
    <2> QED
      BY <1>11, <2>2, <2>4 DEF TypeOK, LoadFailure, database, locals
  <1>12. ASSUME NEW r \in Runs, NEW o \in CommitOutcomes, RecordFailure(r, o)
         PROVE TypeOK'
    <2>1. executions[r] \in Row
      BY <1>12, RowState DEF RecordFailure, RowsOwned
    <2>2. \/ executions' = executions
          \/ executions' = [executions EXCEPT ![r] =
                [@ EXCEPT !.state = "FAILED", !.updated_at = clock,
                          !.failure_category = category[r]]]
      BY <1>12 DEF RecordFailure
    <2>3. "FAILED" \in States /\ category[r] \in Categories
      BY <1>category DEF States, Terminal, Categories
    <2>row. [executions[r] EXCEPT !.state = "FAILED", !.updated_at = clock,
                                  !.failure_category = category[r]] \in Row
      BY <2>1, <2>3, <1>clock, RowUpdate
    <2>4. executions' \in [Runs -> Row \cup {NoRow}]
      BY <2>2, <2>row, <1>executions
    <2>5. \/ audit' = [audit EXCEPT ![r] = Logged(@, "persistence_failed")]
          \/ audit' = audit
      BY <1>12 DEF RecordFailure
    <2>6. audit' \in [Runs -> Trail]
      <3>1. Logged(audit[r], "persistence_failed") \in Trail
        BY <1>audit, LoggedTrail DEF AuditEvents
      <3> QED
        BY <2>5, <3>1, <1>audit
    <2>7. reply' \in [Runs -> Reply \cup {NoReply}]
      BY <1>12, <1>reply, FailureIsReply DEF RecordFailure, Answer
    <2>8. pc' \in [Runs -> Places]
      BY <1>12, <1>pc DEF RecordFailure, Goto, Places
    <2>9. faults' \in 0..MaxFaults
      BY <1>12 DEF TypeOK, RecordFailure, Spend
    <2> QED
      BY <1>12, <2>4, <2>6, <2>7, <2>8, <2>9 DEF TypeOK, RecordFailure, locals
  <1>13. ASSUME NEW r \in Runs, Crash(r) PROVE TypeOK'
    BY <1>13 DEF TypeOK, Crash, Spend, Goto, Places, database, locals
  <1>14. CASE ListStale
    <2>1. Stale(clock) \in SUBSET Runs
      BY DEF Stale
    <2> QED
      BY <1>14, <2>1 DEF TypeOK, ListStale, database, locals
  <1>15. ASSUME NEW o \in CommitOutcomes, FailStale(o) PROVE TypeOK'
    <2>1. \A r \in recovery.stale : executions[r] \in Row
      BY RowState DEF RowsOwned, TypeOK
    <2>2. \/ executions' = executions
          \/ executions' = [r \in Runs |->
                IF r \in recovery.stale
                THEN [executions[r] EXCEPT
                        !.state = "FAILED", !.updated_at = recovery.now,
                        !.failure_category = "STALE_EXECUTION"]
                ELSE executions[r]]
      BY <1>15 DEF FailStale
    <2>3. /\ "FAILED" \in States
          /\ "STALE_EXECUTION" \in Categories
          /\ recovery.now \in 0..MaxTime
      BY DEF States, Terminal, Categories, TypeOK
    <2>4. \A r \in recovery.stale :
            [executions[r] EXCEPT
                !.state = "FAILED", !.updated_at = recovery.now,
                !.failure_category = "STALE_EXECUTION"] \in Row
      BY <2>1, <2>3, RowUpdate
    <2>5. executions' \in [Runs -> Row \cup {NoRow}]
      BY <2>2, <2>4, <1>executions
    <2>6. \/ audit' = audit
          \/ audit' = [r \in Runs |->
                IF r \in recovery.stale
                THEN Logged(audit[r], "stale_execution_recovered")
                ELSE audit[r]]
      BY <1>15 DEF FailStale
    <2>7. \A r \in Runs :
            Logged(audit[r], "stale_execution_recovered") \in Trail
      BY <1>audit, LoggedTrail DEF AuditEvents
    <2>8. audit' \in [Runs -> Trail]
      BY <2>6, <2>7, <1>audit
    <2>9. faults' \in 0..MaxFaults
      <3>1. Spend(o)
        BY <1>15 DEF FailStale
      <3> QED
        BY <3>1, <1>faults DEF Spend
    <2>10. /\ recovery' = NoRecovery
           /\ UNCHANGED <<tools, results, pc, locals, reply, clock>>
      BY <1>15 DEF FailStale
    <2> QED
      BY <2>5, <2>8, <2>9, <2>10 DEF TypeOK, NoRecovery, locals
  <1>16. CASE Tick
    BY <1>16 DEF TypeOK, Tick, database, locals
  <1>17. CASE UNCHANGED vars
    BY <1>17 DEF TypeOK, vars
  <1> QED
    BY <1>1, <1>2, <1>3, <1>4, <1>5, <1>6, <1>7, <1>8, <1>9, <1>10, <1>11, <1>12,
       <1>13, <1>14, <1>15, <1>16, <1>17 DEF Next, RunStep, Recover

(***************************************************************************)
(* What one step does to the rows of one execution.                        *)
(***************************************************************************)

Untouched(r) ==
    /\ executions'[r] = executions[r]
    /\ tools'[r] = tools[r]
    /\ results'[r] = results[r]
    /\ audit'[r] = audit[r]

Started(r) ==
    /\ pc[r] = "starting" /\ pc'[r] \in {"reasoning", "failing"}
    /\ ~KeyTaken(key[r])
    /\ executions'[r] = [state |-> "RUNNING", key |-> key[r],
                         updated_at |-> startedAt[r], failure_category |-> "None"]
    /\ audit'[r] = Logged(audit[r], "execution_started")
    /\ UNCHANGED <<tools, results>>

ToolStored(r) ==
    /\ pc[r] = "reasoning"
    /\ \E s \in ToolOutcomes : tools'[r] = Append(tools[r], s)
    /\ audit'[r] = Logged(audit[r], "tool_invoked")
    /\ UNCHANGED <<executions, results>>

Finalized(r) ==
    /\ pc[r] = "committing" /\ pc'[r] \in {"done", "failing"}
    /\ \E kept \in Categories :
        executions'[r] = [executions[r] EXCEPT
            !.state = TerminalOf(decision[r]), !.updated_at = clock,
            !.failure_category = kept]
    /\ results'[r] = decision[r]
    /\ audit'[r] =
          Logged(Logged(audit[r], "policy_enforced"), TerminalEvent(decision[r]))
    /\ UNCHANGED tools

FailureRecorded(r) ==
    /\ pc[r] = "recording" /\ pc'[r] = "done"
    /\ executions'[r] = [executions[r] EXCEPT
            !.state = "FAILED", !.updated_at = clock,
            !.failure_category = category[r]]
    /\ audit'[r] = Logged(audit[r], "persistence_failed")
    /\ UNCHANGED <<tools, results>>

StaleFailed(r) ==
    /\ recovery.active
    /\ r \in recovery.stale
    /\ executions'[r] = [executions[r] EXCEPT
            !.state = "FAILED", !.updated_at = recovery.now,
            !.failure_category = "STALE_EXECUTION"]
    /\ audit'[r] = Logged(audit[r], "stale_execution_recovered")
    /\ recovery'.stale = {}
    /\ UNCHANGED <<tools, results, pc>>

Written(r) ==
    Started(r) \/ ToolStored(r) \/ Finalized(r) \/ FailureRecorded(r) \/ StaleFailed(r)

\* Every step leaves the rows of an execution alone or is one of five commits.
LEMMA Footprint ==
    ASSUME TypeOK, RowsOwned, [Next]_vars, NEW r \in Runs
    PROVE  Untouched(r) \/ Written(r)
  <1>0. /\ executions \in [Runs -> Row \cup {NoRow}]
        /\ tools \in [Runs -> Seq(ToolOutcomes)]
        /\ results \in [Runs -> Result \cup {NoResult}]
        /\ audit \in [Runs -> Trail]
    BY DEF TypeOK
  <1>pc. pc \in [Runs -> Places]
    BY DEF TypeOK
  <1>1. ASSUME UNCHANGED database PROVE Untouched(r)
    BY <1>1 DEF database, Untouched
  <1>2. ASSUME NEW q \in Runs, NEW o \in CommitOutcomes, PersistStart(q, o)
        PROVE  Untouched(r) \/ Started(r)
    <2>1. CASE Applied(o) /\ q = r
      BY <1>0, <1>pc, <1>2, <2>1 DEF PersistStart, Started, FailWith, Goto
    <2>2. CASE Applied(o) /\ q # r
      BY <1>0, <1>2, <2>2 DEF PersistStart, Untouched
    <2>3. CASE ~Applied(o)
      BY <1>2, <2>3 DEF PersistStart, Untouched
    <2> QED
      BY <2>1, <2>2, <2>3
  <1>3. ASSUME NEW q \in Runs, NEW s \in ToolOutcomes, NEW o \in CommitOutcomes,
               CallTool(q, s, o)
        PROVE  Untouched(r) \/ ToolStored(r)
    <2>1. CASE Applied(o) /\ q = r
      BY <1>0, <1>3, <2>1 DEF CallTool, ToolStored
    <2>2. CASE Applied(o) /\ q # r
      BY <1>0, <1>3, <2>2 DEF CallTool, Untouched
    <2>3. CASE ~Applied(o)
      BY <1>3, <2>3 DEF CallTool, Untouched
    <2> QED
      BY <2>1, <2>2, <2>3
  <1>4. ASSUME NEW q \in Runs, NEW o \in CommitOutcomes, PersistFinal(q, o)
        PROVE  Untouched(r) \/ Finalized(r)
    <2>1. CASE Applied(o) /\ q = r
      <3>1. executions[r] \in Row
        BY <1>4, <2>1, RowState DEF PersistFinal, RowsOwned, Working
      <3>2. loaded[r] \in Categories /\ executions[r].failure_category \in Categories
        BY <3>1 DEF TypeOK, Row
      <3>3. PICK kept \in {loaded[r], executions[r].failure_category} :
                executions' = [executions EXCEPT ![r] =
                    [@ EXCEPT !.state = TerminalOf(decision[r]),
                              !.updated_at = clock,
                              !.failure_category = kept]]
        BY <1>4, <2>1 DEF PersistFinal
      <3>4. executions'[r] = [executions[r] EXCEPT
                !.state = TerminalOf(decision[r]), !.updated_at = clock,
                !.failure_category = kept]
        BY <1>0, <3>3
      <3>5. kept \in Categories
        BY <3>2, <3>3
      <3>6. /\ pc[r] = "committing"
            /\ pc'[r] \in {"done", "failing"}
        BY <1>pc, <1>4, <2>1 DEF PersistFinal, FailWith, Goto
      <3>7. /\ results'[r] = decision[r]
            /\ audit'[r] =
                  Logged(Logged(audit[r], "policy_enforced"), TerminalEvent(decision[r]))
            /\ UNCHANGED tools
        BY <1>0, <1>4, <2>1 DEF PersistFinal
      <3> QED
        BY <3>4, <3>5, <3>6, <3>7 DEF Finalized
    <2>2. CASE Applied(o) /\ q # r
      <3>1. executions'[r] = executions[r]
        BY <1>0, <1>4, <2>2 DEF PersistFinal
      <3> QED
        BY <1>0, <1>4, <2>2, <3>1 DEF PersistFinal, Untouched
    <2>3. CASE ~Applied(o)
      BY <1>4, <2>3 DEF PersistFinal, Untouched
    <2> QED
      BY <2>1, <2>2, <2>3
  <1>5. ASSUME NEW q \in Runs, NEW o \in CommitOutcomes, RecordFailure(q, o)
        PROVE  Untouched(r) \/ FailureRecorded(r)
    <2>1. CASE Applied(o) /\ q = r
      BY <1>0, <1>pc, <1>5, <2>1 DEF RecordFailure, FailureRecorded, Goto
    <2>2. CASE Applied(o) /\ q # r
      BY <1>0, <1>5, <2>2 DEF RecordFailure, Untouched
    <2>3. CASE ~Applied(o)
      BY <1>5, <2>3 DEF RecordFailure, Untouched
    <2> QED
      BY <2>1, <2>2, <2>3
  <1>6. ASSUME NEW o \in CommitOutcomes, FailStale(o)
        PROVE  Untouched(r) \/ StaleFailed(r)
    <2>1. CASE Applied(o) /\ r \in recovery.stale
      BY <1>6, <2>1 DEF FailStale, StaleFailed, NoRecovery
    <2>2. CASE Applied(o) /\ r \notin recovery.stale
      BY <1>6, <2>2 DEF FailStale, Untouched
    <2>3. CASE ~Applied(o)
      BY <1>6, <2>3 DEF FailStale, Untouched
    <2> QED
      BY <2>1, <2>2, <2>3
  <1>7. ASSUME NEW q \in Runs,
               \/ Replay(q) \/ ReplayLookupFails(q) \/ Begin(q)
               \/ StartConflicts(q) \/ StopWithoutCandidate(q)
               \/ AcceptCandidate(q) \/ LoadFinal(q) \/ LoadFailure(q) \/ Crash(q)
        PROVE  UNCHANGED database
    BY <1>7 DEF Replay, ReplayLookupFails, Begin, StartConflicts,
       StopWithoutCandidate, AcceptCandidate, LoadFinal, LoadFailure, Crash, database
  <1>8. ListStale \/ Tick \/ UNCHANGED vars => UNCHANGED database
    BY DEF ListStale, Tick, vars, database
  <1> QED
    BY <1>1, <1>2, <1>3, <1>4, <1>5, <1>6, <1>7, <1>8
       DEF Next, RunStep, Recover, Written

\* Where a step takes a run.  A run works only from the acknowledged commit of
\* _persist_start on, and records a failure only over a RUNNING row.
LEMMA Moves ==
    ASSUME TypeOK, [Next]_vars, NEW r \in Runs
    PROVE  /\ key' = key
           /\ pc'[r] \in {"idle", "starting"} => pc[r] \in {"idle", "starting"}
           /\ pc'[r] \in Working => pc[r] \in Working \/ Started(r)
           /\ pc'[r] = "recording" =>
                 pc[r] = "recording" \/ executions[r].state = "RUNNING"
  <1> DEFINE Goal ==
           /\ key' = key
           /\ pc'[r] \in {"idle", "starting"} => pc[r] \in {"idle", "starting"}
           /\ pc'[r] \in Working => pc[r] \in Working \/ Started(r)
           /\ pc'[r] = "recording" =>
                 pc[r] = "recording" \/ executions[r].state = "RUNNING"
  <1>0. /\ executions \in [Runs -> Row \cup {NoRow}]
        /\ audit \in [Runs -> Trail]
        /\ pc \in [Runs -> Places]
    BY DEF TypeOK
  <1>1. ASSUME key' = key, pc'[r] = pc[r] PROVE Goal
    BY <1>1
  <1>2. ASSUME NEW q \in Runs, q # r, RunStep(q) \/ Crash(q) PROVE Goal
    <2>1. key' = key
      BY <1>2 DEF RunStep, Replay, ReplayLookupFails, Begin, StartConflicts,
         PersistStart, CallTool, StopWithoutCandidate, AcceptCandidate, LoadFinal,
         PersistFinal, LoadFailure, RecordFailure, Crash, locals
    <2>2. pc'[r] = pc[r]
      BY <1>0, <1>2 DEF RunStep, Replay, ReplayLookupFails, Begin, StartConflicts,
         PersistStart, CallTool, StopWithoutCandidate, AcceptCandidate, LoadFinal,
         PersistFinal, LoadFailure, RecordFailure, Crash, FailWith, Goto
    <2> QED
      BY <1>1, <2>1, <2>2
  <1>3. CASE Replay(r) \/ ReplayLookupFails(r) \/ Crash(r)
    BY <1>0, <1>3 DEF Replay, ReplayLookupFails, Crash, Goto, Working, locals
  <1>4. CASE Begin(r) \/ StartConflicts(r)
    BY <1>0, <1>4 DEF Begin, StartConflicts, FailWith, Goto, Working
  <1>5. ASSUME NEW o \in CommitOutcomes, PersistStart(r, o) PROVE Goal
    <2>1. CASE o = "ok"
      <3>1. Started(r)
        BY <1>0, <1>5, <2>1 DEF PersistStart, Applied, Started, Goto
      <3> QED
        BY <1>0, <1>5, <2>1, <3>1 DEF PersistStart, Goto, Working
    <2>2. CASE o # "ok"
      BY <1>0, <1>5, <2>2 DEF PersistStart, FailWith, Goto, Working
    <2> QED
      BY <2>1, <2>2
  <1>6. ASSUME NEW s \in ToolOutcomes, NEW o \in CommitOutcomes, CallTool(r, s, o)
        PROVE  Goal
    BY <1>0, <1>6 DEF CallTool, FailWith, Goto, Working
  <1>7. CASE StopWithoutCandidate(r) \/ AcceptCandidate(r) \/ LoadFinal(r)
    BY <1>0, <1>7 DEF StopWithoutCandidate, AcceptCandidate, LoadFinal, Goto, Working
  <1>8. ASSUME NEW o \in CommitOutcomes, PersistFinal(r, o) PROVE Goal
    BY <1>0, <1>8 DEF PersistFinal, FailWith, Goto, Working
  <1>9. CASE LoadFailure(r)
    BY <1>0, <1>9 DEF LoadFailure, Recordable, Goto, Working, locals
  <1>10. ASSUME NEW o \in CommitOutcomes, RecordFailure(r, o) PROVE Goal
    BY <1>0, <1>10 DEF RecordFailure, Goto, Working, locals
  <1>11. CASE Recover \/ Tick \/ UNCHANGED vars
    BY <1>1, <1>11 DEF Recover, ListStale, FailStale, Tick, vars, locals
  <1> QED
    BY <1>2, <1>3, <1>4, <1>5, <1>6, <1>7, <1>8, <1>9, <1>10, <1>11 DEF Next, RunStep

LEMMA OneRunMoves ==
    ASSUME TypeOK, [Next]_vars, NEW q \in Runs, NEW r \in Runs,
           pc'[q] # pc[q], pc'[r] # pc[r]
    PROVE  q = r
  <1>1. pc \in [Runs -> Places]
    BY DEF TypeOK
  <1>2. ASSUME NEW x \in Runs, RunStep(x) \/ Crash(x)
        PROVE  \A y \in Runs : y # x => pc'[y] = pc[y]
    BY <1>1, <1>2 DEF RunStep, Replay, ReplayLookupFails, Begin, StartConflicts,
       PersistStart, CallTool, StopWithoutCandidate, AcceptCandidate, LoadFinal,
       PersistFinal, LoadFailure, RecordFailure, Crash, FailWith, Goto
  <1>3. CASE Recover \/ Tick \/ UNCHANGED vars
    BY <1>3 DEF Recover, ListStale, FailStale, Tick, vars
  <1> QED
    BY <1>2, <1>3 DEF Next

\* Every commit on a row keeps its key, and makes a row of none only for its run.
LEMMA RowsPersist ==
    ASSUME TypeOK, RowsOwned, [Next]_vars, NEW r \in Runs
    PROVE  /\ Exists(r) => executions'[r] # NoRow /\ executions'[r].key = executions[r].key
           /\ ~Exists(r) => executions'[r] = NoRow \/ Started(r)
           /\ Started(r) => executions'[r] # NoRow /\ executions'[r].key = key[r]
  <1>1. CASE Untouched(r) /\ ~Started(r)
    BY <1>1 DEF Untouched, Exists
  <1>2. CASE Started(r)
    BY <1>2 DEF Started, RowsOwned, NoRow
  <1>3. CASE ToolStored(r)
    BY <1>3 DEF ToolStored, Exists, Started
  <1>4. CASE Finalized(r)
    <2>1. executions[r] \in Row
      BY <1>4, RowState DEF Finalized, RowsOwned, Working
    <2> QED
      BY <1>4, <2>1 DEF Finalized, Row, NoRow, Exists, TerminalOf, Started
  <1>5. CASE FailureRecorded(r)
    <2>1. executions[r] \in Row
      BY <1>5, RowState DEF FailureRecorded, RowsOwned
    <2> QED
      <3>1. Exists(r) /\ ~Started(r)
        BY <1>5 DEF FailureRecorded, RowsOwned, Started
      <3> QED
        BY <1>5, <2>1, <3>1 DEF FailureRecorded, Row, NoRow
  <1>6. CASE StaleFailed(r)
    <2>1. executions[r] \in Row
      BY <1>6, RowState DEF StaleFailed, RowsOwned
    <2> QED
      BY <1>6, <2>1 DEF StaleFailed, Row, NoRow, Exists, Started, RowsOwned
  <1> QED
    BY <1>1, <1>2, <1>3, <1>4, <1>5, <1>6, Footprint DEF Written

LEMMA RowsStep == TypeOK /\ RowsOwned /\ [Next]_vars => RowsOwned'
  <1> SUFFICES ASSUME TypeOK, RowsOwned, [Next]_vars PROVE RowsOwned'
    OBVIOUS
  <1>1. ASSUME NEW r \in Runs, pc'[r] \in {"idle", "starting"}
        PROVE  executions'[r] = NoRow
    <2>1. pc[r] \in {"idle", "starting"} /\ ~Exists(r)
      BY <1>1, Moves DEF RowsOwned
    <2>2. ~Started(r)
      BY <1>1 DEF Started
    <2> QED
      BY <2>1, <2>2, RowsPersist
  <1>2. ASSUME NEW r \in Runs, pc'[r] \in Working \cup {"recording"}
        PROVE  executions'[r] # NoRow
    <2>1. CASE Started(r)
      BY <2>1, RowsPersist
    <2>2. CASE ~Started(r)
      <3>1. pc[r] \in Working \cup {"recording"} \/ executions[r].state = "RUNNING"
        BY <1>2, <2>2, Moves
      <3>2. Exists(r)
        BY <3>1, RowState DEF RowsOwned, States
      <3> QED
        BY <3>2, RowsPersist
    <2> QED
      BY <2>1, <2>2
  <1>3. ASSUME NEW r \in Runs, executions'[r] # NoRow
        PROVE  executions'[r].key = key'[r]
    BY <1>3, RowsPersist, Moves DEF RowsOwned
  <1>4. ASSUME NEW r \in recovery'.stale PROVE executions'[r] # NoRow
    <2>1. CASE recovery'.stale \subseteq recovery.stale
      BY <1>4, <2>1, RowsPersist DEF RowsOwned, TypeOK
    <2>2. CASE ListStale
      <3>1. r \in Runs /\ executions[r].state = "RUNNING" /\ executions' = executions
        BY <1>4, <2>2 DEF ListStale, Stale, database
      <3> QED
        BY <3>1, RowState DEF Exists, States
    <2>3. ASSUME NEW o \in CommitOutcomes, FailStale(o)
          PROVE  recovery'.stale \subseteq recovery.stale
      BY <2>3 DEF FailStale, NoRecovery
    <2>4. ASSUME NEW q \in Runs, RunStep(q) \/ Crash(q) PROVE recovery' = recovery
      BY <2>4 DEF RunStep, Replay, ReplayLookupFails, Begin, StartConflicts,
         PersistStart, CallTool, StopWithoutCandidate, AcceptCandidate, LoadFinal,
         PersistFinal, LoadFailure, RecordFailure, Crash
    <2>5. Tick \/ UNCHANGED vars => recovery' = recovery
      BY DEF Tick, vars
    <2> QED
      BY <2>1, <2>2, <2>3, <2>4, <2>5 DEF Next, Recover
  <1> QED
    BY <1>1, <1>2, <1>3, <1>4 DEF RowsOwned, Exists

LEMMA InitTypes == Init => TypeOK /\ RowsOwned
  <1>1. Init => TypeOK
    BY LimitsAssumption DEF Init, TypeOK, Trail, NoTrail, NoRow, NoResult, NoReply, NoRecovery,
       SafeReview, Result, Dispositions, Categories, RunFailures, Places
  <1>2. Init => RowsOwned
    BY DEF Init, RowsOwned, Exists, NoRow, NoRecovery, Working
  <1> QED
    BY <1>1, <1>2

\* Every variable keeps its type: the rows written by application/orchestrator.py
\* and application/recovery_service.py are rows of the schema, and what they
\* update exists.
THEOREM TypeCorrect == Spec => [](TypeOK /\ RowsOwned)
  BY InitTypes, TypeStep, RowsStep, PTL DEF Spec

(***************************************************************************)
(* Idempotency.                                                            *)
(***************************************************************************)

LEMMA KeyStep ==
    TypeOK /\ RowsOwned /\ OneExecutionPerKey /\ [Next]_vars => OneExecutionPerKey'
  <1> SUFFICES ASSUME TypeOK, RowsOwned, OneExecutionPerKey, [Next]_vars,
                      NEW e \in Runs, NEW f \in Runs,
                      executions'[e] # NoRow, executions'[f] # NoRow,
                      executions'[e].key = executions'[f].key
               PROVE  e = f
    BY DEF OneExecutionPerKey, Exists
  <1>1. CASE Exists(e) /\ Exists(f)
    BY <1>1, RowsPersist DEF OneExecutionPerKey
  <1>2. CASE Exists(e) /\ ~Exists(f)
    <2>1. Started(f) /\ executions'[f].key = key[f] /\ executions'[e].key = executions[e].key
      BY <1>2, RowsPersist
    <2>2. ~KeyTaken(key[f])
      BY <2>1 DEF Started
    <2> QED
      BY <1>2, <2>1, <2>2 DEF KeyTaken, Exists
  <1>3. CASE ~Exists(e) /\ Exists(f)
    <2>1. Started(e) /\ executions'[e].key = key[e] /\ executions'[f].key = executions[f].key
      BY <1>3, RowsPersist
    <2>2. ~KeyTaken(key[e])
      BY <2>1 DEF Started
    <2> QED
      BY <1>3, <2>1, <2>2 DEF KeyTaken, Exists
  <1>4. CASE ~Exists(e) /\ ~Exists(f)
    \* A commit starts one execution: two starts in one step are one run's.
    <2>1. Started(e) /\ Started(f)
      BY <1>4, RowsPersist
    <2>2. pc'[e] # pc[e] /\ pc'[f] # pc[f]
      BY <2>1 DEF Started
    <2> QED
      BY <2>2, OneRunMoves
  <1> QED
    BY <1>1, <1>2, <1>3, <1>4

LEMMA KeysOwned == TypeOK /\ RowsOwned /\ OneExecutionPerKey => OneWorkerPerKey
  BY DEF RowsOwned, OneExecutionPerKey, OneWorkerPerKey

\* A key names at most one execution and at most one run at work, whatever the
\* number of racing requests, failed commits and crashes: the lookup of
\* _find_replay alone does not exclude it, the unique column does.
THEOREM Idempotency == Spec => [](OneExecutionPerKey /\ OneWorkerPerKey)
  <1>1. Init => OneExecutionPerKey
    BY DEF Init, OneExecutionPerKey, Exists
  <1> QED
    BY <1>1, InitTypes, TypeStep, RowsStep, KeyStep, KeysOwned, PTL DEF Spec

\* Never do two runs spend reasoner and tool calls on one key.
THEOREM OneWorker == Spec => []OneWorkerPerKey
  BY Idempotency, PTL

(***************************************************************************)
(* The audit trail.                                                        *)
(***************************************************************************)

Endings == {"execution_completed", "execution_needs_review", "persistence_failed",
            "stale_execution_recovered"}

LEMMA AnnouncedStates ==
    /\ DOMAIN Announces = Endings
    /\ Endings \subseteq AuditEvents
    /\ Announces["execution_completed"] = "COMPLETED"
    /\ Announces["execution_needs_review"] = "NEEDS_REVIEW"
    /\ Announces["persistence_failed"] = "FAILED"
    /\ Announces["stale_execution_recovered"] = "FAILED"
    /\ \A e \in Endings : Announces[e] # "RUNNING"
  BY DEF Announces, Endings, AuditEvents

\* A trail tells of a state by an ending event, and of RUNNING by having none.
LEMMA ToldStates ==
    ASSUME NEW trail \in Trail, NEW state
    PROVE  state \in Told(trail) <=>
              \/ \E e \in Endings : trail[e] > 0 /\ Announces[e] = state
              \/ state = "RUNNING" /\ \A e \in Endings : trail[e] = 0
  <1>1. \A e \in Endings : trail[e] \in Nat
    BY AnnouncedStates DEF Trail
  <1>2. ASSUME NEW e \in Endings PROVE ~(trail[e] > 0) <=> trail[e] = 0
    BY <1>1
  <1> QED
    BY <1>2, AnnouncedStates DEF Told

LEMMA ToldByEnding ==
    ASSUME NEW trail \in Trail, NEW e \in Endings
    PROVE  Announces[e] \in Told(Logged(trail, e))
  <1>1. /\ e \in AuditEvents /\ trail[e] \in Nat
        /\ Logged(trail, e) \in Trail /\ Logged(trail, e)[e] = trail[e] + 1
    BY AnnouncedStates, LoggedTrail
  <1>2. Logged(trail, e)[e] > 0
    BY <1>1
  <1> QED
    BY <1>1, <1>2, ToldStates

LEMMA ToldBefore ==
    ASSUME NEW trail \in Trail, NEW e \in AuditEvents \ Endings
    PROVE  /\ Told(Logged(trail, e)) = Told(trail)
           /\ OwnEndings(Logged(trail, e)) = OwnEndings(trail)
  <1>1. \A f \in Endings : Logged(trail, e)[f] = trail[f]
    BY AnnouncedStates, LoggedTrail
  <1> QED
    BY <1>1, AnnouncedStates DEF Told, OwnEndings, Endings

LEMMA OwnEndingAdded ==
    ASSUME NEW trail \in Trail, NEW e \in Endings
    PROVE  /\ OwnEndings(trail) \in Nat
           /\ OwnEndings(Logged(trail, e)) =
                OwnEndings(trail) + IF e = "stale_execution_recovered" THEN 0 ELSE 1
  <1>0. e \in AuditEvents /\ \A f \in Endings : f \in AuditEvents
    BY AnnouncedStates
  <1>1. /\ \A f \in Endings : trail[f] \in Nat
        /\ Logged(trail, e)[e] = trail[e] + 1
        /\ \A f \in Endings \ {e} : Logged(trail, e)[f] = trail[f]
    BY <1>0, LoggedTrail
  <1>2. /\ trail["execution_completed"] \in Nat
        /\ trail["execution_needs_review"] \in Nat
        /\ trail["persistence_failed"] \in Nat
    BY <1>1 DEF Endings
  <1>3. CASE e = "execution_completed"
    BY <1>1, <1>2, <1>3 DEF OwnEndings, Endings
  <1>4. CASE e = "execution_needs_review"
    BY <1>1, <1>2, <1>4 DEF OwnEndings, Endings
  <1>5. CASE e = "persistence_failed"
    BY <1>1, <1>2, <1>5 DEF OwnEndings, Endings
  <1>6. CASE e = "stale_execution_recovered"
    BY <1>1, <1>2, <1>6 DEF OwnEndings, Endings
  <1> QED
    BY <1>3, <1>4, <1>5, <1>6 DEF Endings

\* A run that may still end its execution has not done so.
AuditAccounts(r) ==
    IF Exists(r)
    THEN /\ audit[r]["execution_started"] = 1
         /\ OwnEndings(audit[r]) <= 1
         /\ executions[r].state \in Told(audit[r])
         /\ pc[r] \in Working \cup {"recording"} => OwnEndings(audit[r]) = 0
    ELSE audit[r] = NoTrail

Accounts == \A r \in Runs : AuditAccounts(r)

\* A run ends its execution no more once it has, and goes to where it could only from
\* where it could, or to record a failure over what is RUNNING still.
LEMMA EndingRuns ==
    ASSUME TypeOK, RowsOwned, Accounts, [Next]_vars, NEW r \in Runs, Exists(r),
           pc'[r] \in Working \cup {"recording"}
    PROVE  OwnEndings(audit[r]) = 0
  <1>1. \/ pc[r] \in Working \cup {"recording"}
        \/ executions[r].state = "RUNNING"
        \/ Started(r)
    BY Moves
  <1>2. ~Started(r)
    BY DEF Started, RowsOwned
  <1>3. CASE executions[r].state = "RUNNING"
    <2>1. audit[r] \in Trail /\ "RUNNING" \in Told(audit[r])
      BY <1>3 DEF TypeOK, Accounts, AuditAccounts
    <2>2. \A e \in Endings : audit[r][e] = 0
      BY <2>1, ToldStates, AnnouncedStates
    <2> QED
      BY <2>2 DEF OwnEndings, Endings
  <1> QED
    BY <1>1, <1>2, <1>3 DEF Accounts, AuditAccounts

LEMMA AuditStep ==
    TypeOK /\ RowsOwned /\ Accounts /\ [Next]_vars => Accounts'
  <1> SUFFICES ASSUME TypeOK, RowsOwned, Accounts, [Next]_vars, NEW r \in Runs
               PROVE  AuditAccounts(r)'
    BY DEF Accounts
  <1>0. audit[r] \in Trail
    BY DEF TypeOK
  <1>old. AuditAccounts(r)
    BY DEF Accounts
  <1>1. CASE Untouched(r)
    <2>1. CASE Exists(r)
      BY <1>1, <1>old, <2>1, EndingRuns DEF Untouched, AuditAccounts, Exists
    <2>2. CASE ~Exists(r)
      BY <1>1, <1>old, <2>2 DEF Untouched, AuditAccounts, Exists
    <2> QED
      BY <2>1, <2>2
  <1>2. CASE Started(r)
    <2>1. /\ executions'[r].state = "RUNNING" /\ executions'[r] # NoRow
      BY <1>2, RowsPersist DEF Started
    <2>2. /\ NoTrail \in Trail /\ audit[r] = NoTrail
          /\ "execution_started" \in AuditEvents \ Endings
      BY <1>2, <1>old DEF Started, RowsOwned, AuditAccounts, NoTrail, Trail, AuditEvents, Endings
    <2>3. /\ audit'[r]["execution_started"] = 1
          /\ Told(audit'[r]) = Told(NoTrail)
          /\ OwnEndings(audit'[r]) = OwnEndings(NoTrail)
      BY <1>2, <2>2, ToldBefore, LoggedTrail DEF Started, NoTrail
    <2>4. "RUNNING" \in Told(NoTrail) /\ OwnEndings(NoTrail) = 0
      BY <2>2, ToldStates, AnnouncedStates DEF NoTrail, OwnEndings, Endings
    <2> QED
      BY <2>1, <2>3, <2>4 DEF AuditAccounts, Exists, Told, OwnEndings
  <1>3. CASE ToolStored(r)
    <2>1. Exists(r) /\ executions' = executions
      BY <1>3 DEF ToolStored, RowsOwned, Working
    <2>2. "tool_invoked" \in AuditEvents \ Endings
      BY DEF AuditEvents, Endings
    <2> DEFINE trail == Logged(audit[r], "tool_invoked")
    <2>3. /\ trail["execution_started"] = audit[r]["execution_started"]
          /\ Told(trail) = Told(audit[r])
          /\ OwnEndings(trail) = OwnEndings(audit[r])
      <3>1. "execution_started" \in AuditEvents \ {"tool_invoked"}
        BY DEF AuditEvents
      <3>2. trail["execution_started"] = audit[r]["execution_started"]
        BY <1>0, <2>2, <3>1, LoggedTrail
      <3> QED
        BY <1>0, <2>2, <3>2, ToldBefore
    <2>5. audit'[r] = trail
      BY <1>3 DEF ToolStored
    <2> HIDE DEF trail
    <2>4. pc'[r] \in Working \cup {"recording"} => OwnEndings(audit[r]) = 0
      BY <2>1, EndingRuns
    <2> QED
      BY <1>old, <2>1, <2>3, <2>4, <2>5 DEF AuditAccounts, Exists, Told, OwnEndings
  <1>4. ASSUME NEW e \in Endings, NEW trail \in Trail, Exists(r),
               executions'[r] # NoRow, executions'[r].state = Announces[e],
               audit'[r] = Logged(trail, e),
               trail["execution_started"] = audit[r]["execution_started"],
               OwnEndings(trail) = OwnEndings(audit[r]),
               \/ e = "stale_execution_recovered"
               \/ /\ pc[r] \in Working \cup {"recording"}
                  /\ pc'[r] \in {"done", "failing"}
        PROVE  AuditAccounts(r)'
    <2>1. audit'[r]["execution_started"] = 1
      <3>1. e \in AuditEvents /\ e # "execution_started" /\ "execution_started" \in AuditEvents
        BY DEF Endings, AuditEvents
      <3> QED
        BY <1>4, <1>old, <3>1, LoggedTrail DEF AuditAccounts
    <2>2. executions'[r].state \in Told(audit'[r])
      BY <1>4, ToldByEnding
    <2>3. OwnEndings(audit'[r]) <= 1
      BY <1>0, <1>4, <1>old, OwnEndingAdded DEF AuditAccounts
    <2>4. pc'[r] \in Working \cup {"recording"} => OwnEndings(audit'[r]) = 0
      <3>1. CASE e = "stale_execution_recovered"
        BY <1>4, <3>1, OwnEndingAdded, EndingRuns
      <3>2. CASE pc'[r] \in {"done", "failing"}
        BY <3>2 DEF Working
      <3> QED
        BY <1>4, <3>1, <3>2
    <2> QED
      BY <1>4, <2>1, <2>2, <2>3, <2>4 DEF AuditAccounts, Exists, Told, OwnEndings
  <1>5. CASE Finalized(r)
    <2>1. Exists(r) /\ executions[r] \in Row
      BY <1>5, RowState DEF Finalized, RowsOwned, Working
    <2>2. executions'[r].state = TerminalOf(decision[r]) /\ executions'[r] # NoRow
      BY <1>5, <2>1, RowsPersist DEF Finalized, Row
    <2>3. /\ TerminalEvent(decision[r]) \in Endings
          /\ Announces[TerminalEvent(decision[r])] = TerminalOf(decision[r])
      BY AnnouncedStates DEF TerminalEvent, TerminalOf, Endings
    <2> DEFINE trail == Logged(audit[r], "policy_enforced")
    <2>4. /\ trail \in Trail
          /\ trail["execution_started"] = audit[r]["execution_started"]
          /\ OwnEndings(trail) = OwnEndings(audit[r])
      <3>1. "policy_enforced" \in AuditEvents \ Endings /\ "execution_started" \in AuditEvents
        BY DEF AuditEvents, Endings
      <3> QED
        BY <1>0, <3>1, ToldBefore, LoggedTrail
    <2>5. /\ audit'[r] = Logged(trail, TerminalEvent(decision[r]))
          /\ pc[r] \in Working /\ pc'[r] \in {"done", "failing"}
      BY <1>5 DEF Finalized, Working
    <2> HIDE DEF trail
    <2> QED
      BY <1>4, <2>1, <2>2, <2>3, <2>4, <2>5
  <1>6. CASE FailureRecorded(r)
    <2>1. Exists(r) /\ executions[r] \in Row
      BY <1>6, RowState DEF FailureRecorded, RowsOwned
    <2>2. executions'[r].state = "FAILED" /\ executions'[r] # NoRow
      BY <1>6, <2>1, RowsPersist DEF FailureRecorded, Row
    <2>3. "persistence_failed" \in Endings
      BY DEF Endings
    <2> QED
      BY <1>0, <1>4, <1>6, <2>1, <2>2, <2>3, AnnouncedStates DEF FailureRecorded
  <1>7. CASE StaleFailed(r)
    <2>1. Exists(r) /\ executions[r] \in Row
      BY <1>7, RowState DEF StaleFailed, RowsOwned
    <2>2. executions'[r].state = "FAILED" /\ executions'[r] # NoRow
      BY <1>7, <2>1, RowsPersist DEF StaleFailed, Row
    <2>3. "stale_execution_recovered" \in Endings
      BY DEF Endings
    <2> QED
      BY <1>0, <1>4, <1>7, <2>1, <2>2, <2>3, AnnouncedStates DEF StaleFailed
  <1> QED
    BY <1>1, <1>2, <1>3, <1>5, <1>6, <1>7, Footprint DEF Written

\* Every execution was started once, is ended by its run at most once, and is in a state
\* that the events of its trail tell of, however late recovery's commit comes.
THEOREM AuditIsTruthful == Spec => []AuditExplainsState
  <1>1. Init => Accounts
    BY DEF Init, Accounts, AuditAccounts, Exists
  <1>2. Accounts => AuditExplainsState
    BY DEF Accounts, AuditAccounts, AuditExplainsState
  <1> QED
    BY <1>1, <1>2, InitTypes, TypeStep, RowsStep, AuditStep, PTL DEF Spec
=============================================================================
