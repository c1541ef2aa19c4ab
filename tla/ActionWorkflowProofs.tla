------------------------ MODULE ActionWorkflowProofs ------------------------
(***************************************************************************)
(* Theorems about ActionWorkflow for every number of calls, actions and    *)
(* actors, every lifetime and threshold, and calls of any duration but in  *)
(* the last theorem, which limits it.                                      *)
(***************************************************************************)
EXTENDS ActionWorkflow, TLAPS

(***************************************************************************)
(* Rows.                                                                   *)
(***************************************************************************)

LEMMA NoRows == NoApproval \notin Approval /\ NoExecution \notin Execution
  <1>1. \A row \in Approval : row.decision # "NONE"
    BY DEF Approval, Decisions
  <1>2. \A row \in Execution : row.state # "NONE"
    BY DEF Execution, Ended
  <1> QED
    BY <1>1, <1>2 DEF NoApproval, NoExecution

LEMMA ApprovalRow ==
    ASSUME TypeOK, NEW a \in Actions
    PROVE  /\ Decided(a) <=> approvals[a] \in Approval
           /\ Decided(a) <=> approvals[a].decision # "NONE"
           /\ Decided(a) <=> approvals[a].decision \in Decisions
  BY NoRows DEF TypeOK, Decided, Approval, NoApproval, Decisions

LEMMA ExecutionRow ==
    ASSUME TypeOK, NEW a \in Actions
    PROVE  /\ Executed(a) <=> executions[a] \in Execution
           /\ Executed(a) <=> executions[a].state # "NONE"
  BY NoRows DEF TypeOK, Executed, Execution, NoExecution, Ended

LEMMA StateUpdate ==
    ASSUME NEW row \in Execution, NEW s \in {"EXECUTING"} \cup Ended
    PROVE  /\ [row EXCEPT !.state = s] \in Execution
           /\ [row EXCEPT !.state = s].state = s
           /\ [row EXCEPT !.state = s].started_at = row.started_at
  BY DEF Execution

LEMMA LoggedTrail ==
    ASSUME NEW trail \in Trail, NEW e \in AuditEvents
    PROVE  /\ Logged(trail, e) \in Trail
           /\ \A f \in AuditEvents : trail[f] \in Nat
           /\ \A f \in AuditEvents :
                  Logged(trail, e)[f] = trail[f] + (IF f = e THEN 1 ELSE 0)
  BY DEF Logged, Trail

\* A simulation has inserted its row, and recovery lists rows that exist.
RowsOwned ==
    /\ \A c \in Calls : pc[c] \in Simulating => Executed(Subject(c))
    /\ \A a \in recovery.stale : Executed(a)

\* What a call has been checked for.
Checked ==
    \A c \in Calls :
        /\ pc[c] \in Live => request[c].actor \in Reviewers
        /\ pc[c] = "deciding" => request[c].op \in Decisions

(***************************************************************************)
(* What one step does to one call, and to the rows of one action.          *)
(***************************************************************************)

Rests(c) == pc'[c] = pc[c] /\ now'[c] = now[c] /\ reply'[c] = reply[c]

Arrives(c) ==
    /\ pc[c] = "idle" /\ pc'[c] = "loading"
    /\ request[c].actor \in Reviewers
    /\ UNCHANGED <<database, simulated, reply>>

\* A step from loading that neither writes nor answers.
Proceeds(c) ==
    /\ pc[c] = "loading"
    /\ \/ pc'[c] = "deciding" /\ request[c].op \in Decisions
       \/ pc'[c] = "denying"
       \/ /\ pc'[c] = "starting"
          /\ DenialsOf(approvals[Subject(c)], now[c]) = {}
    /\ UNCHANGED <<database, simulated, now, reply>>

Begins(c) ==
    /\ pc[c] = "starting" /\ pc'[c] = "simulating"
    /\ ~Executed(Subject(c))
    /\ executions'[Subject(c)] = [state |-> "EXECUTING", started_at |-> now[c]]
    /\ UNCHANGED <<simulated, now, reply>>

Executes(c) ==
    /\ pc[c] = "simulating" /\ pc'[c] \in {"succeeding", "failing"}
    /\ simulated' = [simulated EXCEPT ![Subject(c)] = @ + 1]
    /\ UNCHANGED <<database, now, reply>>

\* A call ends, and what it is told it is told of the rows.
Ends(c) ==
    /\ pc[c] \in {"idle"} \cup Live /\ pc'[c] \in {"done", "crashed"}
    /\ reply'[c] = "RECORDED" =>
           \/ reply[c] = "RECORDED"
           \/ /\ approvals'[Subject(c)].decision = request[c].op
              /\ approvals'[Subject(c)].reviewer = request[c].actor
              /\ request[c].op \in Decisions
    /\ reply'[c] = "SUCCEEDED" =>
           \/ reply[c] = "SUCCEEDED"
           \/ executions'[Subject(c)].state = "SUCCEEDED"
    /\ UNCHANGED <<simulated, now>>

Moves(c) == Arrives(c) \/ Proceeds(c) \/ Begins(c) \/ Executes(c) \/ Ends(c)

LEMMA CallFootprint ==
    ASSUME TypeOK, RowsOwned, Checked, [Next]_vars, NEW c \in Calls
    PROVE  Rests(c) \/ Moves(c)
  <1>0. /\ pc \in [Calls -> Places]
        /\ now \in [Calls -> 0..MaxTime]
        /\ reply \in [Calls -> Replies]
        /\ request \in [Calls -> Request]
        /\ approvals \in [Actions -> Approval \cup {NoApproval}]
        /\ executions \in [Actions -> Execution \cup {NoExecution}]
    BY DEF TypeOK
  <1>s. Subject(c) \in Actions
    BY <1>0 DEF Subject, Request
  <1>1. ASSUME NEW d \in Calls, Refuse(d) PROVE Rests(c) \/ Moves(c)
    BY <1>0, <1>1 DEF Refuse, Answer, Goto, Rests, Moves, Ends
  <1>2. ASSUME NEW d \in Calls, Arrive(d) PROVE Rests(c) \/ Moves(c)
    BY <1>0, <1>2 DEF Arrive, IsReviewer, Goto, Rests, Moves, Arrives
  <1>3. ASSUME NEW d \in Calls, LoadFails(d) PROVE Rests(c) \/ Moves(c)
    BY <1>0, <1>3 DEF LoadFails, Answer, Goto, Rests, Moves, Ends, Live
  <1>4. ASSUME NEW d \in Calls, AnswerDecided(d) PROVE Rests(c) \/ Moves(c)
    BY <1>0, <1>4 DEF AnswerDecided, SameDecision, Answer, Goto, Rests, Moves, Ends,
       Live, database
  <1>5. ASSUME NEW d \in Calls, LoadUndecided(d) PROVE Rests(c) \/ Moves(c)
    BY <1>0, <1>5 DEF LoadUndecided, Goto, Rests, Moves, Proceeds
  <1>6. ASSUME NEW d \in Calls, DecisionConflicts(d) PROVE Rests(c) \/ Moves(c)
    BY <1>0, <1>6 DEF DecisionConflicts, Answer, Goto, Rests, Moves, Ends, Live
  <1>7. ASSUME NEW d \in Calls, NEW o \in CommitOutcomes, Decide(d, o)
        PROVE  Rests(c) \/ Moves(c)
    <2>1. CASE c # d
      BY <1>0, <1>7, <2>1 DEF Decide, Answer, Goto, Rests
    <2>2. CASE c = d
      <3>1. /\ pc[c] = "deciding" /\ pc'[c] = "done"
            /\ request[c].op \in Decisions
            /\ UNCHANGED <<simulated, now>>
        BY <1>0, <1>7, <2>2 DEF Decide, Answer, Goto, Checked
      <3>2. reply'[c] = "RECORDED" => o = "ok"
        BY <1>0, <1>7, <2>2 DEF Decide, Answer
      <3>3. o = "ok" => /\ approvals'[Subject(c)].decision = request[c].op
                        /\ approvals'[Subject(c)].reviewer = request[c].actor
        BY <1>0, <1>s, <1>7, <2>2 DEF Decide, Applied
      <3>4. reply'[c] # "SUCCEEDED"
        BY <1>0, <1>7, <2>2 DEF Decide, Answer
      <3> QED
        BY <3>1, <3>2, <3>3, <3>4 DEF Moves, Ends, Live
    <2> QED
      BY <2>1, <2>2
  <1>8. ASSUME NEW d \in Calls, AnswerSucceeded(d) PROVE Rests(c) \/ Moves(c)
    BY <1>0, <1>8 DEF AnswerSucceeded, HasSucceeded, Answer, Goto, Rests, Moves, Ends,
       Live, database
  <1>9. ASSUME NEW d \in Calls, Validate(d) PROVE Rests(c) \/ Moves(c)
    BY <1>0, <1>9 DEF Validate, Goto, Rests, Moves, Proceeds
  <1>10. ASSUME NEW d \in Calls, NEW o \in CommitOutcomes, Deny(d, o)
         PROVE  Rests(c) \/ Moves(c)
    <2>1. code[d] \notin {"RECORDED", "SUCCEEDED"}
      BY DEF TypeOK, Denials
    <2> QED
      BY <1>0, <1>10, <2>1 DEF Deny, Answer, Goto, Rests, Moves, Ends, Live
  <1>11. ASSUME NEW d \in Calls, StartConflicts(d) PROVE Rests(c) \/ Moves(c)
    BY <1>0, <1>11 DEF StartConflicts, Answer, Goto, Rests, Moves, Ends, Live
  <1>12. ASSUME NEW d \in Calls, NEW o \in CommitOutcomes, StartSimulation(d, o)
         PROVE  Rests(c) \/ Moves(c)
    <2>1. CASE c # d
      BY <1>0, <1>12, <2>1 DEF StartSimulation, Answer, Goto, Rests
    <2>2. CASE c = d /\ o = "ok"
      <3>1. /\ pc[c] = "starting" /\ pc'[c] = "simulating"
            /\ ~Executed(Subject(c))
            /\ UNCHANGED <<simulated, now, reply>>
        BY <1>0, <1>12, <2>2 DEF StartSimulation, Goto
      <3>2. executions'[Subject(c)] = [state |-> "EXECUTING", started_at |-> now[c]]
        BY <1>0, <1>s, <1>12, <2>2 DEF StartSimulation, Applied
      <3> QED
        BY <3>1, <3>2 DEF Moves, Begins
    <2>3. CASE c = d /\ o # "ok"
      BY <1>0, <1>12, <2>3 DEF StartSimulation, Answer, Goto, Moves, Ends, Live
    <2> QED
      BY <2>1, <2>2, <2>3
  <1>13. ASSUME NEW d \in Calls, Simulate(d) PROVE Rests(c) \/ Moves(c)
    BY <1>0, <1>13 DEF Simulate, Goto, Rests, Moves, Executes
  <1>14. ASSUME NEW d \in Calls, NEW o \in CommitOutcomes, Succeed(d, o)
         PROVE  Rests(c) \/ Moves(c)
    <2>1. CASE c # d
      BY <1>0, <1>14, <2>1 DEF Succeed, Answer, Goto, Rests
    <2>2. CASE c = d
      <3>1. /\ pc[c] = "succeeding" /\ pc'[c] = "done"
            /\ reply'[c] # "RECORDED"
            /\ reply'[c] = "SUCCEEDED" => o = "ok"
            /\ UNCHANGED <<simulated, now>>
        BY <1>0, <1>14, <2>2 DEF Succeed, Answer, Goto
      <3>2. executions[Subject(c)] \in Execution
        BY <1>s, <3>1, ExecutionRow DEF RowsOwned, Simulating
      <3>3. o = "ok" => executions'[Subject(c)].state = "SUCCEEDED"
        BY <1>0, <1>s, <1>14, <2>2, <3>2, StateUpdate DEF Succeed, End, Applied, Ended
      <3> QED
        BY <3>1, <3>3 DEF Moves, Ends, Live, Simulating
    <2> QED
      BY <2>1, <2>2
  <1>15. ASSUME NEW d \in Calls, NEW o \in CommitOutcomes, FinishFailed(d, o)
         PROVE  Rests(c) \/ Moves(c)
    BY <1>0, <1>15 DEF FinishFailed, Answer, Goto, Rests, Moves, Ends, Live, Simulating
  <1>16. ASSUME NEW d \in Calls, Crash(d) PROVE Rests(c) \/ Moves(c)
    BY <1>0, <1>16 DEF Crash, Goto, Rests, Moves, Ends
  <1>17. ASSUME UNCHANGED <<pc, now, reply>> PROVE Rests(c)
    BY <1>17 DEF Rests
  <1>18. Recover \/ Tick \/ UNCHANGED vars => UNCHANGED <<pc, now, reply>>
    BY DEF Recover, ListStale, FailStale, Tick, vars
  <1> QED
    BY <1>1, <1>2, <1>3, <1>4, <1>5, <1>6, <1>7, <1>8, <1>9, <1>10, <1>11, <1>12,
       <1>13, <1>14, <1>15, <1>16, <1>17, <1>18 DEF Next, CallStep

\* Only one call moves at a time.
LEMMA OneMover ==
    ASSUME TypeOK, [Next]_vars, NEW c \in Calls, NEW d \in Calls,
           pc'[c] # pc[c], pc'[d] # pc[d]
    PROVE  c = d
  <1>1. pc \in [Calls -> Places]
    BY DEF TypeOK
  <1>2. ASSUME NEW e \in Calls, CallStep(e) \/ Crash(e)
        PROVE  pc' = pc \/ \E place : pc' = [pc EXCEPT ![e] = place]
    BY <1>2 DEF CallStep, Refuse, Arrive, LoadFails, AnswerDecided, LoadUndecided,
       DecisionConflicts, AnswerSucceeded, Validate, StartConflicts, Simulate, Decide,
       Deny, StartSimulation, Succeed, FinishFailed, Crash, Answer, Goto
  <1>3. Recover \/ Tick \/ UNCHANGED vars => pc' = pc
    BY DEF Recover, ListStale, FailStale, Tick, vars
  <1> QED
    BY <1>1, <1>2, <1>3 DEF Next

Untouched(a) ==
    /\ approvals'[a] = approvals[a]
    /\ executions'[a] = executions[a]
    /\ audit'[a] = audit[a]

DecisionStored(a) ==
    \E c \in Calls :
        /\ pc[c] = "deciding" /\ Subject(c) = a
        /\ ~Decided(a)
        /\ approvals'[a] = [decision |-> request[c].op, reviewer |-> request[c].actor,
                            expires_at |-> IF request[c].op = "APPROVED"
                                           THEN now[c] + ApprovalLifetime ELSE NoExpiry]
        /\ executions'[a] = executions[a]
        /\ audit'[a] = Logged(audit[a], IF request[c].op = "APPROVED" THEN "approved"
                                                                      ELSE "rejected")

DenialStored(a) ==
    /\ approvals'[a] = approvals[a]
    /\ executions'[a] = executions[a]
    /\ audit'[a] = Logged(audit[a], "execution_denied")

StartStored(a) ==
    \E c \in Calls :
        /\ pc[c] = "starting" /\ Subject(c) = a
        /\ ~Executed(a)
        /\ approvals'[a] = approvals[a]
        /\ executions'[a] = [state |-> "EXECUTING", started_at |-> now[c]]
        /\ audit'[a] = Logged(audit[a], "simulation_started")

EndStored(a) ==
    \E c \in Calls :
        /\ pc[c] \in {"succeeding", "failing"} /\ pc'[c] = "done" /\ Subject(c) = a
        /\ approvals'[a] = approvals[a]
        /\ \E s \in Ended :
            /\ s = "SUCCEEDED" => pc[c] = "succeeding"
            /\ executions'[a] = [executions[a] EXCEPT !.state = s]
            /\ audit'[a] = Logged(audit[a], IF s = "SUCCEEDED" THEN "simulation_succeeded"
                                                               ELSE "simulation_failed")

StaleFailed(a) ==
    /\ a \in recovery.stale /\ recovery'.stale = {}
    /\ approvals'[a] = approvals[a]
    /\ executions'[a] = [executions[a] EXCEPT !.state = "FAILED"]
    /\ audit'[a] = Logged(audit[a], "stale_simulation_recovered")

Written(a) ==
    \/ DecisionStored(a) \/ DenialStored(a)
    \/ StartStored(a) \/ EndStored(a) \/ StaleFailed(a)

\* Every step leaves the rows of an action alone or is one of five commits.
LEMMA RowFootprint ==
    ASSUME TypeOK, [Next]_vars, NEW a \in Actions
    PROVE  Untouched(a) \/ Written(a)
  <1>0. /\ approvals \in [Actions -> Approval \cup {NoApproval}]
        /\ executions \in [Actions -> Execution \cup {NoExecution}]
        /\ audit \in [Actions -> Trail]
        /\ request \in [Calls -> Request]
        /\ pc \in [Calls -> Places]
    BY DEF TypeOK
  <1>s. \A c \in Calls : Subject(c) \in Actions
    BY <1>0 DEF Subject, Request
  <1>1. ASSUME UNCHANGED database PROVE Untouched(a)
    BY <1>1 DEF database, Untouched
  <1>2. ASSUME NEW c \in Calls, NEW o \in CommitOutcomes, Decide(c, o)
        PROVE  Untouched(a) \/ DecisionStored(a)
    <2>1. CASE ~Applied(o)
      BY <1>2, <2>1 DEF Decide, Untouched
    <2>2. CASE Applied(o) /\ Subject(c) # a
      BY <1>0, <1>s, <1>2, <2>2 DEF Decide, Log, Untouched
    <2>3. CASE Applied(o) /\ Subject(c) = a
      BY <1>0, <1>2, <2>3 DEF Decide, Log, DecisionStored
    <2> QED
      BY <2>1, <2>2, <2>3
  <1>3. ASSUME NEW c \in Calls, NEW o \in CommitOutcomes, Deny(c, o)
        PROVE  Untouched(a) \/ DenialStored(a)
    BY <1>0, <1>s, <1>3 DEF Deny, Log, Untouched, DenialStored
  <1>4. ASSUME NEW c \in Calls, NEW o \in CommitOutcomes, StartSimulation(c, o)
        PROVE  Untouched(a) \/ StartStored(a)
    <2>1. CASE ~Applied(o)
      BY <1>4, <2>1 DEF StartSimulation, Untouched
    <2>2. CASE Applied(o) /\ Subject(c) # a
      BY <1>0, <1>s, <1>4, <2>2 DEF StartSimulation, Log, Untouched
    <2>3. CASE Applied(o) /\ Subject(c) = a
      BY <1>0, <1>4, <2>3 DEF StartSimulation, Log, StartStored
    <2> QED
      BY <2>1, <2>2, <2>3
  <1>5. ASSUME NEW c \in Calls, NEW s \in Ended, NEW event, End(Subject(c), s, event)
        PROVE  /\ Subject(c) # a => executions'[a] = executions[a] /\ audit'[a] = audit[a]
               /\ Subject(c) = a =>
                      /\ executions'[a] = [executions[a] EXCEPT !.state = s]
                      /\ audit'[a] = Logged(audit[a], event)
    BY <1>0, <1>s, <1>5 DEF End, Log
  <1>6. ASSUME NEW c \in Calls, NEW o \in CommitOutcomes, Succeed(c, o)
        PROVE  Untouched(a) \/ EndStored(a)
    <2>1. CASE ~Applied(o)
      BY <1>6, <2>1 DEF Succeed, Untouched
    <2>2. CASE Applied(o)
      <3>1. End(Subject(c), "SUCCEEDED", "simulation_succeeded") /\ pc[c] = "succeeding"
        BY <1>6, <2>2 DEF Succeed
      <3>2. approvals' = approvals /\ pc'[c] = "done"
        BY <1>0, <1>6 DEF Succeed, Answer, Goto
      <3> QED
        BY <1>5, <3>1, <3>2 DEF Untouched, EndStored, Ended
    <2> QED
      BY <2>1, <2>2
  <1>7. ASSUME NEW c \in Calls, NEW o \in CommitOutcomes, FinishFailed(c, o)
        PROVE  Untouched(a) \/ EndStored(a)
    <2>1. CASE ~Applied(o)
      BY <1>7, <2>1 DEF FinishFailed, Untouched
    <2>2. CASE Applied(o)
      <3>1. End(Subject(c), "FAILED", "simulation_failed") /\ pc[c] = "failing"
        BY <1>7, <2>2 DEF FinishFailed
      <3>2. approvals' = approvals /\ pc'[c] = "done"
        BY <1>0, <1>7 DEF FinishFailed, Answer, Goto
      <3> QED
        BY <1>5, <3>1, <3>2 DEF Untouched, EndStored, Ended
    <2> QED
      BY <2>1, <2>2
  <1>8. ASSUME NEW o \in CommitOutcomes, FailStale(o)
        PROVE  Untouched(a) \/ StaleFailed(a)
    <2>1. CASE ~Applied(o)
      BY <1>8, <2>1 DEF FailStale, Untouched
    <2>2. CASE Applied(o) /\ a \notin recovery.stale
      BY <1>8, <2>2 DEF FailStale, Untouched
    <2>3. CASE Applied(o) /\ a \in recovery.stale
      BY <1>8, <2>3 DEF FailStale, StaleFailed, NoRecovery
    <2> QED
      BY <2>1, <2>2, <2>3
  <1>9. ASSUME NEW c \in Calls,
               \/ Refuse(c) \/ Arrive(c) \/ LoadFails(c) \/ AnswerDecided(c)
               \/ LoadUndecided(c) \/ DecisionConflicts(c) \/ AnswerSucceeded(c)
               \/ Validate(c) \/ StartConflicts(c) \/ Simulate(c) \/ Crash(c)
        PROVE  UNCHANGED database
    BY <1>9 DEF Refuse, Arrive, LoadFails, AnswerDecided, LoadUndecided,
       DecisionConflicts, AnswerSucceeded, Validate, StartConflicts, Simulate, Crash
  <1>10. ListStale \/ Tick \/ UNCHANGED vars => UNCHANGED database
    BY DEF ListStale, Tick, vars, database
  <1> QED
    BY <1>1, <1>2, <1>3, <1>4, <1>6, <1>7, <1>8, <1>9, <1>10
       DEF Next, CallStep, Recover, Written

\* What no step touches, and how a decision, a start and the stale list may change.
LEMMA Stands ==
    ASSUME TypeOK, RowsOwned, [Next]_vars
    PROVE  /\ request' = request
           /\ recovery'.stale # {} =>
                  \A a \in recovery'.stale : a \in recovery.stale \/ Executed(a)
           /\ \A a \in Actions :
                  /\ Decided(a) => approvals'[a] = approvals[a]
                  /\ Executed(a) =>
                         /\ executions'[a] \in Execution
                         /\ executions'[a].started_at = executions[a].started_at
  <1>1. request' = request
    BY DEF Next, CallStep, Refuse, Arrive, LoadFails, AnswerDecided, LoadUndecided,
       DecisionConflicts, AnswerSucceeded, Validate, StartConflicts, Simulate, Decide,
       Deny, StartSimulation, Succeed, FinishFailed, Crash, Recover, ListStale,
       FailStale, Tick, vars
  <1>2. \A a \in recovery'.stale : a \in recovery.stale \/ Executed(a)
    <2>1. recovery' = recovery \/ ListStale \/ recovery' = NoRecovery
      BY DEF Next, CallStep, Refuse, Arrive, LoadFails, AnswerDecided, LoadUndecided,
         DecisionConflicts, AnswerSucceeded, Validate, StartConflicts, Simulate, Decide,
         Deny, StartSimulation, Succeed, FinishFailed, Crash, Recover, FailStale, Tick,
         vars
    <2>2. \A a \in Stale(clock) : Executed(a)
      BY ExecutionRow DEF Stale
    <2> QED
      BY <2>1, <2>2 DEF ListStale, NoRecovery
  <1>3. ASSUME NEW a \in Actions, Decided(a) PROVE approvals'[a] = approvals[a]
    BY <1>3, RowFootprint DEF Untouched, Written, DecisionStored, DenialStored,
       StartStored, EndStored, StaleFailed
  <1>4. ASSUME NEW a \in Actions, Executed(a)
        PROVE  /\ executions'[a] \in Execution
               /\ executions'[a].started_at = executions[a].started_at
    <2>1. executions[a] \in Execution
      BY <1>4, ExecutionRow
    <2>2. \/ executions'[a] = executions[a]
          \/ \E s \in Ended : executions'[a] = [executions[a] EXCEPT !.state = s]
      BY <1>4, RowFootprint DEF Untouched, Written, DecisionStored, DenialStored,
         StartStored, EndStored, StaleFailed, Ended
    <2>3. \A s \in Ended : /\ [executions[a] EXCEPT !.state = s] \in Execution
                           /\ [executions[a] EXCEPT !.state = s].started_at
                                  = executions[a].started_at
      BY <2>1, StateUpdate
    <2> QED
      BY <2>1, <2>2, <2>3
  <1> QED
    BY <1>1, <1>2, <1>3, <1>4

(***************************************************************************)
(* Type correctness.                                                       *)
(***************************************************************************)

LEMMA RowsTyped ==
    ASSUME TypeOK, RowsOwned, Checked, [Next]_vars, NEW a \in Actions
    PROVE  /\ approvals'[a] \in Approval \cup {NoApproval}
           /\ executions'[a] \in Execution \cup {NoExecution}
           /\ audit'[a] \in Trail
  <1>0. /\ approvals[a] \in Approval \cup {NoApproval}
        /\ executions[a] \in Execution \cup {NoExecution}
        /\ audit[a] \in Trail
        /\ request \in [Calls -> Request]
        /\ now \in [Calls -> 0..MaxTime]
    BY DEF TypeOK
  <1>e. \A e \in AuditEvents : Logged(audit[a], e) \in Trail
    BY <1>0, LoggedTrail
  <1>1. CASE Untouched(a)
    BY <1>0, <1>1 DEF Untouched
  <1>2. CASE DecisionStored(a)
    <2>1. PICK c \in Calls :
              /\ pc[c] = "deciding"
              /\ approvals'[a] = [decision |-> request[c].op, reviewer |-> request[c].actor,
                                  expires_at |-> IF request[c].op = "APPROVED"
                                                 THEN now[c] + ApprovalLifetime
                                                 ELSE NoExpiry]
              /\ executions'[a] = executions[a]
              /\ audit'[a] = Logged(audit[a], IF request[c].op = "APPROVED"
                                              THEN "approved" ELSE "rejected")
      BY <1>2 DEF DecisionStored
    <2>2. request[c].op \in Decisions /\ request[c].actor \in Reviewers
      BY <2>1 DEF Checked, Live
    <2>3. now[c] + ApprovalLifetime \in 0..(MaxTime + ApprovalLifetime)
      BY <1>0, WorkflowAssumption
    <2>4. approvals'[a] \in Approval
      BY <2>1, <2>2, <2>3 DEF Approval
    <2>5. "approved" \in AuditEvents /\ "rejected" \in AuditEvents
      BY DEF AuditEvents
    <2> QED
      BY <1>0, <1>e, <2>1, <2>4, <2>5
  <1>3. CASE DenialStored(a)
    BY <1>0, <1>e, <1>3 DEF DenialStored, AuditEvents
  <1>4. CASE StartStored(a)
    <2>1. \A c \in Calls :
              [state |-> "EXECUTING", started_at |-> now[c]] \in Execution
      BY <1>0 DEF Execution
    <2>2. "simulation_started" \in AuditEvents
      BY DEF AuditEvents
    <2> QED
      BY <1>0, <1>e, <1>4, <2>1, <2>2 DEF StartStored
  <1>5. CASE EndStored(a) \/ StaleFailed(a)
    <2>1. executions[a] \in Execution
      BY <1>5, ExecutionRow DEF EndStored, StaleFailed, RowsOwned, Simulating
    <2>2. executions'[a] \in Execution
      <3>1. \A s \in Ended : [executions[a] EXCEPT !.state = s] \in Execution
        BY <2>1, StateUpdate
      <3>2. \E s \in Ended : executions'[a] = [executions[a] EXCEPT !.state = s]
        BY <1>5 DEF EndStored, StaleFailed, Ended
      <3> QED
        BY <3>1, <3>2
    <2>3. /\ "simulation_succeeded" \in AuditEvents
          /\ "simulation_failed" \in AuditEvents
          /\ "stale_simulation_recovered" \in AuditEvents
      BY DEF AuditEvents
    <2>4. \E e \in AuditEvents : audit'[a] = Logged(audit[a], e)
      BY <1>5, <2>3 DEF EndStored, StaleFailed
    <2>5. approvals'[a] = approvals[a]
      BY <1>5 DEF EndStored, StaleFailed
    <2> QED
      BY <1>0, <1>e, <2>2, <2>4, <2>5
  <1> QED
    BY <1>1, <1>2, <1>3, <1>4, <1>5, RowFootprint DEF Written

\* Every step rewrites whole tables of the same actions.
LEMMA TablesStay ==
    ASSUME TypeOK, [Next]_vars
    PROVE  /\ approvals' = [a \in Actions |-> approvals'[a]]
           /\ executions' = [a \in Actions |-> executions'[a]]
           /\ audit' = [a \in Actions |-> audit'[a]]
  <1>0. /\ approvals = [a \in Actions |-> approvals[a]]
        /\ executions = [a \in Actions |-> executions[a]]
        /\ audit = [a \in Actions |-> audit[a]]
    BY DEF TypeOK
  <1>1. approvals' = approvals \/ \E a, row : approvals' = [approvals EXCEPT ![a] = row]
    BY DEF Next, CallStep, Refuse, Arrive, LoadFails, AnswerDecided, LoadUndecided,
       DecisionConflicts, AnswerSucceeded, Validate, StartConflicts, Simulate, Decide,
       Deny, StartSimulation, Succeed, FinishFailed, Crash, Recover, ListStale,
       FailStale, Tick, vars, database
  <1>2. \/ executions' = executions
        \/ \E a, row : executions' = [executions EXCEPT ![a] = row]
        \/ \E o \in CommitOutcomes : FailStale(o)
    BY DEF Next, CallStep, Refuse, Arrive, LoadFails, AnswerDecided, LoadUndecided,
       DecisionConflicts, AnswerSucceeded, Validate, StartConflicts, Simulate, Decide,
       Deny, StartSimulation, Succeed, FinishFailed, Crash, Recover, ListStale,
       Tick, vars, database, End
  <1>3. \/ audit' = audit
        \/ \E a, row : audit' = [audit EXCEPT ![a] = row]
        \/ \E o \in CommitOutcomes : FailStale(o)
    BY DEF Next, CallStep, Refuse, Arrive, LoadFails, AnswerDecided, LoadUndecided,
       DecisionConflicts, AnswerSucceeded, Validate, StartConflicts, Simulate, Decide,
       Deny, StartSimulation, Succeed, FinishFailed, Crash, Recover, ListStale,
       Tick, vars, database, End, Log
  <1>4. ASSUME NEW o \in CommitOutcomes, FailStale(o)
        PROVE  /\ executions' = [a \in Actions |-> executions'[a]]
               /\ audit' = [a \in Actions |-> audit'[a]]
    BY <1>0, <1>4 DEF FailStale
  <1> QED
    BY <1>0, <1>1, <1>2, <1>3, <1>4

LEMMA CallsTyped ==
    ASSUME TypeOK, [Next]_vars
    PROVE  /\ pc' \in [Calls -> Places]
           /\ now' \in [Calls -> 0..MaxTime]
           /\ code' \in [Calls -> Denials]
           /\ reply' \in [Calls -> Replies]
           /\ simulated' \in [Actions -> Nat]
  <1>0. /\ pc \in [Calls -> Places]
        /\ now \in [Calls -> 0..MaxTime]
        /\ code \in [Calls -> Denials]
        /\ reply \in [Calls -> Replies]
        /\ simulated \in [Actions -> Nat]
        /\ clock \in 0..MaxTime
    BY DEF TypeOK
  <1>1. ASSUME NEW c \in Calls, CallStep(c) \/ Crash(c)
        PROVE  pc' = pc \/ \E place \in Places : pc' = [pc EXCEPT ![c] = place]
    BY <1>1 DEF CallStep, Refuse, Arrive, LoadFails, AnswerDecided, LoadUndecided,
       DecisionConflicts, AnswerSucceeded, Validate, StartConflicts, Simulate, Decide,
       Deny, StartSimulation, Succeed, FinishFailed, Crash, Answer, Goto,
       Places, Live, Simulating
  <1>2. ASSUME NEW c \in Calls, CallStep(c) \/ Crash(c)
        PROVE  reply' = reply \/ \E answer \in Replies : reply' = [reply EXCEPT ![c] = answer]
    <2>1. code[c] \in Denials
      BY <1>0
    <2> QED
      BY <1>2, <2>1 DEF CallStep, Refuse, Arrive, LoadFails, AnswerDecided, LoadUndecided,
       DecisionConflicts, AnswerSucceeded, Validate, StartConflicts, Simulate, Decide,
       Deny, StartSimulation, Succeed, FinishFailed, Crash, Answer, Replies
  <1>3. ASSUME NEW c \in Calls, CallStep(c) \/ Crash(c)
        PROVE  /\ now' = now \/ now' = [now EXCEPT ![c] = clock]
               /\ code' = code \/ \E d \in Denials : code' = [code EXCEPT ![c] = d]
               /\ simulated' = simulated
                     \/ simulated' = [simulated EXCEPT ![Subject(c)] = @ + 1]
    BY <1>3 DEF CallStep, Refuse, Arrive, LoadFails, AnswerDecided, LoadUndecided,
       DecisionConflicts, AnswerSucceeded, Validate, StartConflicts, Simulate, Decide,
       Deny, StartSimulation, Succeed, FinishFailed, Crash, DenialsOf
  <1>4. Recover \/ Tick \/ UNCHANGED vars => UNCHANGED <<pc, now, code, reply, simulated>>
    BY DEF Recover, ListStale, FailStale, Tick, vars
  <1> QED
    BY <1>0, <1>1, <1>2, <1>3, <1>4 DEF Next

LEMMA TypeStep == TypeOK /\ RowsOwned /\ Checked /\ [Next]_vars => TypeOK'
  <1> SUFFICES ASSUME TypeOK, RowsOwned, Checked, [Next]_vars PROVE TypeOK'
    OBVIOUS
  <1>1. /\ approvals' \in [Actions -> Approval \cup {NoApproval}]
        /\ executions' \in [Actions -> Execution \cup {NoExecution}]
        /\ audit' \in [Actions -> Trail]
    BY RowsTyped, TablesStay
  <1>2. request' \in [Calls -> Request]
    BY Stands DEF TypeOK
  <1>3. /\ clock' \in 0..MaxTime
        /\ faults' \in 0..MaxFaults
        /\ recovery' \in [now : 0..MaxTime, stale : SUBSET Actions, active : BOOLEAN]
    <2>0. /\ clock \in 0..MaxTime /\ faults \in 0..MaxFaults
          /\ recovery \in [now : 0..MaxTime, stale : SUBSET Actions, active : BOOLEAN]
      BY DEF TypeOK
    <2>1. clock' \in 0..MaxTime
      <3>1. clock' = clock \/ Tick
        BY DEF Next, CallStep, Refuse, Arrive, LoadFails, AnswerDecided, LoadUndecided,
           DecisionConflicts, AnswerSucceeded, Validate, StartConflicts, Simulate, Decide,
           Deny, StartSimulation, Succeed, FinishFailed, Crash, Recover, ListStale,
           FailStale, vars
      <3> QED
        BY <2>0, <3>1, WorkflowAssumption DEF Tick
    <2>2. faults' \in 0..MaxFaults
      <3>1. faults' = faults \/ \E o \in CommitOutcomes : Spend(o)
        BY DEF Next, CallStep, Refuse, Arrive, LoadFails, AnswerDecided, LoadUndecided,
           DecisionConflicts, AnswerSucceeded, Validate, StartConflicts, Simulate, Decide,
           Deny, StartSimulation, Succeed, FinishFailed, Crash, Recover, ListStale,
           FailStale, Tick, vars, CommitOutcomes
      <3>2. faults' = faults \/ (faults' = faults + 1 /\ faults < MaxFaults)
        BY <3>1 DEF Spend
      <3> QED
        BY <2>0, <3>2, WorkflowAssumption
    <2>3. \/ recovery' = recovery
          \/ recovery' = NoRecovery
          \/ recovery' = [now |-> clock, stale |-> Stale(clock), active |-> TRUE]
      BY DEF Next, CallStep, Refuse, Arrive, LoadFails, AnswerDecided, LoadUndecided,
         DecisionConflicts, AnswerSucceeded, Validate, StartConflicts, Simulate, Decide,
         Deny, StartSimulation, Succeed, FinishFailed, Crash, Recover, ListStale,
         FailStale, Tick, vars
    <2>4. Stale(clock) \in SUBSET Actions
      BY DEF Stale
    <2>5. recovery' \in [now : 0..MaxTime, stale : SUBSET Actions, active : BOOLEAN]
      <3>1. NoRecovery \in [now : 0..MaxTime, stale : SUBSET Actions, active : BOOLEAN]
        BY WorkflowAssumption DEF NoRecovery
      <3>2. [now |-> clock, stale |-> Stale(clock), active |-> TRUE]
                \in [now : 0..MaxTime, stale : SUBSET Actions, active : BOOLEAN]
        BY <2>0, <2>4
      <3> QED
        BY <2>0, <2>3, <3>1, <3>2
    <2> QED
      BY <2>1, <2>2, <2>5
  <1> QED
    BY <1>1, <1>2, <1>3, CallsTyped DEF TypeOK

LEMMA OwnStep ==
    TypeOK /\ RowsOwned /\ Checked /\ [Next]_vars => RowsOwned' /\ Checked'
  <1> SUFFICES ASSUME TypeOK, RowsOwned, Checked, [Next]_vars
               PROVE  RowsOwned' /\ Checked'
    OBVIOUS
  <1>0. \A c \in Calls : Subject(c) \in Actions /\ Subject(c)' = Subject(c)
    BY Stands DEF Subject, TypeOK, Request
  <1>k. \A a \in Actions : Executed(a) => executions'[a] # NoExecution
    BY Stands, NoRows
  <1>1. ASSUME NEW c \in Calls, pc'[c] \in Simulating
        PROVE  executions'[Subject(c)] # NoExecution
    <2>1. CASE Rests(c) \/ Executes(c)
      BY <1>0, <1>k, <1>1, <2>1 DEF Rests, Executes, RowsOwned, Simulating
    <2>2. CASE Begins(c)
      <3>1. executions'[Subject(c)].state = "EXECUTING"
        BY <2>2 DEF Begins
      <3> QED
        BY <3>1 DEF NoExecution
    <2>3. CASE Arrives(c) \/ Proceeds(c) \/ Ends(c)
      BY <1>1, <2>3 DEF Arrives, Proceeds, Ends, Simulating
    <2> QED
      BY <2>1, <2>2, <2>3, CallFootprint DEF Moves
  <1>2. \A a \in recovery'.stale : a \in Actions /\ executions'[a] # NoExecution
    BY <1>k, Stands, TypeStep DEF RowsOwned, TypeOK
  <1>3. ASSUME NEW c \in Calls
        PROVE  /\ pc'[c] \in Live => request'[c].actor \in Reviewers
               /\ pc'[c] = "deciding" => request'[c].op \in Decisions
    <2>1. CASE Rests(c)
      BY <2>1, Stands DEF Rests, Checked
    <2>2. CASE Moves(c)
      BY <2>2, Stands DEF Moves, Arrives, Proceeds, Begins, Executes, Ends, Checked,
         Live, Simulating
    <2> QED
      BY <2>1, <2>2, CallFootprint
  <1>4. RowsOwned'
    BY <1>0, <1>1, <1>2 DEF RowsOwned, Executed, Subject
  <1> QED
    BY <1>3, <1>4 DEF Checked

LEMMA InitTypes == Init => TypeOK /\ RowsOwned /\ Checked
  <1>1. Init => TypeOK
    BY WorkflowAssumption DEF Init, TypeOK, Trail, NoTrail, NoRecovery, Places, Denials, Replies
  <1> QED
    BY <1>1 DEF Init, RowsOwned, Checked, NoRecovery, Live, Simulating

\* Every variable keeps its type, no row is written for an unauthorised actor, and
\* every row that a simulation or the recovery updates exists.
THEOREM TypeCorrect == Spec => [](TypeOK /\ RowsOwned /\ Checked)
  BY InitTypes, TypeStep, OwnStep, PTL DEF Spec

(***************************************************************************)
(* One execution of each action, by one call.                              *)
(***************************************************************************)

\* The row of an action comes before its execution, and one call at a time holds it.
Attempts ==
    /\ \A a \in Actions : simulated[a] > 0 => Executed(a)
    /\ \A c \in Calls :
           /\ pc[c] = "simulating" => simulated[Subject(c)] = 0
           /\ pc[c] \in {"succeeding", "failing"} => simulated[Subject(c)] = 1
    /\ \A c, d \in Calls :
           pc[c] \in Simulating /\ pc[d] \in Simulating /\ Subject(c) = Subject(d)
               => c = d

\* The executor runs for the action of a call that is simulating, and that call moves.
LEMMA Simulations ==
    ASSUME TypeOK, [Next]_vars
    PROVE  \/ simulated' = simulated
           \/ \E c \in Calls :
                 /\ pc[c] = "simulating" /\ pc'[c] \in {"succeeding", "failing"}
                 /\ simulated' = [simulated EXCEPT ![Subject(c)] = @ + 1]
  <1>1. ASSUME NEW c \in Calls, Simulate(c)
        PROVE  /\ pc[c] = "simulating" /\ pc'[c] \in {"succeeding", "failing"}
               /\ simulated' = [simulated EXCEPT ![Subject(c)] = @ + 1]
    BY <1>1 DEF Simulate, Goto, TypeOK
  <1>2. simulated' = simulated \/ \E c \in Calls : Simulate(c)
    BY DEF Next, CallStep, Refuse, Arrive, LoadFails, AnswerDecided, LoadUndecided,
       DecisionConflicts, AnswerSucceeded, Validate, StartConflicts, Decide,
       Deny, StartSimulation, Succeed, FinishFailed, Crash, Recover, ListStale,
       FailStale, Tick, vars
  <1> QED
    BY <1>1, <1>2

\* A call that is simulating has just begun or was simulating before.
LEMMA Simulators ==
    ASSUME TypeOK, RowsOwned, Checked, [Next]_vars,
           NEW c \in Calls, pc'[c] \in Simulating
    PROVE  Begins(c) \/ pc[c] \in Simulating
  <1>1. Rests(c) \/ Begins(c) \/ Executes(c)
    BY CallFootprint DEF Moves, Arrives, Proceeds, Ends, Simulating
  <1> QED
    BY <1>1 DEF Rests, Executes, Simulating

LEMMA AttemptStep ==
    /\ TypeOK /\ RowsOwned /\ Checked /\ [Next]_vars
    /\ Attempts /\ SimulatedAtMostOnce
    => Attempts' /\ SimulatedAtMostOnce'
  <1> SUFFICES ASSUME TypeOK, RowsOwned, Checked, [Next]_vars, Attempts,
                      SimulatedAtMostOnce
               PROVE  Attempts' /\ SimulatedAtMostOnce'
    OBVIOUS
  <1>0. /\ simulated \in [Actions -> Nat]
        /\ pc \in [Calls -> Places]
        /\ \A c \in Calls : Subject(c) \in Actions /\ Subject(c)' = Subject(c)
    BY Stands DEF Subject, TypeOK, Request
  <1>k. \A a \in Actions : Executed(a) => executions'[a] # NoExecution
    BY Stands, NoRows
  <1>1. ASSUME NEW a \in Actions
        PROVE  /\ simulated'[a] > 0 => executions'[a] # NoExecution
               /\ simulated'[a] <= 1
    <2>1. CASE simulated' = simulated
      BY <1>0, <1>k, <2>1 DEF Attempts, SimulatedAtMostOnce
    <2>2. ASSUME NEW c \in Calls, pc[c] = "simulating",
                 simulated' = [simulated EXCEPT ![Subject(c)] = @ + 1]
          PROVE  /\ simulated'[a] > 0 => executions'[a] # NoExecution
                 /\ simulated'[a] <= 1
      <3>1. simulated[Subject(c)] = 0 /\ Executed(Subject(c))
        BY <2>2 DEF Attempts, RowsOwned, Simulating
      <3>2. CASE a = Subject(c)
        BY <1>0, <1>k, <2>2, <3>1, <3>2
      <3>3. CASE a # Subject(c)
        BY <1>0, <1>k, <2>2, <3>3 DEF Attempts, SimulatedAtMostOnce
      <3> QED
        BY <3>2, <3>3
    <2> QED
      BY <2>1, <2>2, Simulations
  <1>2. ASSUME NEW c \in Calls, pc'[c] \in Simulating
        PROVE  \/ Begins(c) /\ simulated[Subject(c)] = 0
               \/ pc[c] \in Simulating
    <2>1. Begins(c) => simulated[Subject(c)] = 0
      BY <1>0 DEF Begins, Attempts
    <2> QED
      BY <1>2, <2>1, Simulators
  <1>3. ASSUME NEW c \in Calls, NEW d \in Calls, pc'[c] \in Simulating,
               pc'[d] \in Simulating, Subject(c) = Subject(d)
        PROVE  c = d
    <2>1. CASE pc[c] \in Simulating /\ pc[d] \in Simulating
      BY <1>3, <2>1 DEF Attempts
    <2>2. CASE Begins(c) /\ Begins(d)
      BY <2>2, OneMover DEF Begins
    <2>3. CASE Begins(c) /\ pc[d] \in Simulating
      BY <1>3, <2>3 DEF Begins, RowsOwned
    <2>4. CASE pc[c] \in Simulating /\ Begins(d)
      BY <1>3, <2>4 DEF Begins, RowsOwned
    <2> QED
      BY <1>2, <1>3, <2>1, <2>2, <2>3, <2>4
  <1>4. ASSUME NEW c \in Calls
        PROVE  /\ pc'[c] = "simulating" => simulated'[Subject(c)] = 0
               /\ pc'[c] \in {"succeeding", "failing"} => simulated'[Subject(c)] = 1
    <2>1. CASE Begins(c)
      BY <1>2, <2>1 DEF Begins, Simulating
    <2>2. CASE Executes(c)
      <3>1. simulated[Subject(c)] = 0
        BY <2>2 DEF Executes, Attempts
      <3> QED
        BY <1>0, <2>2, <3>1 DEF Executes
    <2>3. CASE Rests(c)
      <3>1. CASE simulated' = simulated
        BY <2>3, <3>1 DEF Rests, Attempts
      <3>2. ASSUME NEW d \in Calls, pc[d] = "simulating",
                   pc'[d] \in {"succeeding", "failing"},
                   simulated' = [simulated EXCEPT ![Subject(d)] = @ + 1],
                   pc'[c] \in Simulating
            PROVE  simulated'[Subject(c)] = simulated[Subject(c)]
        <4>1. c # d
          BY <2>3, <3>2 DEF Rests
        <4>2. Subject(c) # Subject(d)
          BY <2>3, <3>2, <4>1 DEF Rests, Attempts, Simulating
        <4> QED
          BY <1>0, <3>2, <4>2
      <3> QED
        BY <2>3, <3>1, <3>2, Simulations DEF Rests, Attempts, Simulating
    <2>4. CASE Arrives(c) \/ Proceeds(c) \/ Ends(c)
      BY <2>4 DEF Arrives, Proceeds, Ends
    <2> QED
      BY <2>1, <2>2, <2>3, <2>4, CallFootprint DEF Moves
  <1>5. Attempts'
    BY <1>0, <1>1, <1>3, <1>4 DEF Attempts, Executed, Subject
  <1> QED
    BY <1>1, <1>5 DEF SimulatedAtMostOnce

LEMMA InitAttempts == Init => Attempts /\ SimulatedAtMostOnce
  BY DEF Init, Attempts, SimulatedAtMostOnce, Simulating

\* However many execute calls race, fail, are retried or recovered, the executor of
\* execute (application/approval_service.py) is invoked at most once for an action.
THEOREM AtMostOneSimulation == Spec => []SimulatedAtMostOnce
  BY InitTypes, TypeStep, OwnStep, InitAttempts, AttemptStep, PTL DEF Spec

(***************************************************************************)
(* What was approved, and what was told.                                   *)
(***************************************************************************)

\* A call that may start was validated against an approval that cannot change.
Validated ==
    \A c \in Calls :
        pc[c] = "starting" =>
            /\ approvals[Subject(c)].decision = "APPROVED"
            /\ now[c] < approvals[Subject(c)].expires_at

LEMMA NoDenials ==
    ASSUME NEW row \in Approval \cup {NoApproval}, NEW t \in 0..MaxTime,
           DenialsOf(row, t) = {}
    PROVE  row.decision = "APPROVED" /\ t < row.expires_at
  <1>1. row # NoApproval
    <2>1. "APPROVAL_MISSING" \in Denials
      BY DEF Denials
    <2> QED
      BY <2>1 DEF DenialsOf
  <1>2. row.decision = "APPROVED"
    <2>1. row.decision \in Decisions
      BY <1>1 DEF Approval
    <2>2. "APPROVAL_REJECTED" \in Denials
      BY DEF Denials
    <2> QED
      BY <2>1, <2>2 DEF DenialsOf, Decisions
  <1>3. ~(row.expires_at <= t)
    <2>1. "APPROVAL_EXPIRED" \in Denials
      BY DEF Denials
    <2> QED
      BY <1>2, <2>1 DEF DenialsOf
  <1>4. row.expires_at \in Int /\ t \in Int
    BY <1>1, WorkflowAssumption DEF Approval, NoExpiry
  <1> QED
    BY <1>2, <1>3, <1>4

LEMMA GrantStep ==
    /\ TypeOK /\ RowsOwned /\ Checked /\ [Next]_vars
    /\ Validated /\ OnlyApprovedActionsRun
    => Validated' /\ OnlyApprovedActionsRun'
  <1> SUFFICES ASSUME TypeOK, RowsOwned, Checked, [Next]_vars, Validated,
                      OnlyApprovedActionsRun
               PROVE  Validated' /\ OnlyApprovedActionsRun'
    OBVIOUS
  <1>0. /\ \A c \in Calls : Subject(c) \in Actions /\ Subject(c)' = Subject(c)
        /\ approvals \in [Actions -> Approval \cup {NoApproval}]
        /\ now \in [Calls -> 0..MaxTime]
    BY Stands DEF Subject, TypeOK, Request
  <1>s. \A a \in Actions :
            approvals[a].decision = "APPROVED" => approvals'[a] = approvals[a]
    BY Stands, ApprovalRow
  <1>1. ASSUME NEW c \in Calls, pc'[c] = "starting"
        PROVE  /\ approvals'[Subject(c)].decision = "APPROVED"
               /\ now'[c] < approvals'[Subject(c)].expires_at
    <2>1. CASE Rests(c)
      BY <1>0, <1>1, <1>s, <2>1 DEF Rests, Validated
    <2>2. CASE Proceeds(c)
      <3>1. /\ DenialsOf(approvals[Subject(c)], now[c]) = {}
            /\ approvals' = approvals /\ now' = now
        BY <1>1, <2>2 DEF Proceeds, database
      <3> QED
        BY <1>0, <3>1, NoDenials
    <2>3. CASE Arrives(c) \/ Begins(c) \/ Executes(c) \/ Ends(c)
      BY <1>1, <2>3 DEF Arrives, Begins, Executes, Ends
    <2> QED
      BY <2>1, <2>2, <2>3, CallFootprint DEF Moves
  <1>2. ASSUME NEW a \in Actions, executions'[a] # NoExecution
        PROVE  /\ approvals'[a].decision = "APPROVED"
               /\ executions'[a].started_at < approvals'[a].expires_at
    <2>1. CASE Executed(a)
      BY <1>s, <2>1, Stands DEF OnlyApprovedActionsRun, Executed
    <2>2. CASE ~Executed(a)
      <3>1. StartStored(a)
        <4>1. executions'[a] # executions[a]
          BY <1>2, <2>2 DEF Executed
        <4>2. ~EndStored(a) /\ ~StaleFailed(a)
          BY <2>2 DEF EndStored, StaleFailed, RowsOwned, Simulating
        <4> QED
          BY <4>1, <4>2, RowFootprint DEF Untouched, Written, DecisionStored,
             DenialStored
      <3>2. PICK c \in Calls : /\ pc[c] = "starting" /\ Subject(c) = a
                               /\ approvals'[a] = approvals[a]
                               /\ executions'[a] = [state |-> "EXECUTING",
                                                    started_at |-> now[c]]
        BY <3>1 DEF StartStored
      <3> QED
        BY <3>2 DEF Validated
    <2> QED
      BY <2>1, <2>2
  <1>3. Validated'
    BY <1>0, <1>1 DEF Validated, Subject
  <1> QED
    BY <1>2, <1>3 DEF OnlyApprovedActionsRun

LEMMA InitGrants == Init => Validated /\ OnlyApprovedActionsRun
  BY DEF Init, Validated, OnlyApprovedActionsRun

\* Nothing is executed but what a reviewer approved, at a start time before the
\* expiry of that approval, though execute reads the approval in one transaction and
\* stores the start in another.
THEOREM RunsAreApproved == Spec => []OnlyApprovedActionsRun
  BY InitTypes, TypeStep, OwnStep, InitGrants, GrantStep, PTL DEF Spec

LEMMA RecordStep ==
    /\ TypeOK /\ RowsOwned /\ Checked /\ [Next]_vars
    /\ RecordedDecisionsStand
    => RecordedDecisionsStand'
  <1> SUFFICES ASSUME TypeOK, RowsOwned, Checked, [Next]_vars, RecordedDecisionsStand,
                      NEW c \in Calls, reply'[c] = "RECORDED"
               PROVE  /\ approvals'[Subject(c)].decision = request[c].op
                      /\ approvals'[Subject(c)].reviewer = request[c].actor
    BY Stands DEF RecordedDecisionsStand, Subject
  <1>0. /\ Subject(c) \in Actions
        /\ request[c].op # "NONE"
    BY DEF Subject, TypeOK, Request, Decisions
  <1>1. CASE reply[c] = "RECORDED"
    <2>1. /\ approvals[Subject(c)].decision = request[c].op
          /\ approvals[Subject(c)].reviewer = request[c].actor
      BY <1>1 DEF RecordedDecisionsStand
    <2>2. approvals'[Subject(c)] = approvals[Subject(c)]
      BY <1>0, <2>1, Stands, ApprovalRow
    <2> QED
      BY <2>1, <2>2
  <1>2. CASE reply[c] # "RECORDED"
    BY <1>2, CallFootprint DEF Rests, Moves, Arrives, Proceeds, Begins, Executes, Ends
  <1> QED
    BY <1>1, <1>2

\* A decision that approve or reject acknowledged to a reviewer is the one that is
\* stored, under that reviewer's name, for good.
THEOREM AcknowledgedDecisionsStand == Spec => []RecordedDecisionsStand
  <1>1. Init => RecordedDecisionsStand
    BY DEF Init, RecordedDecisionsStand
  <1> QED
    BY <1>1, InitTypes, TypeStep, OwnStep, RecordStep, PTL DEF Spec

(***************************************************************************)
(* The audit trail, and success.                                           *)
(***************************************************************************)

\* What the trail of an action has counted, by its rows and by the call that holds it:
\* one that has the executor's answer still to store has not stored it.
AuditAccounts(a) ==
    LET trail == audit[a]
    IN  /\ trail["approved"] = IF approvals[a].decision = "APPROVED" THEN 1 ELSE 0
        /\ trail["rejected"] = IF approvals[a].decision = "REJECTED" THEN 1 ELSE 0
        /\ trail["simulation_started"] = IF Executed(a) THEN 1 ELSE 0
        /\ executions[a].state \in {"NONE", "EXECUTING"} =>
               \A e \in DOMAIN Announces : trail[e] = 0
        /\ executions[a].state = "SUCCEEDED" => trail["simulation_succeeded"] > 0
        /\ executions[a].state = "FAILED" =>
               trail["simulation_failed"] + trail["stale_simulation_recovered"] > 0
        /\ trail["simulation_succeeded"] + trail["simulation_failed"] <= 1
        /\ \A c \in Calls :
               pc[c] \in Simulating /\ Subject(c) = a =>
                   trail["simulation_succeeded"] + trail["simulation_failed"] = 0

Accounts == \A a \in Actions : AuditAccounts(a)

LEMMA AnnouncedStages ==
    /\ DOMAIN Announces = {"simulation_succeeded", "simulation_failed",
                           "stale_simulation_recovered"}
    /\ Announces["simulation_succeeded"] = "SUCCEEDED"
    /\ Announces["simulation_failed"] = "FAILED"
    /\ Announces["stale_simulation_recovered"] = "FAILED"
  BY DEF Announces

\* One more row counts for its own event alone.
LEMMA Counted ==
    ASSUME NEW trail \in Trail, NEW e \in AuditEvents
    PROVE  LET more(f) == IF f = e THEN 1 ELSE 0
           IN  /\ Logged(trail, e)["approved"] = trail["approved"] + more("approved")
               /\ Logged(trail, e)["rejected"] = trail["rejected"] + more("rejected")
               /\ Logged(trail, e)["simulation_started"]
                      = trail["simulation_started"] + more("simulation_started")
               /\ Logged(trail, e)["simulation_succeeded"]
                      = trail["simulation_succeeded"] + more("simulation_succeeded")
               /\ Logged(trail, e)["simulation_failed"]
                      = trail["simulation_failed"] + more("simulation_failed")
               /\ Logged(trail, e)["stale_simulation_recovered"]
                      = trail["stale_simulation_recovered"]
                            + more("stale_simulation_recovered")
  BY LoggedTrail DEF AuditEvents

LEMMA TrailCounts ==
    ASSUME NEW trail \in Trail
    PROVE  /\ trail["approved"] \in Nat
           /\ trail["rejected"] \in Nat
           /\ trail["simulation_started"] \in Nat
           /\ trail["simulation_succeeded"] \in Nat
           /\ trail["simulation_failed"] \in Nat
           /\ trail["stale_simulation_recovered"] \in Nat
  BY DEF Trail, AuditEvents

\* A call that holds an action after a step held it before or has just begun, and
\* the one that stores the executor's answer holds it no more.
LEMMA HoldersStep ==
    ASSUME TypeOK, RowsOwned, Checked, [Next]_vars, Attempts,
           NEW a \in Actions, NEW c \in Calls, pc'[c] \in Simulating, Subject(c) = a
    PROVE  /\ ~EndStored(a)
           /\ ~Executed(a) \/ pc[c] \in Simulating
  <1>1. ~Executed(a) \/ pc[c] \in Simulating
    BY Simulators DEF Begins
  <1>2. ASSUME EndStored(a) PROVE FALSE
    <2>1. PICK d \in Calls : /\ pc[d] \in {"succeeding", "failing"}
                             /\ pc'[d] = "done" /\ Subject(d) = a
      BY <1>2 DEF EndStored
    <2>2. Executed(a)
      BY <2>1 DEF RowsOwned, Simulating
    <2>3. c = d
      BY <1>1, <2>1, <2>2 DEF Attempts, Simulating
    <2> QED
      BY <2>1, <2>3 DEF Simulating
  <1> QED
    BY <1>1, <1>2

LEMMA AccountStep ==
    TypeOK /\ RowsOwned /\ Checked /\ [Next]_vars /\ Attempts /\ Accounts => Accounts'
  <1> SUFFICES ASSUME TypeOK, RowsOwned, Checked, [Next]_vars, Attempts, Accounts,
                      NEW a \in Actions
               PROVE  AuditAccounts(a)'
    BY DEF Accounts
  <1> DEFINE trail == audit[a]
             next == audit'[a]
  <1>0. /\ trail \in Trail
        /\ \A c \in Calls : Subject(c)' = Subject(c)
    BY Stands DEF Subject, TypeOK
  <1>old. AuditAccounts(a)
    BY DEF Accounts
  <1>n. /\ trail["approved"] \in Nat
        /\ trail["rejected"] \in Nat
        /\ trail["simulation_started"] \in Nat
        /\ trail["simulation_succeeded"] \in Nat
        /\ trail["simulation_failed"] \in Nat
        /\ trail["stale_simulation_recovered"] \in Nat
    BY <1>0, TrailCounts
  <1>x. /\ Executed(a) <=> executions[a].state # "NONE"
        /\ executions[a].state \in {"NONE", "EXECUTING"} \cup Ended
        /\ Executed(a) => executions'[a] # NoExecution
    BY ExecutionRow, Stands, NoRows DEF TypeOK, Execution, NoExecution
  \* Of the call that holds the action afterwards.
  <1>h. ASSUME NEW c \in Calls, pc'[c] \in Simulating, Subject(c) = a
        PROVE  /\ ~EndStored(a)
               /\ trail["simulation_succeeded"] + trail["simulation_failed"] = 0
    <2>1. ~EndStored(a) /\ (~Executed(a) \/ pc[c] \in Simulating)
      BY <1>h, HoldersStep
    <2>2. ~Executed(a) => /\ trail["simulation_succeeded"] = 0
                          /\ trail["simulation_failed"] = 0
      BY <1>x, <1>old, AnnouncedStages DEF AuditAccounts
    <2> QED
      BY <1>h, <1>old, <2>1, <2>2 DEF AuditAccounts
  <1>1. CASE Untouched(a)
    <2>1. /\ approvals'[a] = approvals[a] /\ executions'[a] = executions[a]
          /\ next = trail
      BY <1>1 DEF Untouched
    <2> QED
      BY <1>0, <1>h, <1>old, <2>1 DEF AuditAccounts, Executed
  <1>2. CASE DecisionStored(a)
    <2>1. PICK c \in Calls :
            /\ pc[c] = "deciding" /\ ~Decided(a)
            /\ approvals'[a].decision = request[c].op
            /\ executions'[a] = executions[a]
            /\ next = Logged(trail, IF request[c].op = "APPROVED" THEN "approved"
                                                                 ELSE "rejected")
      BY <1>2 DEF DecisionStored
    <2>2. request[c].op \in Decisions /\ approvals[a].decision = "NONE"
      BY <2>1 DEF Checked, Decided, NoApproval
    <2>3. CASE request[c].op = "APPROVED"
      <3>1. /\ next["approved"] = trail["approved"] + 1
            /\ next["rejected"] = trail["rejected"]
            /\ next["simulation_started"] = trail["simulation_started"]
            /\ \A e \in DOMAIN Announces : next[e] = trail[e]
        <4>1. "approved" \in AuditEvents
          BY DEF AuditEvents
        <4> QED
          BY <1>0, <1>n, <2>1, <2>3, <4>1, Counted, AnnouncedStages
      <3> QED
        BY <1>0, <1>h, <1>n, <1>old, <2>1, <2>2, <2>3, <3>1, AnnouncedStages
           DEF AuditAccounts, Executed
    <2>4. CASE request[c].op = "REJECTED"
      <3>1. /\ next["approved"] = trail["approved"]
            /\ next["rejected"] = trail["rejected"] + 1
            /\ next["simulation_started"] = trail["simulation_started"]
            /\ \A e \in DOMAIN Announces : next[e] = trail[e]
        <4>1. "rejected" \in AuditEvents
          BY DEF AuditEvents
        <4> QED
          BY <1>0, <1>n, <2>1, <2>4, <4>1, Counted, AnnouncedStages
      <3> QED
        BY <1>0, <1>h, <1>n, <1>old, <2>1, <2>2, <2>4, <3>1, AnnouncedStages
           DEF AuditAccounts, Executed
    <2> QED
      BY <2>2, <2>3, <2>4 DEF Decisions
  <1>3. CASE DenialStored(a)
    <2>1. /\ approvals'[a] = approvals[a] /\ executions'[a] = executions[a]
          /\ next = Logged(trail, "execution_denied")
      BY <1>3 DEF DenialStored
    <2>2. /\ next["approved"] = trail["approved"]
          /\ next["rejected"] = trail["rejected"]
          /\ next["simulation_started"] = trail["simulation_started"]
          /\ \A e \in DOMAIN Announces : next[e] = trail[e]
      <3>1. "execution_denied" \in AuditEvents
        BY DEF AuditEvents
      <3> QED
        BY <1>0, <1>n, <2>1, <3>1, Counted, AnnouncedStages
    <2> QED
      BY <1>0, <1>h, <1>old, <2>1, <2>2, AnnouncedStages DEF AuditAccounts, Executed
  <1>4. CASE StartStored(a)
    <2>1. /\ approvals'[a] = approvals[a] /\ ~Executed(a)
          /\ executions'[a].state = "EXECUTING"
          /\ next = Logged(trail, "simulation_started")
      BY <1>4 DEF StartStored
    <2>2. /\ next["approved"] = trail["approved"]
          /\ next["rejected"] = trail["rejected"]
          /\ next["simulation_started"] = trail["simulation_started"] + 1
          /\ \A e \in DOMAIN Announces : next[e] = trail[e]
      <3>1. "simulation_started" \in AuditEvents
        BY DEF AuditEvents
      <3> QED
        BY <1>0, <1>n, <2>1, <3>1, Counted, AnnouncedStages
    <2>3. executions'[a] # NoExecution
      BY <2>1 DEF NoExecution
    <2> QED
      BY <1>0, <1>h, <1>n, <1>x, <1>old, <2>1, <2>2, <2>3, AnnouncedStages
         DEF AuditAccounts, Executed
  <1>5. CASE EndStored(a)
    <2>1. PICK c \in Calls, s \in Ended :
            /\ pc[c] \in {"succeeding", "failing"} /\ Subject(c) = a
            /\ approvals'[a] = approvals[a]
            /\ executions'[a] = [executions[a] EXCEPT !.state = s]
            /\ next = Logged(trail, IF s = "SUCCEEDED" THEN "simulation_succeeded"
                                                       ELSE "simulation_failed")
      BY <1>5 DEF EndStored
    <2>2. Executed(a) /\ executions[a] \in Execution
      BY <2>1, ExecutionRow DEF RowsOwned, Simulating
    <2>3. executions'[a].state = s /\ executions'[a] # NoExecution
      BY <1>x, <2>1, <2>2, StateUpdate
    <2>4. trail["simulation_succeeded"] = 0 /\ trail["simulation_failed"] = 0
      BY <1>n, <1>old, <2>1 DEF AuditAccounts, Simulating
    <2>5. CASE s = "SUCCEEDED"
      <3>1. /\ next["approved"] = trail["approved"]
            /\ next["rejected"] = trail["rejected"]
            /\ next["simulation_started"] = trail["simulation_started"]
            /\ next["simulation_succeeded"] = 1
            /\ next["simulation_failed"] = 0
        <4>1. "simulation_succeeded" \in AuditEvents
          BY DEF AuditEvents
        <4> QED
          BY <1>0, <1>n, <2>1, <2>4, <2>5, <4>1, Counted
      <3> QED
        BY <1>0, <1>5, <1>h, <1>old, <2>1, <2>2, <2>3, <2>5, <3>1 DEF AuditAccounts, Executed
    <2>6. CASE s = "FAILED"
      <3>1. /\ next["approved"] = trail["approved"]
            /\ next["rejected"] = trail["rejected"]
            /\ next["simulation_started"] = trail["simulation_started"]
            /\ next["simulation_succeeded"] = 0
            /\ next["simulation_failed"] = 1
            /\ next["stale_simulation_recovered"] = trail["stale_simulation_recovered"]
        <4>1. "simulation_failed" \in AuditEvents
          BY DEF AuditEvents
        <4> QED
          BY <1>0, <1>n, <2>1, <2>4, <2>6, <4>1, Counted
      <3> QED
        BY <1>0, <1>5, <1>h, <1>n, <1>old, <2>1, <2>2, <2>3, <2>6, <3>1
           DEF AuditAccounts, Executed
    <2> QED
      BY <2>5, <2>6 DEF Ended
  <1>6. CASE StaleFailed(a)
    <2>1. /\ a \in recovery.stale
          /\ approvals'[a] = approvals[a]
          /\ executions'[a] = [executions[a] EXCEPT !.state = "FAILED"]
          /\ next = Logged(trail, "stale_simulation_recovered")
      BY <1>6 DEF StaleFailed
    <2>2. Executed(a) /\ executions[a] \in Execution
      BY <2>1, ExecutionRow DEF RowsOwned
    <2>3. executions'[a].state = "FAILED" /\ executions'[a] # NoExecution
      BY <1>x, <2>1, <2>2, StateUpdate DEF Ended
    <2>4. /\ next["approved"] = trail["approved"]
          /\ next["rejected"] = trail["rejected"]
          /\ next["simulation_started"] = trail["simulation_started"]
          /\ next["simulation_succeeded"] = trail["simulation_succeeded"]
          /\ next["simulation_failed"] = trail["simulation_failed"]
          /\ next["stale_simulation_recovered"]
                 = trail["stale_simulation_recovered"] + 1
      <3>1. "stale_simulation_recovered" \in AuditEvents
        BY DEF AuditEvents
      <3> QED
        BY <1>0, <1>n, <2>1, <3>1, Counted
    <2> QED
      BY <1>0, <1>h, <1>n, <1>old, <2>1, <2>2, <2>3, <2>4 DEF AuditAccounts, Executed
  <1> QED
    BY <1>1, <1>2, <1>3, <1>4, <1>5, <1>6, RowFootprint DEF Written

LEMMA InitAccounts == Init => Accounts
  BY AnnouncedStages
     DEF Init, Accounts, AuditAccounts, NoTrail, AuditEvents, NoApproval, NoExecution,
         Executed, Simulating

\* Such a trail tells of the stage of its action.
LEMMA AccountsTell == TypeOK /\ Accounts => AuditExplainsStage
  <1> SUFFICES ASSUME TypeOK, Accounts, NEW a \in Actions
               PROVE  /\ audit[a]["approved"] + audit[a]["rejected"] <= 1
                      /\ audit[a]["simulation_started"] <= 1
                      /\ audit[a]["simulation_succeeded"]
                             + audit[a]["simulation_failed"] <= 1
                      /\ Stage(a) \in Told(audit[a])
    BY DEF AuditExplainsStage
  <1> DEFINE trail == audit[a]
             ends == {e \in DOMAIN Announces : trail[e] > 0}
  <1>0. AuditAccounts(a)
    BY DEF Accounts
  <1>n. /\ trail["simulation_succeeded"] \in Nat
        /\ trail["simulation_failed"] \in Nat
        /\ trail["stale_simulation_recovered"] \in Nat
    BY TrailCounts DEF TypeOK
  <1>x. /\ Executed(a) <=> executions[a].state # "NONE"
        /\ Executed(a) => executions[a].state \in {"EXECUTING"} \cup Ended
        /\ Decided(a) <=> approvals[a].decision # "NONE"
        /\ Decided(a) => approvals[a].decision \in Decisions
    BY ExecutionRow, ApprovalRow DEF Execution
  <1>1. /\ trail["approved"] + trail["rejected"] <= 1
        /\ trail["simulation_started"] <= 1
        /\ trail["simulation_succeeded"] + trail["simulation_failed"] <= 1
    BY <1>0 DEF AuditAccounts
  <1>2. CASE executions[a].state \in Ended
    <2>1. Stage(a) = executions[a].state
      BY <1>2, <1>x DEF Stage, Executed, Ended
    <2>2. \E e \in ends : Announces[e] = executions[a].state
      BY <1>0, <1>2, <1>n, AnnouncedStages DEF AuditAccounts, Ended
    <2> QED
      BY <1>1, <2>1, <2>2 DEF Told
  <1>3. CASE executions[a].state = "EXECUTING"
    <2>1. ends = {} /\ trail["simulation_started"] > 0
      BY <1>0, <1>3, <1>x DEF AuditAccounts
    <2>2. Stage(a) = "EXECUTING"
      BY <1>3, <1>x DEF Stage, Executed
    <2> QED
      BY <1>1, <2>1, <2>2 DEF Told
  <1>4. CASE executions[a].state = "NONE"
    <2>1. ends = {} /\ ~(trail["simulation_started"] > 0)
      BY <1>0, <1>4, <1>x DEF AuditAccounts
    <2>2. Stage(a) = IF Decided(a) THEN approvals[a].decision ELSE "PENDING_APPROVAL"
      BY <1>4, <1>x DEF Stage, Executed, Decided
    <2>3. Stage(a) = IF trail["approved"] > 0 THEN "APPROVED"
                     ELSE IF trail["rejected"] > 0 THEN "REJECTED"
                     ELSE "PENDING_APPROVAL"
      BY <1>0, <1>x, <2>2 DEF AuditAccounts, Decisions
    <2> QED
      BY <1>1, <2>1, <2>3 DEF Told
  <1> QED
    BY <1>2, <1>3, <1>4, <1>x

\* The trail counts what approve, execute and the recovery have stored of an action.
THEOREM TrailsAccount == Spec => []Accounts
  BY InitTypes, TypeStep, OwnStep, InitAttempts, AttemptStep, InitAccounts,
     AccountStep, PTL DEF Spec

\* The audit trail of an action tells of the stage its rows put it in and counts one
\* decision, one start and one end by a call at most, though approve, execute and the
\* recovery (_audit, FailStale) commit in any order and recovery may fail what has ended.
THEOREM AuditIsTruthful == Spec => []AuditExplainsStage
  <1>1. Spec => []TypeOK
    BY TypeCorrect, PTL
  <1> QED
    BY <1>1, TrailsAccount, AccountsTell, PTL

LEMMA EarnedStep ==
    /\ TypeOK /\ RowsOwned /\ Checked /\ [Next]_vars
    /\ Attempts /\ SimulatedAtMostOnce /\ Accounts /\ SuccessIsEarned
    => SuccessIsEarned'
  <1> SUFFICES ASSUME TypeOK, RowsOwned, Checked, [Next]_vars, Attempts,
                      SimulatedAtMostOnce, Accounts, SuccessIsEarned
               PROVE  SuccessIsEarned'
    OBVIOUS
  <1>0. \A c \in Calls : Subject(c) \in Actions /\ Subject(c)' = Subject(c)
    BY Stands DEF Subject, TypeOK, Request
  <1>1. ASSUME NEW a \in Actions, simulated[a] = 1 PROVE simulated'[a] = 1
    <2>1. SimulatedAtMostOnce' /\ simulated \in [Actions -> Nat]
      BY AttemptStep DEF TypeOK
    <2>2. simulated'[a] \in {1, 2}
      BY <1>0, <1>1, <2>1, Simulations
    <2> QED
      BY <2>1, <2>2 DEF SimulatedAtMostOnce
  <1>n. ASSUME NEW a \in Actions
        PROVE  /\ audit[a]["simulation_succeeded"] \in Nat
               /\ audit'[a]["simulation_succeeded"] \in Nat
               /\ audit'[a]["simulation_failed"] \in Nat
               /\ audit'[a]["simulation_succeeded"] + audit'[a]["simulation_failed"] <= 1
    BY AccountStep, TypeStep, TrailCounts DEF TypeOK, Accounts, AuditAccounts
  <1>2. ASSUME NEW a \in Actions, audit[a]["simulation_succeeded"] = 1
        PROVE  audit'[a]["simulation_succeeded"] = 1
    <2>1. audit'[a] = audit[a] \/ \E e \in AuditEvents : audit'[a] = Logged(audit[a], e)
      BY RowFootprint DEF Untouched, Written, DecisionStored, DenialStored, StartStored,
         EndStored, StaleFailed, AuditEvents
    <2>2. audit'[a]["simulation_succeeded"] >= 1
      <3>1. "simulation_succeeded" \in AuditEvents /\ audit[a] \in Trail
        BY DEF AuditEvents, TypeOK
      <3> QED
        BY <1>2, <2>1, <3>1, LoggedTrail
    <2> QED
      BY <1>n, <2>2
  \* Only the final commit of execute makes a row SUCCEEDED.
  <1>3. ASSUME NEW a \in Actions, executions'[a].state = "SUCCEEDED",
               executions[a].state # "SUCCEEDED"
        PROVE  simulated[a] = 1
    <2>1. ~StaleFailed(a)
      <3>1. a \in recovery.stale => executions[a] \in Execution
        BY ExecutionRow DEF RowsOwned
      <3>2. StaleFailed(a) => executions'[a].state = "FAILED"
        BY <3>1, StateUpdate DEF StaleFailed, Ended
      <3> QED
        BY <1>3, <3>2
    <2>2. ~StartStored(a)
      <3>1. StartStored(a) => executions'[a].state = "EXECUTING"
        BY DEF StartStored
      <3> QED
        BY <1>3, <3>1
    <2>3. EndStored(a)
      BY <1>3, <2>1, <2>2, RowFootprint DEF Untouched, Written, DecisionStored,
         DenialStored
    <2>4. PICK c \in Calls : pc[c] \in {"succeeding", "failing"} /\ Subject(c) = a
      BY <2>3 DEF EndStored
    <2> QED
      BY <2>4 DEF Attempts
  <1>4. ASSUME NEW a \in Actions, executions'[a].state = "SUCCEEDED"
        PROVE  simulated'[a] = 1 /\ audit'[a]["simulation_succeeded"] = 1
    <2>1. simulated[a] = 1
      BY <1>3, <1>4 DEF SuccessIsEarned
    <2>2. audit'[a]["simulation_succeeded"] > 0
      BY <1>4, AccountStep DEF Accounts, AuditAccounts
    <2> QED
      BY <1>1, <1>n, <2>1, <2>2
  <1>5. ASSUME NEW c \in Calls, reply'[c] = "SUCCEEDED"
        PROVE  /\ simulated'[Subject(c)] = 1
               /\ audit'[Subject(c)]["simulation_succeeded"] = 1
    <2>1. CASE reply[c] = "SUCCEEDED"
      BY <1>0, <1>1, <1>2, <2>1 DEF SuccessIsEarned
    <2>2. CASE reply[c] # "SUCCEEDED"
      <3>1. executions'[Subject(c)].state = "SUCCEEDED"
        BY <1>5, <2>2, CallFootprint DEF Rests, Moves, Arrives, Proceeds, Begins,
           Executes, Ends
      <3> QED
        BY <1>0, <1>4, <3>1
    <2> QED
      BY <2>1, <2>2
  <1> QED
    BY <1>0, <1>4, <1>5 DEF SuccessIsEarned

\* No success is inferred from a row that recovery or a retry left behind: it stands for
\* the one invocation of the executor, and _SIMULATION_SUCCEEDED was audited with it.
THEOREM SuccessesAreEarned == Spec => []SuccessIsEarned
  <1>1. Init => SuccessIsEarned
    BY DEF Init, SuccessIsEarned, NoExecution
  <1> QED
    BY <1>1, InitTypes, TypeStep, OwnStep, InitAttempts, AttemptStep, InitAccounts,
       AccountStep, EarnedStep, PTL DEF Spec

(***************************************************************************)
(* Live calls within the recovery threshold keep to the lifecycle.         *)
(***************************************************************************)

\* A call that simulates still finds the row it inserted.
Holding ==
    \A c \in Calls :
        pc[c] \in Simulating =>
            /\ executions[Subject(c)].state = "EXECUTING"
            /\ executions[Subject(c)].started_at = now[c]

\* What recovery is about to fail is EXECUTING, and its call has gone.
StaleAreAbandoned ==
    \A a \in recovery.stale :
        /\ executions[a].state = "EXECUTING"
        /\ \A c \in Calls : pc[c] \in Simulating => Subject(c) # a

Prompt == InBudget(clock) /\ Holding /\ StaleAreAbandoned

\* What a step does to the clock, to a call's start and to the recovery in flight.
LEMMA Pace ==
    ASSUME TypeOK, [Next]_vars
    PROVE  /\ \A c \in Calls :
                pc'[c] \in Live => \/ pc[c] \in Live /\ now'[c] = now[c]
                                  \/ now'[c] = clock
           /\ \/ clock' = clock
              \/ InBudget(clock') /\ UNCHANGED <<pc, now>>
           /\ \/ recovery' = recovery
              \/ recovery'.stale = {}
              \/ recovery'.stale = Stale(clock) /\ UNCHANGED <<executions, request, pc, now>>
  <1> DEFINE Goal ==
           /\ \A c \in Calls :
                pc'[c] \in Live => \/ pc[c] \in Live /\ now'[c] = now[c]
                                  \/ now'[c] = clock
           /\ \/ clock' = clock
              \/ InBudget(clock') /\ UNCHANGED <<pc, now>>
           /\ \/ recovery' = recovery
              \/ recovery'.stale = {}
              \/ recovery'.stale = Stale(clock) /\ UNCHANGED <<executions, request, pc, now>>
  <1>0. pc \in [Calls -> Places] /\ now \in [Calls -> 0..MaxTime]
    BY DEF TypeOK
  <1>1. ASSUME NEW d \in Calls, CallStep(d) \/ Crash(d) PROVE Goal
    <2>1. clock' = clock /\ recovery' = recovery
      BY <1>1 DEF CallStep, Refuse, Arrive, LoadFails, AnswerDecided, LoadUndecided,
         DecisionConflicts, AnswerSucceeded, Validate, StartConflicts, Simulate, Decide,
         Deny, StartSimulation, Succeed, FinishFailed, Crash
    <2>2. CASE Arrive(d)
      BY <1>0, <2>1, <2>2 DEF Arrive, Goto
    <2>3. CASE ~Arrive(d)
      <3>1. now' = now
        BY <1>1, <2>3 DEF CallStep, Refuse, LoadFails, AnswerDecided, LoadUndecided,
           DecisionConflicts, AnswerSucceeded, Validate, StartConflicts, Simulate, Decide,
           Deny, StartSimulation, Succeed, FinishFailed, Crash
      <3>2. pc[d] \in Live \/ pc'[d] \notin Live
        BY <1>0, <1>1, <2>3 DEF CallStep, Refuse, LoadFails, AnswerDecided,
           LoadUndecided, DecisionConflicts, AnswerSucceeded, Validate, StartConflicts,
           Simulate, Decide, Deny, StartSimulation, Succeed, FinishFailed, Crash, Answer,
           Goto, Live, Simulating
      <3>3. \A c \in Calls \ {d} : pc'[c] = pc[c]
        BY <1>0, <1>1 DEF CallStep, Refuse, Arrive, LoadFails, AnswerDecided,
           LoadUndecided, DecisionConflicts, AnswerSucceeded, Validate, StartConflicts,
           Simulate, Decide, Deny, StartSimulation, Succeed, FinishFailed, Crash, Answer,
           Goto
      <3> QED
        BY <2>1, <3>1, <3>2, <3>3
    <2> QED
      BY <2>2, <2>3
  <1>2. CASE ListStale
    BY <1>2 DEF ListStale, database
  <1>3. ASSUME NEW o \in CommitOutcomes, FailStale(o) PROVE Goal
    BY <1>3 DEF FailStale, NoRecovery
  <1>4. CASE Tick
    BY <1>4 DEF Tick
  <1>5. CASE UNCHANGED vars
    BY <1>5 DEF vars
  <1> QED
    BY <1>1, <1>2, <1>3, <1>4, <1>5 DEF Next, Recover

LEMMA Times ==
    ASSUME TypeOK, NEW c \in Calls
    PROVE  now[c] \in Int /\ clock \in Int
  BY WorkflowAssumption DEF TypeOK

LEMMA BudgetStep ==
    TypeOK /\ InBudget(clock) /\ [Next]_vars => InBudget(clock)'
  <1> SUFFICES ASSUME TypeOK, InBudget(clock), [Next]_vars,
                      NEW c \in Calls, pc'[c] \in Live
               PROVE  clock' <= now'[c] + CallBudget
    BY DEF InBudget
  <1> USE WorkflowAssumption
  <1>1. CASE clock' = clock
    <2>1. CASE now'[c] = clock
      BY <1>1, <2>1, Times
    <2>2. CASE pc[c] \in Live /\ now'[c] = now[c]
      BY <1>1, <2>2 DEF InBudget
    <2> QED
      BY <2>1, <2>2, Pace
  <1>2. CASE InBudget(clock') /\ UNCHANGED <<pc, now>>
    BY <1>2 DEF InBudget
  <1> QED
    BY <1>1, <1>2, Pace

LEMMA PromptStep ==
    ASSUME CallBudget <= StaleAfter
    PROVE  /\ TypeOK /\ RowsOwned /\ Checked /\ [Next]_vars
           /\ Attempts /\ SimulatedAtMostOnce /\ Prompt
           => Prompt'
  <1> SUFFICES ASSUME TypeOK, RowsOwned, Checked, [Next]_vars, Attempts,
                      SimulatedAtMostOnce, Prompt
               PROVE  Prompt'
    OBVIOUS
  <1> USE WorkflowAssumption
  <1>0. \A c \in Calls : Subject(c) \in Actions /\ Subject(c)' = Subject(c)
    BY Stands DEF Subject, TypeOK, Request
  <1>a. Attempts'
    BY AttemptStep
  <1>1. InBudget(clock)'
    BY BudgetStep DEF Prompt
  \* Who holds the row: the call is where it was, or it has just inserted it.
  <1>2. ASSUME NEW c \in Calls, pc'[c] \in Simulating
        PROVE  \/ /\ pc[c] = "starting"
                  /\ executions'[Subject(c)] =
                         [state |-> "EXECUTING", started_at |-> now[c]]
                  /\ now'[c] = now[c] /\ ~Executed(Subject(c))
               \/ pc[c] \in Simulating /\ now'[c] = now[c]
    <2>1. CASE Rests(c) \/ Begins(c) \/ Executes(c)
      BY <1>2, <2>1 DEF Rests, Begins, Executes, Simulating
    <2>2. CASE Arrives(c) \/ Proceeds(c) \/ Ends(c)
      BY <1>2, <2>2 DEF Arrives, Proceeds, Ends, Simulating
    <2> QED
      BY <2>1, <2>2, CallFootprint DEF Moves
  \* Nobody writes to a row that is held.
  <1>3. ASSUME NEW c \in Calls, pc[c] \in Simulating, pc'[c] \in Simulating
        PROVE  executions'[Subject(c)] = executions[Subject(c)]
    <2> DEFINE a == Subject(c)
    <2>1. a \in Actions /\ Executed(a)
      BY <1>0, <1>3 DEF RowsOwned
    <2>2. ~StartStored(a)
      BY <2>1 DEF StartStored
    <2>3. ~EndStored(a)
      <3> SUFFICES ASSUME NEW d \in Calls, pc[d] \in {"succeeding", "failing"},
                          pc'[d] = "done", Subject(d) = a
                   PROVE  FALSE
        BY DEF EndStored
      <3>1. d = c
        BY <1>3 DEF Attempts, Simulating
      <3> QED
        BY <1>3, <3>1 DEF Simulating
    <2>4. ~StaleFailed(a)
      BY <1>3 DEF StaleFailed, Prompt, StaleAreAbandoned
    <2> QED
      BY <2>1, <2>2, <2>3, <2>4, RowFootprint
         DEF Written, Untouched, DecisionStored, DenialStored
  <1>4. ASSUME NEW c \in Calls, pc'[c] \in Simulating
        PROVE  /\ executions'[Subject(c)].state = "EXECUTING"
               /\ executions'[Subject(c)].started_at = now'[c]
    <2>1. CASE pc[c] \in Simulating /\ now'[c] = now[c]
      BY <1>3, <1>4, <2>1 DEF Prompt, Holding
    <2>2. CASE /\ executions'[Subject(c)] =
                      [state |-> "EXECUTING", started_at |-> now[c]]
               /\ now'[c] = now[c]
      BY <2>2
    <2> QED
      BY <1>2, <1>4, <2>1, <2>2
  <1>5. ASSUME NEW a \in recovery'.stale
        PROVE  /\ executions'[a].state = "EXECUTING"
               /\ \A c \in Calls : pc'[c] \in Simulating => Subject(c) # a
    <2>1. a \in Actions
      BY <1>5, TypeStep DEF TypeOK
    <2>2. CASE recovery' = recovery
      <3>1. /\ executions[a].state = "EXECUTING" /\ Executed(a)
            /\ \A c \in Calls : pc[c] \in Simulating => Subject(c) # a
        BY <1>5, <2>2 DEF Prompt, StaleAreAbandoned, RowsOwned
      <3>2. ~StartStored(a) /\ ~EndStored(a) /\ ~StaleFailed(a)
        BY <1>5, <3>1 DEF StartStored, EndStored, StaleFailed, Simulating
      <3>3. executions'[a] = executions[a]
        BY <2>1, <3>2, RowFootprint DEF Written, Untouched, DecisionStored, DenialStored
      <3> QED
        BY <1>2, <3>1, <3>3
    <2>3. CASE recovery'.stale = Stale(clock) /\ UNCHANGED <<executions, request, pc, now>>
      <3>1. /\ executions[a].state = "EXECUTING"
            /\ executions[a].started_at + StaleAfter < clock
        BY <1>5, <2>3 DEF Stale
      <3>2. ASSUME NEW c \in Calls, pc[c] \in Simulating, Subject(c) = a PROVE FALSE
        <4>1. executions[a].started_at = now[c]
          BY <3>2 DEF Prompt, Holding
        <4>2. clock <= now[c] + CallBudget
          BY <3>2 DEF Prompt, InBudget, Live
        <4> QED
          BY <3>1, <4>1, <4>2, Times, <3>2
      <3> QED
        BY <2>3, <3>1, <3>2
    <2>4. CASE recovery'.stale = {}
      BY <1>5, <2>4
    <2> QED
      BY <2>2, <2>3, <2>4, Pace
  <1> QED
    BY <1>0, <1>1, <1>4, <1>5 DEF Prompt, Holding, StaleAreAbandoned, Subject

LEMMA InitPrompt == Init => Prompt
  BY DEF Init, Prompt, InBudget, Holding, StaleAreAbandoned, NoRecovery, Live, Simulating

\* Calls within the threshold and the recovery command never meet on an execution.
LEMMA PromptAlways ==
    ASSUME CallBudget <= StaleAfter
    PROVE  Spec => [](/\ TypeOK /\ RowsOwned /\ Checked /\ Attempts
                      /\ Validated /\ Prompt)
  BY InitTypes, InitAttempts, InitGrants, InitPrompt, TypeStep, OwnStep, AttemptStep,
     GrantStep, PromptStep, PTL DEF Spec

\* Only EXECUTING rows are rewritten, and they end in one commit.
LEMMA PromptWrites ==
    ASSUME TypeOK, Prompt, [Next]_vars, NEW a \in Actions,
           executions'[a] # executions[a]
    PROVE  \/ StartStored(a)
           \/ executions[a].state = "EXECUTING" /\ executions'[a].state \in Ended
  <1>1. CASE EndStored(a)
    <2>1. PICK c \in Calls, s \in Ended :
            /\ pc[c] \in {"succeeding", "failing"} /\ Subject(c) = a
            /\ executions'[a] = [executions[a] EXCEPT !.state = s]
      BY <1>1 DEF EndStored
    <2>2. executions[a].state = "EXECUTING"
      BY <2>1 DEF Prompt, Holding, Simulating
    <2>3. executions[a] \in Execution
      BY <2>2 DEF TypeOK, NoExecution
    <2> QED
      BY <2>1, <2>2, <2>3, StateUpdate
  <1>2. CASE StaleFailed(a)
    <2>1. executions[a].state = "EXECUTING"
      BY <1>2 DEF StaleFailed, Prompt, StaleAreAbandoned
    <2>2. executions[a] \in Execution
      BY <2>1 DEF TypeOK, NoExecution
    <2> QED
      BY <1>2, <2>1, <2>2, StateUpdate DEF StaleFailed, Ended
  <1> QED
    BY <1>1, <1>2, RowFootprint DEF Written, Untouched, DecisionStored, DenialStored

\* Where a step may take an action.
LEMMA StageMoves ==
    ASSUME TypeOK, Checked, Validated, Prompt, [Next]_vars, NEW a \in Actions,
           Stage(a)' # Stage(a)
    PROVE  \/ Stage(a) = "PENDING_APPROVAL" /\ Stage(a)' \in Decisions
           \/ Stage(a) = "APPROVED" /\ Stage(a)' = "EXECUTING"
           \/ Stage(a) = "EXECUTING" /\ Stage(a)' \in Ended
  <1>1. CASE executions'[a] = executions[a]
    <2>1. ~Executed(a) /\ approvals'[a] # approvals[a]
      BY <1>1 DEF Stage, Executed
    <2>a. DecisionStored(a)
      BY <2>1, RowFootprint
         DEF Written, Untouched, DenialStored, StartStored, EndStored, StaleFailed
    <2>2. PICK c \in Calls :
            /\ ~Decided(a)
            /\ approvals'[a].decision = request[c].op
            /\ request[c].op \in Decisions
      BY <2>a DEF DecisionStored, Checked
    <2>3. approvals'[a] # NoApproval
      BY <2>2 DEF NoApproval, Decisions
    <2> QED
      BY <1>1, <2>1, <2>2, <2>3 DEF Stage, Executed, Decided
  <1>2. CASE StartStored(a)
    <2>1. PICK c \in Calls :
            /\ pc[c] = "starting" /\ Subject(c) = a
            /\ ~Executed(a)
            /\ executions'[a].state = "EXECUTING"
      BY <1>2 DEF StartStored
    <2>2. approvals[a].decision = "APPROVED" /\ approvals[a] # NoApproval
      BY <2>1 DEF Validated, NoApproval
    <2>3. Stage(a) = "APPROVED"
      BY <2>1, <2>2 DEF Stage, Executed
    <2>4. Stage(a)' = "EXECUTING"
      BY <2>1 DEF Stage, NoExecution
    <2> QED
      BY <2>3, <2>4
  <1>3. CASE executions[a].state = "EXECUTING" /\ executions'[a].state \in Ended
    BY <1>3 DEF Stage, NoExecution, Ended
  <1> QED
    BY <1>1, <1>2, <1>3, PromptWrites

\* While live calls keep within the recovery threshold, approval, execution and
\* recovery move actions along the table of domain/actions.py, although no row has
\* a lifecycle column and no commit checks the state it overwrites.
THEOREM PromptCallsFollowLifecycle ==
    ASSUME CallBudget <= StaleAfter
    PROVE  Spec => FollowsLifecycle
  <1>1. Init => Lifecycle!Init
    BY DEF Init, Lifecycle!Init, Stage
  <1>2. ASSUME TypeOK, RowsOwned, Checked, Validated, Prompt, [Next]_vars
        PROVE  Lifecycle!TransitionTo
    <2>1. TypeOK'
      BY <1>2, TypeStep
    <2>2. \A a \in Actions : Stage(a)' \in Lifecycle!States
      BY <2>1 DEF TypeOK, Stage, Approval, Decisions, Execution, Ended, Lifecycle!States
    <2>3. ASSUME NEW a \in Actions, Stage(a)' # Stage(a)
          PROVE  Stage(a)' \in Lifecycle!Successors[Stage(a)]
      BY <1>2, <2>3, StageMoves
         DEF Lifecycle!Successors, Lifecycle!States, Decisions, Ended
    <2> QED
      BY <2>2, <2>3 DEF Lifecycle!TransitionTo
  <1>3. ASSUME TypeOK, RowsOwned, Checked, Validated, Prompt, [Next]_vars
        PROVE  [Lifecycle!TransitionTo]_([a \in Actions |-> Stage(a)])
    BY <1>2, <1>3
  <1> QED
    BY <1>1, <1>3, PromptAlways, PTL DEF Spec, FollowsLifecycle, Lifecycle!Spec
=============================================================================
