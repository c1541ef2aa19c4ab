--------------------------- MODULE AlertDeskProofs ---------------------------
(***************************************************************************)
(* Theorems about AlertDesk for every number of clients, requests,         *)
(* evaluations, scenarios, alerts, keys, contents and faults.              *)
(***************************************************************************)
EXTENDS AlertDesk, FiniteSetTheorems, TLAPS

(***************************************************************************)
(* Alerts, rows and keys.                                                  *)
(***************************************************************************)

LEMMA Contentful == \A content \in Content : content # NoAlert
  BY DeskAssumption DEF Content, NoAlert, Isolated, Ids

LEMMA Rowful ==
    /\ \A row \in Row : row # NoRow
    /\ \A x \in Asked : x # NotAsked
  BY DeskAssumption DEF Row, NoRow, Asked, NotAsked

LEMMA FinishedRow ==
    ASSUME NEW row \in Row
    PROVE  /\ [row EXCEPT !.finished = TRUE] \in Row
           /\ [row EXCEPT !.finished = TRUE].alert = row.alert
           /\ [row EXCEPT !.finished = TRUE].key = row.key
           /\ [row EXCEPT !.finished = TRUE].finished
  <1>1. [row EXCEPT !.finished = TRUE] \in Row
    BY DEF Row
  <1>2. [row EXCEPT !.finished = TRUE].alert = row.alert
    BY DEF Row
  <1>3. [row EXCEPT !.finished = TRUE].key = row.key
    BY DEF Row
  <1>4. [row EXCEPT !.finished = TRUE].finished
    BY DEF Row
  <1> QED
    BY <1>1, <1>2, <1>3, <1>4

\* What _run_case asks for.
CaseAsked(r) == [alert |-> r[2], content |-> Isolated(r[2]), key |-> r]

LEMMA CasesAre ==
    ASSUME NEW r \in Cases
    PROVE  r[1] \in Evaluations /\ r[2] \in Scenarios /\ r = <<r[1], r[2]>>
  BY DEF Cases

(***************************************************************************)
(* What one step does to a run, an ingest, an evaluation and an alert.     *)
(***************************************************************************)

Rests(r) ==
    /\ pc'[r] = pc[r] /\ asked'[r] = asked[r] /\ met'[r] = met[r]
    /\ executions'[r] = executions[r] /\ outcome'[r] = outcome[r]

Asks(r) ==
    /\ pc[r] = "idle"
    /\ executions'[r] = executions[r] /\ outcome'[r] = outcome[r] /\ alerts' = alerts
    /\ \/ pc'[r] = "done" /\ r \in Requests /\ asked'[r] = asked[r]
       \/ /\ pc'[r] = "lookup" /\ r \in Requests
          /\ \E a \in Alerts, key \in Keys \cup {r} :
                /\ alerts[a] # NoAlert
                /\ asked'[r] = [alert |-> a, content |-> alerts[a], key |-> key]
       \/ pc'[r] = "lookup" /\ r \in Cases /\ asked'[r] = CaseAsked(r)

Waits(r) ==
    /\ asked'[r] = asked[r] /\ executions'[r] = executions[r] /\ outcome'[r] = outcome[r]
    /\ \/ pc[r] = "lookup" /\ pc'[r] = "loading"
       \/ /\ pc[r] = "loading" /\ pc'[r] = "starting" /\ alerts' = alerts
          /\ met'[r] = (alerts[asked[r].alert] # NoAlert)
       \/ pc[r] # "done" /\ pc'[r] = "crashed"

Replays(r) ==
    /\ pc[r] = "lookup" /\ pc'[r] = "done"
    /\ asked'[r] = asked[r] /\ executions' = executions
    /\ \E x \in Runs :
          /\ executions[x] # NoRow /\ executions[x].key = asked[r].key
          /\ outcome'[r] = [execution |-> x, durable |-> TRUE,
                            result |-> executions[x].finished]

Starts(r) ==
    /\ pc[r] = "starting"
    /\ asked'[r] = asked[r]
    /\ executions'[r] = [alert |-> asked[r].alert, key |-> asked[r].key,
                         finished |-> FALSE]
    /\ \/ pc'[r] = "working" /\ outcome'[r] = outcome[r]
       \/ pc'[r] = "done" /\ outcome'[r] = Failure(r)

Finishes(r) ==
    /\ pc[r] = "working" /\ pc'[r] = "done"
    /\ asked'[r] = asked[r]
    /\ executions'[r] = [executions[r] EXCEPT !.finished = TRUE]
    /\ \/ outcome'[r] = Failure(r)
       \/ outcome'[r] = [execution |-> r, durable |-> TRUE, result |-> TRUE]

Fails(r) ==
    /\ pc[r] \in {"lookup", "starting", "working"} /\ pc'[r] = "done"
    /\ asked'[r] = asked[r] /\ executions'[r] = executions[r]
    /\ outcome'[r] = Failure(r)

Moves(r) == Asks(r) \/ Waits(r) \/ Replays(r) \/ Starts(r) \/ Finishes(r) \/ Fails(r)

Shape ==
    /\ pc \in [Callers \cup Runs -> Places]
    /\ asked \in [Ingests \cup Runs -> Asked \cup {NotAsked}]
    /\ met \in [Runs -> BOOLEAN]
    /\ executions \in [Runs -> Row \cup {NoRow}]
    /\ outcome \in [Runs -> Outcome \cup {NoOutcome}]

LEMMA RunFootprint ==
    ASSUME TypeOK, [Next]_vars, NEW r \in Runs
    PROVE  Rests(r) \/ Moves(r)
  <1>0. Shape
    BY DEF TypeOK, Shape
  <1>r. r \in Requests \/ r \in Cases
    BY DEF Runs
  <1>1. ASSUME NEW i \in Ingests, IngestStep(i) PROVE Rests(r)
    <2>1. i # r
      BY DeskAssumption DEF Runs
    <2> QED
      BY <1>0, <1>1, <2>1 DEF IngestStep, Ingest, StoreConflicts, Store, Goto, Rests,
         database, Shape, Runs, Callers
  <1>2. ASSUME NEW q \in Requests, NEW a \in Alerts, ApiRequest(q, a) \/ PageRequest(q, a)
        PROVE  Rests(r) \/ Moves(r)
    <2>1. PICK key \in Keys \cup {q} : Request(q, a, key)
      BY <1>2 DEF ApiRequest, PageRequest, FreshKey
    <2>2. q \in Runs
      BY DEF Runs
    <2>3. UNCHANGED <<executions, met, outcome, alerts>>
      BY <2>1 DEF Request, database
    <2>4. CASE q # r
      BY <1>0, <2>1, <2>2, <2>3, <2>4 DEF Request, Goto, Rests, Shape, Runs, Callers
    <2>5. CASE q = r
      BY <1>0, <2>1, <2>2, <2>3, <2>5 DEF Request, Comes, Goto, Moves, Asks, Shape, Runs,
         Callers
    <2> QED
      BY <2>4, <2>5
  <1>3. ASSUME NEW x \in Runs, Replay(x) PROVE Rests(r) \/ Moves(r)
    BY <1>0, <1>3 DEF Replay, Return, Goto, Rests, Moves, Replays, database, Shape
  <1>4. ASSUME NEW x \in Runs, LookupFails(x) PROVE Rests(r) \/ Moves(r)
    BY <1>0, <1>4 DEF LookupFails, Return, Goto, Rests, Moves, Fails, database, Shape
  <1>5. ASSUME NEW x \in Runs, LookupMisses(x) PROVE Rests(r) \/ Moves(r)
    BY <1>0, <1>5 DEF LookupMisses, Goto, Rests, Moves, Waits, database, Shape
  <1>6. ASSUME NEW x \in Runs, LoadAlert(x) PROVE Rests(r) \/ Moves(r)
    BY <1>0, <1>6 DEF LoadAlert, Goto, Rests, Moves, Waits, database, Shape
  <1>7. ASSUME NEW x \in Runs, StartConflicts(x) PROVE Rests(r) \/ Moves(r)
    BY <1>0, <1>7 DEF StartConflicts, Return, Goto, Rests, Moves, Fails, database, Shape
  <1>8. ASSUME NEW x \in Runs, NEW commit \in CommitOutcomes, Start(x, commit)
        PROVE  Rests(r) \/ Moves(r)
    <2>1. CASE x # r
      BY <1>0, <1>8, <2>1 DEF Start, Return, Goto, Rests, Shape
    <2>2. CASE x = r /\ Applied(commit)
      BY <1>0, <1>8, <2>2 DEF Start, Return, Goto, Moves, Starts, Shape
    <2>3. CASE x = r /\ ~Applied(commit)
      BY <1>0, <1>8, <2>3 DEF Start, Return, Goto, Applied, Moves, Fails, Shape
    <2> QED
      BY <2>1, <2>2, <2>3
  <1>9. ASSUME NEW x \in Runs, NEW commit \in CommitOutcomes, Finish(x, commit)
        PROVE  Rests(r) \/ Moves(r)
    <2>1. CASE x # r
      BY <1>0, <1>9, <2>1 DEF Finish, Return, Goto, Rests, Shape
    <2>2. CASE x = r /\ Applied(commit)
      BY <1>0, <1>9, <2>2 DEF Finish, Return, Goto, Moves, Finishes, Shape
    <2>3. CASE x = r /\ ~Applied(commit)
      BY <1>0, <1>9, <2>3 DEF Finish, Return, Goto, Applied, Moves, Fails, Shape
    <2> QED
      BY <2>1, <2>2, <2>3
  <1>10. ASSUME NEW e \in Evaluations, NEW s \in Scenarios, RunCase(e, s)
         PROVE  Rests(r) \/ Moves(r)
    <2>1. <<e, s>> \in Cases /\ <<e, s>> \in Runs
      BY DEF Cases, Runs
    <2>2. UNCHANGED <<executions, met, outcome, alerts>>
      BY <1>10 DEF RunCase, database
    <2>3. CASE r # <<e, s>>
      BY <1>0, <1>10, <2>1, <2>2, <2>3 DEF RunCase, Goto, Rests, Shape
    <2>4. CASE r = <<e, s>>
      <3>1. asked'[r] = [alert |-> s, content |-> Isolated(s), key |-> r]
        BY <1>0, <1>10, <2>1, <2>4 DEF RunCase, Shape
      <3>2. r[2] = s
        BY <2>4
      <3>3. asked'[r] = CaseAsked(r)
        BY <3>1, <3>2 DEF CaseAsked
      <3>4. pc[r] = "idle" /\ pc'[r] = "lookup"
        BY <1>0, <1>10, <2>1, <2>4 DEF RunCase, Goto, Shape
      <3> QED
        BY <2>1, <2>2, <2>4, <3>3, <3>4 DEF Moves, Asks
    <2> QED
      BY <2>3, <2>4
  <1>11. ASSUME NEW e \in Evaluations,
                \/ Evaluate(e) \/ SaveConflicts(e)
                \/ \E commit \in CommitOutcomes : Save(e, commit)
         PROVE  Rests(r)
    <2>1. e # r
      BY <1>r, DeskAssumption
    <2> QED
      BY <1>0, <1>11, <2>1 DEF Evaluate, SaveConflicts, Save, Goto, Rests, database,
         Shape, Callers
  <1>12. ASSUME NEW c \in Callers, Crash(c) PROVE Rests(r) \/ Moves(r)
    BY <1>0, <1>12 DEF Crash, Rests, Moves, Waits, database, Shape
  <1>13. ASSUME UNCHANGED vars PROVE Rests(r)
    BY <1>13 DEF vars, Rests
  <1> QED
    BY <1>1, <1>2, <1>3, <1>4, <1>5, <1>6, <1>7, <1>8, <1>9, <1>10, <1>11, <1>12, <1>13
       DEF Next, RunStep, EvaluationStep

\* Of an ingest.
Idles(i) == pc'[i] = pc[i] /\ asked'[i] = asked[i] /\ reply'[i] = reply[i]

LooksUp(i) ==
    /\ pc[i] = "idle"
    /\ alerts' = alerts
    /\ asked'[i].alert \in Alerts /\ asked'[i].content \in Contents
    /\ asked'[i] \in Asked
    /\ \/ pc'[i] = "storing" /\ reply'[i] = reply[i]
       \/ /\ pc'[i] = "done"
          /\ alerts[asked'[i].alert] # NoAlert
          /\ reply'[i] = IF alerts[asked'[i].alert] = asked'[i].content
                         THEN "UNCHANGED" ELSE "CONFLICT"

Creates(i) ==
    /\ pc[i] = "storing" /\ pc'[i] = "done"
    /\ asked'[i] = asked[i] /\ reply'[i] = "CREATED"
    /\ alerts[asked[i].alert] = NoAlert
    /\ alerts' = [alerts EXCEPT ![asked[i].alert] = asked[i].content]
    /\ \A j \in Ingests \ {i} : pc'[j] = pc[j] /\ reply'[j] = reply[j]

GivesUp(i) ==
    /\ pc[i] # "done" /\ pc'[i] \in {"done", "crashed"}
    /\ asked'[i] = asked[i]
    /\ \/ pc[i] = "storing" /\ reply'[i] = "ERROR"
       \/ pc'[i] = "crashed" /\ reply'[i] = reply[i]

LEMMA IngestFootprint ==
    ASSUME TypeOK, [Next]_vars, NEW i \in Ingests
    PROVE  Idles(i) \/ LooksUp(i) \/ Creates(i) \/ GivesUp(i)
  <1>0. /\ Shape
        /\ reply \in [Ingests \cup Requests -> Replies]
        /\ i \in Callers \cup Runs
    BY DEF TypeOK, Shape, Callers
  <1>n. \A x \in Requests \cup Evaluations \cup Runs : x # i
    BY DeskAssumption DEF Runs
  <1>1. ASSUME NEW j \in Ingests, NEW a \in Alerts, NEW content \in Contents,
               Ingest(j, a, content)
        PROVE  Idles(i) \/ LooksUp(i)
    <2>1. CASE i # j
      BY <1>0, <1>1, <2>1 DEF Ingest, Goto, Idles, Shape
    <2>2. CASE i = j
      <3>1. /\ asked'[i] = [alert |-> a, content |-> content, key |-> None]
            /\ pc[i] = "idle" /\ alerts' = alerts
        BY <1>0, <1>1, <2>2 DEF Ingest, Comes, Shape, database
      <3>2. asked'[i] \in Asked
        BY <3>1 DEF Asked, Ids, Content
      <3>3. \/ pc'[i] = "storing" /\ reply'[i] = reply[i]
            \/ /\ pc'[i] = "done"
               /\ alerts[a] # NoAlert
               /\ reply'[i] = IF alerts[a] = content THEN "UNCHANGED" ELSE "CONFLICT"
        BY <1>0, <1>1, <2>2 DEF Ingest, Goto, Shape
      <3> QED
        BY <3>1, <3>2, <3>3 DEF LooksUp
    <2> QED
      BY <2>1, <2>2
  <1>2. ASSUME NEW j \in Ingests, StoreConflicts(j) PROVE Idles(i) \/ GivesUp(i)
    BY <1>0, <1>2 DEF StoreConflicts, Goto, Idles, GivesUp, Shape
  <1>3. ASSUME NEW j \in Ingests, NEW commit \in CommitOutcomes, Store(j, commit)
        PROVE  Idles(i) \/ Creates(i) \/ GivesUp(i)
    <2>0. \A k \in Ingests : k \in Callers \cup Runs
      BY DEF Callers
    <2>1. CASE i # j
      BY <1>0, <1>3, <2>1 DEF Store, Goto, Idles, Shape
    <2>2. CASE i = j /\ commit = "ok"
      BY <1>0, <1>3, <2>0, <2>2 DEF Store, Goto, Applied, Taken, Creates, Shape
    <2>3. CASE i = j /\ commit # "ok"
      BY <1>0, <1>3, <2>3 DEF Store, Goto, GivesUp, Shape
    <2> QED
      BY <2>1, <2>2, <2>3
  <1>4. ASSUME NEW q \in Requests, NEW a \in Alerts, NEW key, Request(q, a, key)
        PROVE  Idles(i)
    BY <1>0, <1>n, <1>4 DEF Request, Goto, Idles, Shape
  <1>5. ASSUME NEW r \in Runs, RunStep(r) PROVE Idles(i)
    BY <1>0, <1>n, <1>5 DEF RunStep, Replay, LookupFails, LookupMisses, LoadAlert,
       StartConflicts, Start, Finish, Return, Goto, Idles, Shape
  <1>6. ASSUME NEW e \in Evaluations, NEW s \in Scenarios, RunCase(e, s) PROVE Idles(i)
    <2>1. <<e, s>> \in Runs
      BY DEF Runs, Cases
    <2> QED
      BY <1>0, <1>n, <1>6, <2>1 DEF RunCase, Goto, Idles, Shape
  <1>7. ASSUME NEW e \in Evaluations,
               \/ Evaluate(e) \/ SaveConflicts(e)
               \/ \E commit \in CommitOutcomes : Save(e, commit)
        PROVE  Idles(i)
    BY <1>0, <1>n, <1>7 DEF Evaluate, SaveConflicts, Save, Goto, Idles, Shape
  <1>8. ASSUME NEW c \in Callers, Crash(c) PROVE Idles(i) \/ GivesUp(i)
    BY <1>0, <1>8 DEF Crash, Idles, GivesUp, Shape
  <1>9. ASSUME UNCHANGED vars PROVE Idles(i)
    BY <1>9 DEF vars, Idles
  <1> QED
    BY <1>1, <1>2, <1>3, <1>4, <1>5, <1>6, <1>7, <1>8, <1>9
       DEF Next, IngestStep, EvaluationStep, ApiRequest, PageRequest

\* Of an alert.
Kept(a) == alerts'[a] = alerts[a] /\ ingested'[a] = ingested[a]

Ingested(a) ==
    \E i \in Ingests :
        /\ pc[i] = "storing" /\ asked[i].alert = a
        /\ alerts[a] = NoAlert
        /\ alerts'[a] = asked[i].content
        /\ ingested'[a] = ingested[a] + 1

Isolates(a) ==
    \E r \in Runs :
        /\ pc[r] = "starting" /\ asked[r].alert = a
        /\ ~met[r]
        /\ alerts[a] = NoAlert
        /\ alerts'[a] = asked[r].content
        /\ ingested'[a] = ingested[a]

LEMMA AlertFootprint ==
    ASSUME TypeOK, [Next]_vars, NEW a \in Ids
    PROVE  Kept(a) \/ Ingested(a) \/ Isolates(a)
  <1>0. /\ alerts \in [Ids -> Content \cup {NoAlert}]
        /\ ingested \in [Ids -> Nat]
    BY DEF TypeOK
  <1>1. ASSUME NEW i \in Ingests, NEW commit \in CommitOutcomes, Store(i, commit)
        PROVE  Kept(a) \/ Ingested(a)
    BY <1>0, <1>1 DEF Store, Taken, Kept, Ingested
  <1>2. ASSUME NEW r \in Runs, NEW commit \in CommitOutcomes, Start(r, commit)
        PROVE  Kept(a) \/ Isolates(a)
    BY <1>0, <1>2 DEF Start, StartBlocked, Taken, Kept, Isolates
  <1>3. UNCHANGED <<alerts, ingested>> => Kept(a)
    BY DEF Kept
  <1>4. ASSUME NEW i \in Ingests, NEW b \in Alerts, NEW content \in Contents,
               Ingest(i, b, content)
        PROVE  UNCHANGED <<alerts, ingested>>
    BY <1>4 DEF Ingest, database
  <1>5. ASSUME NEW i \in Ingests, StoreConflicts(i) PROVE UNCHANGED <<alerts, ingested>>
    BY <1>5 DEF StoreConflicts, database
  <1>6. ASSUME NEW q \in Requests, NEW b \in Alerts, ApiRequest(q, b) \/ PageRequest(q, b)
        PROVE  UNCHANGED <<alerts, ingested>>
    BY <1>6 DEF ApiRequest, PageRequest, Request, database
  <1>7. ASSUME NEW r \in Runs, NEW commit \in CommitOutcomes, Finish(r, commit)
        PROVE  UNCHANGED <<alerts, ingested>>
    BY <1>7 DEF Finish
  <1>8. ASSUME NEW r \in Runs,
               \/ Replay(r) \/ LookupFails(r) \/ LookupMisses(r) \/ LoadAlert(r)
               \/ StartConflicts(r)
        PROVE  UNCHANGED <<alerts, ingested>>
    BY <1>8 DEF Replay, LookupFails, LookupMisses, LoadAlert, StartConflicts, database
  <1>9. ASSUME NEW e \in Evaluations, EvaluationStep(e)
        PROVE  UNCHANGED <<alerts, ingested>>
    BY <1>9 DEF EvaluationStep, Evaluate, RunCase, SaveConflicts, Save, database
  <1>10. ASSUME NEW c \in Callers, Crash(c) PROVE UNCHANGED <<alerts, ingested>>
    BY <1>10 DEF Crash, database
  <1>11. UNCHANGED vars => UNCHANGED <<alerts, ingested>>
    BY DEF vars
  <1> QED
    BY <1>1, <1>2, <1>3, <1>4, <1>5, <1>6, <1>7, <1>8, <1>9, <1>10, <1>11
       DEF Next, IngestStep, RunStep

\* Of an evaluation.
Stays(e) == pc'[e] = pc[e] /\ suite'[e] = suite[e] /\ reports'[e] = reports[e]

Opens(e) == /\ pc[e] = "idle" /\ pc'[e] # "done"
            /\ suite'[e] \subseteq Scenarios /\ reports'[e] = reports[e]

Closes(e) == /\ pc[e] # "done"
             /\ suite'[e] = suite[e] /\ reports'[e] = reports[e]

Saves(e) ==
    /\ Evaluated(e) /\ References(e)
    /\ pc'[e] = "done" /\ suite'[e] = suite[e]
    /\ reports'[e] = Records(e)
    /\ UNCHANGED <<executions, outcome>>
    /\ \A r \in Runs : pc'[r] = pc[r]

LEMMA EvaluationFootprint ==
    ASSUME TypeOK, [Next]_vars, NEW e \in Evaluations
    PROVE  Stays(e) \/ Opens(e) \/ Closes(e) \/ Saves(e)
  <1>0. /\ Shape
        /\ suite \in [Evaluations -> SUBSET Scenarios]
        /\ reports \in [Evaluations -> SUBSET Case]
        /\ e \in Callers \cup Runs
    BY DEF TypeOK, Shape, Callers
  <1>n. \A x \in Ingests \cup Requests \cup Runs : x # e
    BY DeskAssumption DEF Runs
  <1>1. ASSUME NEW x \in Ingests \cup Requests \cup Runs, NEW place, Goto(x, place),
               UNCHANGED <<suite, reports>>
        PROVE  Stays(e)
    BY <1>0, <1>n, <1>1 DEF Goto, Stays, Shape
  <1>2. ASSUME NEW i \in Ingests, IngestStep(i) PROVE Stays(e)
    BY <1>1, <1>2 DEF IngestStep, Ingest, StoreConflicts, Store, database
  <1>3. ASSUME NEW q \in Requests, NEW a \in Alerts, NEW key, Request(q, a, key)
        PROVE  Stays(e)
    BY <1>1, <1>3 DEF Request, database
  <1>4. ASSUME NEW r \in Runs, RunStep(r) PROVE Stays(e)
    <2>1. UNCHANGED <<suite, reports>>
      BY <1>4 DEF RunStep, Replay, LookupFails, LookupMisses, LoadAlert, StartConflicts,
         Start, Finish, database
    <2>2. \E place : Goto(r, place)
      BY <1>4 DEF RunStep, Replay, LookupFails, LookupMisses, LoadAlert, StartConflicts,
         Start, Finish, Return
    <2> QED
      BY <1>1, <2>1, <2>2
  <1>5. ASSUME NEW f \in Evaluations, Evaluate(f) PROVE Stays(e) \/ Opens(e)
    <2>1. PICK scenarios \in {Scenarios} \cup {{s} : s \in Scenarios} :
            suite' = [suite EXCEPT ![f] = scenarios]
      BY <1>5 DEF Evaluate
    <2>2. scenarios \subseteq Scenarios
      OBVIOUS
    <2> QED
      BY <1>0, <1>5, <2>1, <2>2 DEF Evaluate, Comes, Goto, Stays, Opens, database, Shape,
         Callers
  <1>6. ASSUME NEW f \in Evaluations, NEW s \in Scenarios, RunCase(f, s) PROVE Stays(e)
    <2>1. <<f, s>> \in Runs
      BY DEF Runs, Cases
    <2> QED
      BY <1>1, <1>6, <2>1 DEF RunCase, database
  <1>7. ASSUME NEW f \in Evaluations, SaveConflicts(f) PROVE Stays(e) \/ Closes(e)
    BY <1>0, <1>7 DEF SaveConflicts, Evaluated, Goto, Stays, Closes, database, Shape,
       Callers
  <1>8. ASSUME NEW f \in Evaluations, NEW commit \in CommitOutcomes, Save(f, commit)
        PROVE  Stays(e) \/ Closes(e) \/ Saves(e)
    <2>1. CASE f # e
      BY <1>0, <1>8, <2>1 DEF Save, Goto, Stays, Shape, Callers
    <2>2. CASE f = e /\ ~Applied(commit)
      BY <1>0, <1>8, <2>2 DEF Save, Evaluated, Goto, Closes, Shape
    <2>3. CASE f = e /\ Applied(commit)
      <3>1. \A r \in Runs : pc'[r] = pc[r]
        BY <1>0, <1>8, <1>n, <2>3 DEF Save, Goto, Shape
      <3> QED
        BY <1>0, <1>8, <2>3, <3>1 DEF Save, Goto, Saves, Shape
    <2> QED
      BY <2>1, <2>2, <2>3
  <1>9. ASSUME NEW c \in Callers, Crash(c) PROVE Stays(e) \/ Closes(e)
    BY <1>0, <1>9 DEF Crash, Stays, Closes, database, Shape
  <1>10. ASSUME UNCHANGED vars PROVE Stays(e)
    BY <1>10 DEF vars, Stays
  <1> QED
    BY <1>2, <1>3, <1>4, <1>5, <1>6, <1>7, <1>8, <1>9, <1>10
       DEF Next, EvaluationStep, ApiRequest, PageRequest

(***************************************************************************)
(* Invariants.                                                             *)
(***************************************************************************)

Working == {"lookup", "loading", "starting", "working"}

\* What is asked stays within reach of the store: a client's alert, a stored alert of a
\* request, an isolated alert of a case.
AskedWell ==
    /\ \A i \in Ingests :
           pc[i] = "storing" \/ reply[i] # "PENDING" =>
               asked[i].alert \in Alerts /\ asked[i].content \in Contents
    /\ \A r \in Runs :
           /\ pc[r] = "idle" => asked[r] = NotAsked /\ outcome[r] = NoOutcome
           /\ pc[r] \in Working => asked[r] # NotAsked
    /\ \A q \in Requests :
           /\ asked[q] # NotAsked =>
                  /\ asked[q].alert \in Alerts
                  /\ alerts[asked[q].alert] = asked[q].content
                  /\ asked[q].content # NoAlert
                  /\ asked[q].key \in Keys \cup {q}
           /\ pc[q] = "starting" => met[q]
    /\ \A r \in Cases : asked[r] # NotAsked => asked[r] = CaseAsked(r)

\* An execution is its run's, and a run past its start has one.
RowsOwned ==
    \A r \in Runs :
        /\ executions[r] # NoRow =>
               /\ asked[r] # NotAsked
               /\ executions[r].alert = asked[r].alert
               /\ executions[r].key = asked[r].key
        /\ pc[r] \in {"idle", "lookup", "loading", "starting"} => executions[r] = NoRow
        /\ pc[r] = "working" => executions[r] # NoRow

\* A durable outcome names a row under the run's key.
OutcomesOwned ==
    /\ \A r \in Runs :
           outcome[r].durable =>
               /\ asked[r] # NotAsked
               /\ outcome[r].execution \in Runs
               /\ executions[outcome[r].execution] # NoRow
               /\ executions[outcome[r].execution].key = asked[r].key
    /\ \A r \in Cases :
           pc[r] = "done" =>
               /\ outcome[r].execution = r
               /\ outcome[r].durable => executions[r].finished

\* A report is what its evaluation has recorded, and nothing of it moves any more.
Saved ==
    \A e \in Evaluations :
        reports[e] # {} =>
            /\ pc[e] = "done"
            /\ reports[e] = Records(e)
            /\ \A s \in suite[e] : /\ pc[<<e, s>>] = "done"
                                   /\ executions[<<e, s>>] # NoRow

Owns == AskedWell /\ RowsOwned /\ OutcomesOwned /\ Saved

\* Stored alerts and executions stay, and what was asked stays.
LEMMA Stands ==
    ASSUME TypeOK, Owns, [Next]_vars
    PROVE  /\ \A a \in Ids : alerts[a] # NoAlert => alerts'[a] = alerts[a]
           /\ \A r \in Runs :
                  /\ asked[r] # NotAsked => asked'[r] = asked[r]
                  /\ executions[r] # NoRow =>
                         /\ executions'[r] # NoRow
                         /\ executions'[r].alert = executions[r].alert
                         /\ executions'[r].key = executions[r].key
                         /\ executions[r].finished => executions'[r].finished
                  /\ pc[r] = "done" => pc'[r] = "done" /\ outcome'[r] = outcome[r]
  <1>1. ASSUME NEW a \in Ids, alerts[a] # NoAlert PROVE alerts'[a] = alerts[a]
    BY <1>1, AlertFootprint DEF Kept, Ingested, Isolates
  <1>2. ASSUME NEW r \in Runs, executions[r] # NoRow
        PROVE  /\ executions'[r] # NoRow
               /\ executions'[r].alert = executions[r].alert
               /\ executions'[r].key = executions[r].key
               /\ executions[r].finished => executions'[r].finished
    <2>1. executions[r] \in Row
      BY <1>2 DEF TypeOK
    <2>2. executions'[r] = executions[r]
          \/ executions'[r] = [executions[r] EXCEPT !.finished = TRUE]
      BY <1>2, RunFootprint DEF Rests, Moves, Asks, Waits, Replays, Starts, Finishes,
         Fails, Owns, RowsOwned
    <2>3. executions'[r] \in Row
      BY <2>1, <2>2, FinishedRow
    <2>4. CASE executions'[r] = executions[r]
      BY <1>2, <2>4
    <2>5. CASE executions'[r] = [executions[r] EXCEPT !.finished = TRUE]
      BY <2>1, <2>3, <2>5, FinishedRow, Rowful
    <2> QED
      BY <2>2, <2>4, <2>5
  <1>3. ASSUME NEW r \in Runs
        PROVE  /\ asked[r] # NotAsked => asked'[r] = asked[r]
               /\ pc[r] = "done" => pc'[r] = "done" /\ outcome'[r] = outcome[r]
    BY RunFootprint DEF Rests, Moves, Asks, Waits, Replays, Starts, Finishes, Fails,
       Owns, AskedWell
  <1> QED
    BY <1>1, <1>2, <1>3

\* Whose execution holds a key.
LEMMA KeysAreTheirs ==
    ASSUME TypeOK, Owns, NEW x \in Runs, executions[x] # NoRow,
           NEW r \in Runs, asked[r] # NotAsked, executions[x].key = asked[r].key
    PROVE  x = r \/ (x \in Requests /\ r \in Requests /\ asked[r].key \in Keys)
  <1>1. asked[x] # NotAsked /\ asked[x].key = asked[r].key
    BY DEF Owns, RowsOwned
  <1>2. \A y \in Runs : asked[y] # NotAsked => asked[y].key = y
                                               \/ (y \in Requests /\ asked[y].key \in Keys)
    <2>1. ASSUME NEW y \in Cases, asked[y] # NotAsked PROVE asked[y].key = y
      <3>1. asked[y] = CaseAsked(y)
        BY <2>1 DEF Owns, AskedWell
      <3> QED
        BY <3>1 DEF CaseAsked
    <2>2. ASSUME NEW y \in Requests, asked[y] # NotAsked
          PROVE  asked[y].key \in Keys \cup {y}
      BY <2>2 DEF Owns, AskedWell
    <2> QED
      BY <2>1, <2>2 DEF Runs
  <1>3. \A y \in Runs : y \notin Keys
    BY DeskAssumption
  <1>4. CASE asked[r].key \in Keys
    BY <1>1, <1>2, <1>3, <1>4
  <1>5. CASE asked[r].key \notin Keys
    <2>1. asked[r].key = r /\ asked[x].key = x
      BY <1>1, <1>2, <1>5
    <2> QED
      BY <1>1, <2>1
  <1> QED
    BY <1>4, <1>5

LEMMA AskedStep == TypeOK /\ Owns /\ [Next]_vars => AskedWell'
  <1> SUFFICES ASSUME TypeOK, Owns, [Next]_vars PROVE AskedWell'
    OBVIOUS
  <1>old. AskedWell
    BY DEF Owns
  <1>n. /\ \A a \in Alerts \cup Scenarios : a # None /\ a \in Ids
        /\ NotAsked.alert = None
    BY DeskAssumption DEF Ids, NotAsked
  <1>1. ASSUME NEW i \in Ingests, pc'[i] = "storing" \/ reply'[i] # "PENDING"
        PROVE  asked'[i].alert \in Alerts /\ asked'[i].content \in Contents
    BY <1>old, <1>1, IngestFootprint DEF Idles, LooksUp, Creates, GivesUp, AskedWell
  <1>2. ASSUME NEW r \in Cases PROVE CaseAsked(r) # NotAsked
    <2>1. CaseAsked(r).alert = r[2]
      BY DEF CaseAsked
    <2> QED
      BY <1>n, <2>1, CasesAre
  <1>3. ASSUME NEW r \in Runs
        PROVE  /\ pc'[r] = "idle" => asked'[r] = NotAsked /\ outcome'[r] = NoOutcome
               /\ pc'[r] \in Working => asked'[r] # NotAsked
    <2>1. CASE Asks(r)
      <3>1. pc'[r] # "idle"
        BY <2>1 DEF Asks
      <3>2. ASSUME NEW a \in Alerts, NEW key,
                   asked'[r] = [alert |-> a, content |-> alerts[a], key |-> key]
            PROVE  asked'[r] # NotAsked
        <4>1. asked'[r].alert = a
          BY <3>2
        <4> QED
          BY <1>n, <4>1
      <3>3. pc'[r] = "lookup" => asked'[r] # NotAsked
        BY <1>2, <2>1, <3>2 DEF Asks
      <3> QED
        BY <2>1, <3>1, <3>3 DEF Asks, Working
    <2>2. CASE Rests(r) \/ Waits(r) \/ Replays(r) \/ Starts(r) \/ Finishes(r) \/ Fails(r)
      BY <1>old, <2>2 DEF Rests, Waits, Replays, Starts, Finishes, Fails, AskedWell, Working
    <2> QED
      BY <2>1, <2>2, RunFootprint DEF Moves
  <1>4. ASSUME NEW q \in Requests, asked'[q] # NotAsked
        PROVE  /\ asked'[q].alert \in Alerts
               /\ alerts'[asked'[q].alert] = asked'[q].content
               /\ asked'[q].content # NoAlert
               /\ asked'[q].key \in Keys \cup {q}
    <2>0. q \in Runs /\ q \notin Cases
      BY DeskAssumption DEF Runs
    <2>1. CASE asked[q] # NotAsked
      BY <1>old, <1>n, <2>0, <2>1, Stands DEF AskedWell
    <2>2. CASE asked[q] = NotAsked
      <3>1. Asks(q)
        BY <1>4, <2>0, <2>2, RunFootprint DEF Rests, Moves, Waits, Replays, Starts,
           Finishes, Fails
      <3>2. PICK a \in Alerts, key \in Keys \cup {q} :
              /\ alerts[a] # NoAlert
              /\ asked'[q] = [alert |-> a, content |-> alerts[a], key |-> key]
        BY <1>4, <2>0, <2>2, <3>1 DEF Asks
      <3>3. alerts' = alerts
        BY <3>1 DEF Asks
      <3>4. asked'[q].alert = a /\ asked'[q].content = alerts[a] /\ asked'[q].key = key
        BY <3>2
      <3> QED
        BY <3>2, <3>3, <3>4
    <2> QED
      BY <2>1, <2>2
  <1>5. ASSUME NEW q \in Requests, pc'[q] = "starting" PROVE met'[q]
    <2>0. q \in Runs
      BY DEF Runs
    <2>1. CASE Rests(q)
      BY <1>old, <1>5, <2>1 DEF Rests, AskedWell
    <2>2. CASE Moves(q)
      <3>1. /\ pc[q] = "loading"
            /\ met'[q] = (alerts[asked[q].alert] # NoAlert)
        BY <1>5, <2>2 DEF Moves, Asks, Waits, Replays, Starts, Finishes, Fails
      <3>2. alerts[asked[q].alert] # NoAlert
        BY <1>old, <2>0, <3>1 DEF AskedWell, Working
      <3> QED
        BY <3>1, <3>2
    <2> QED
      BY <2>0, <2>1, <2>2, RunFootprint
  <1>6. ASSUME NEW r \in Cases, asked'[r] # NotAsked PROVE asked'[r] = CaseAsked(r)
    <2>1. r \in Runs /\ r \notin Requests
      BY DeskAssumption DEF Runs
    <2> QED
      BY <1>old, <1>6, <2>1, RunFootprint DEF Rests, Moves, Asks, Waits, Replays, Starts,
         Finishes, Fails, AskedWell
  <1> QED
    BY <1>1, <1>3, <1>4, <1>5, <1>6 DEF AskedWell, CaseAsked

LEMMA RowsStep == TypeOK /\ Owns /\ [Next]_vars => RowsOwned'
  <1> SUFFICES ASSUME TypeOK, Owns, [Next]_vars, NEW r \in Runs
               PROVE  /\ executions'[r] # NoRow =>
                             /\ asked'[r] # NotAsked
                             /\ executions'[r].alert = asked'[r].alert
                             /\ executions'[r].key = asked'[r].key
                      /\ pc'[r] \in {"idle", "lookup", "loading", "starting"}
                             => executions'[r] = NoRow
                      /\ pc'[r] = "working" => executions'[r] # NoRow
    BY DEF RowsOwned
  <1>old. RowsOwned /\ AskedWell
    BY DEF Owns
  <1>1. CASE Starts(r)
    <2>1. asked[r] # NotAsked /\ asked'[r] = asked[r] /\ asked[r] \in Asked
      BY <1>1, <1>old DEF Starts, AskedWell, Working, TypeOK
    <2>2. asked[r].alert # None
      BY <2>1, DeskAssumption DEF Asked
    <2>3. executions'[r] # NoRow
      BY <1>1, <2>2 DEF Starts, NoRow
    <2>4. executions'[r].alert = asked[r].alert /\ executions'[r].key = asked[r].key
      BY <1>1 DEF Starts
    <2> QED
      BY <1>1, <2>1, <2>3, <2>4 DEF Starts
  <1>2. CASE Finishes(r)
    <2>1. executions[r] # NoRow /\ pc'[r] = "done" /\ asked'[r] = asked[r]
      BY <1>2, <1>old DEF Finishes, RowsOwned
    <2> QED
      BY <1>old, <2>1, Stands DEF RowsOwned
  <1>3. CASE Rests(r) \/ Asks(r) \/ Waits(r) \/ Replays(r) \/ Fails(r)
    <2>1. executions'[r] = executions[r]
      BY <1>3 DEF Rests, Asks, Waits, Replays, Fails
    <2>2. CASE executions[r] = NoRow
      BY <1>3, <1>old, <2>1, <2>2 DEF Rests, Asks, Waits, Replays, Fails, RowsOwned
    <2>3. CASE executions[r] # NoRow
      <3>1. asked[r] # NotAsked /\ asked'[r] = asked[r]
        BY <1>old, <2>3, Stands DEF RowsOwned
      <3>2. pc'[r] \notin {"idle", "lookup", "loading", "starting"}
        BY <1>3, <1>old, <2>3 DEF Rests, Asks, Waits, Replays, Fails, RowsOwned
      <3> QED
        BY <1>old, <2>1, <2>3, <3>1, <3>2 DEF RowsOwned
    <2> QED
      BY <2>2, <2>3
  <1> QED
    BY <1>1, <1>2, <1>3, RunFootprint DEF Moves

LEMMA OutcomesStep == TypeOK /\ Owns /\ [Next]_vars => OutcomesOwned'
  <1> SUFFICES ASSUME TypeOK, Owns, [Next]_vars PROVE OutcomesOwned'
    OBVIOUS
  <1>old. OutcomesOwned /\ RowsOwned /\ AskedWell
    BY DEF Owns
  <1>0. /\ executions \in [Runs -> Row \cup {NoRow}]
        /\ RowsOwned'
    BY RowsStep DEF TypeOK
  <1>f. \A r : Failure(r).durable = FALSE /\ Failure(r).execution = r
    BY DEF Failure
  <1>1. ASSUME NEW r \in Runs, outcome'[r].durable
        PROVE  /\ asked'[r] # NotAsked
               /\ outcome'[r].execution \in Runs
               /\ executions'[outcome'[r].execution] # NoRow
               /\ executions'[outcome'[r].execution].key = asked'[r].key
    <2>1. CASE outcome'[r] = outcome[r]
      <3>1. /\ asked[r] # NotAsked
            /\ outcome[r].execution \in Runs
            /\ executions[outcome[r].execution] # NoRow
            /\ executions[outcome[r].execution].key = asked[r].key
        BY <1>1, <1>old, <2>1 DEF OutcomesOwned
      <3> QED
        BY <2>1, <3>1, Stands
    <2>2. CASE Replays(r)
      <3>1. PICK x \in Runs :
              /\ executions[x] # NoRow /\ executions[x].key = asked[r].key
              /\ outcome'[r] = [execution |-> x, durable |-> TRUE,
                                result |-> executions[x].finished]
        BY <2>2 DEF Replays
      <3>2. outcome'[r].execution = x
        BY <3>1
      <3>3. asked[r] # NotAsked
        BY <1>old, <2>2 DEF Replays, AskedWell, Working
      <3> QED
        BY <2>2, <3>1, <3>2, <3>3 DEF Replays
    <2>3. CASE Finishes(r)
      <3>1. outcome'[r] = [execution |-> r, durable |-> TRUE, result |-> TRUE]
        BY <1>1, <1>f, <2>3 DEF Finishes
      <3>2. outcome'[r].execution = r
        BY <3>1
      <3>3. executions[r] # NoRow
        BY <1>old, <2>3 DEF Finishes, RowsOwned
      <3>4. executions'[r] # NoRow
        BY <3>3, Stands
      <3> QED
        BY <1>0, <3>2, <3>4 DEF RowsOwned
    <2>4. CASE Starts(r) \/ Fails(r)
      BY <1>1, <1>f, <2>1, <2>4 DEF Starts, Fails
    <2>5. CASE Rests(r) \/ Asks(r) \/ Waits(r)
      BY <2>1, <2>5 DEF Rests, Asks, Waits
    <2> QED
      BY <2>2, <2>3, <2>4, <2>5, RunFootprint DEF Moves
  <1>2. ASSUME NEW r \in Cases, pc'[r] = "done"
        PROVE  /\ outcome'[r].execution = r
               /\ outcome'[r].durable => executions'[r].finished
    <2>0. r \in Runs /\ r \notin Requests
      BY DeskAssumption DEF Runs
    <2>1. CASE Rests(r)
      <3>1. /\ outcome[r].execution = r
            /\ outcome[r].durable => executions[r].finished
            /\ outcome'[r] = outcome[r] /\ executions'[r] = executions[r]
        BY <1>2, <1>old, <2>1 DEF Rests, OutcomesOwned
      <3> QED
        BY <3>1
    <2>2. ASSUME Replays(r) PROVE FALSE
      <3>1. PICK x \in Runs : executions[x] # NoRow /\ executions[x].key = asked[r].key
        BY <2>2 DEF Replays
      <3>2. asked[r] # NotAsked /\ executions[r] = NoRow
        BY <1>old, <2>0, <2>2 DEF Replays, AskedWell, RowsOwned, Working
      <3> QED
        BY <2>0, <3>1, <3>2, KeysAreTheirs
    <2>3. CASE Finishes(r)
      <3>1. executions[r] # NoRow
        BY <1>old, <2>0, <2>3 DEF Finishes, RowsOwned
      <3>2. executions'[r].finished
        BY <1>0, <2>0, <2>3, <3>1, FinishedRow DEF Finishes
      <3>3. outcome'[r].execution = r
        BY <1>f, <2>3 DEF Finishes
      <3> QED
        BY <3>2, <3>3
    <2>4. CASE Starts(r) \/ Fails(r)
      BY <1>2, <1>f, <2>4 DEF Starts, Fails
    <2>5. ~Asks(r) /\ ~Waits(r)
      BY <1>2, <2>0 DEF Asks, Waits
    <2> QED
      BY <2>0, <2>1, <2>2, <2>3, <2>4, <2>5, RunFootprint DEF Moves
  <1> QED
    BY <1>1, <1>2 DEF OutcomesOwned

LEMMA SavedStep == TypeOK /\ Owns /\ [Next]_vars => Saved'
  <1> SUFFICES ASSUME TypeOK, Owns, [Next]_vars, NEW e \in Evaluations, reports'[e] # {}
               PROVE  /\ pc'[e] = "done"
                      /\ reports'[e] = Records(e)'
                      /\ \A s \in suite'[e] : /\ pc'[<<e, s>>] = "done"
                                              /\ executions'[<<e, s>>] # NoRow
    BY DEF Saved
  <1>0. \A s \in suite[e] : <<e, s>> \in Cases /\ <<e, s>> \in Runs
    BY DEF TypeOK, Cases, Runs
  <1>1. CASE reports[e] # {}
    <2>1. /\ pc[e] = "done"
          /\ reports[e] = Records(e)
          /\ \A s \in suite[e] : pc[<<e, s>>] = "done" /\ executions[<<e, s>>] # NoRow
      BY <1>1 DEF Owns, Saved
    <2>2. Stays(e)
      BY <2>1, EvaluationFootprint DEF Opens, Closes, Saves, Evaluated
    <2>3. \A s \in suite[e] : /\ pc'[<<e, s>>] = "done"
                              /\ outcome'[<<e, s>>] = outcome[<<e, s>>]
                              /\ executions'[<<e, s>>] # NoRow
      BY <1>0, <2>1, Stands
    <2>4. Records(e)' = Records(e)
      BY <2>2, <2>3 DEF Records, Stays
    <2> QED
      BY <2>1, <2>2, <2>3, <2>4 DEF Stays
  <1>2. CASE reports[e] = {}
    <2>1. Saves(e)
      BY <1>2, EvaluationFootprint DEF Stays, Opens, Closes
    <2>2. \A s \in suite[e] : pc[<<e, s>>] = "done" /\ pc'[<<e, s>>] = "done"
      BY <1>0, <2>1 DEF Saves, Evaluated
    <2>3. \A s \in suite[e] : outcome[<<e, s>>].execution = <<e, s>>
      BY <1>0, <2>2 DEF Owns, OutcomesOwned
    <2>4. ASSUME NEW s \in suite[e] PROVE executions[<<e, s>>] # NoRow
      <3> DEFINE c == [scenario |-> s, execution |-> outcome[<<e, s>>].execution,
                       durable |-> outcome[<<e, s>>].durable]
      <3>1. c \in Records(e)
        BY DEF Records
      <3>2. c.execution = <<e, s>>
        BY <2>3
      <3> QED
        BY <2>1, <3>1, <3>2 DEF Saves, References
    <2>5. Records(e)' = Records(e)
      BY <2>1 DEF Records, Saves
    <2> QED
      BY <2>1, <2>2, <2>4, <2>5 DEF Saves
  <1> QED
    BY <1>1, <1>2

LEMMA TypeStep == TypeOK /\ Owns /\ [Next]_vars => TypeOK'
  <1> SUFFICES ASSUME TypeOK, Owns, [Next]_vars PROVE TypeOK'
    OBVIOUS
  <1>0. /\ \A i \in Ingests : i \in Callers \cup Runs /\ i \in Ingests \cup Requests
                              /\ i \in Ingests \cup Runs
        /\ \A q \in Requests : q \in Callers \cup Runs /\ q \in Ingests \cup Requests
                               /\ q \in Ingests \cup Runs /\ q \in Runs
        /\ \A e \in Evaluations : e \in Callers \cup Runs
        /\ \A e \in Evaluations, s \in Scenarios : <<e, s>> \in Runs
        /\ \A a \in Alerts \cup Scenarios : a \in Ids
        /\ \A c \in Contents : c \in Content
        /\ \A s \in Scenarios : Isolated(s) \in Content
    BY DEF Callers, Runs, Cases, Ids, Content
  <1>p. {"idle", "storing", "lookup", "loading", "starting", "working", "running",
         "done", "crashed"} \subseteq Places
    BY DEF Places
  <1>f. \A r \in Runs : Failure(r) \in Outcome
    BY DEF Failure, Outcome
  <1>s. \A commit \in CommitOutcomes : Spend(commit) => faults' \in 0..MaxFaults
    BY DeskAssumption DEF TypeOK, Spend
  <1>e. "error" \in CommitOutcomes
    BY DEF CommitOutcomes
  <1>a. \A r \in Runs : pc[r] \in Working =>
            /\ asked[r].alert \in Ids /\ asked[r].content \in Content
            /\ asked[r].key \in Keys \cup Runs
    <2>1. ASSUME NEW r \in Runs, pc[r] \in Working
          PROVE  /\ asked[r].alert \in Ids /\ asked[r].content \in Content
                 /\ asked[r].key \in Keys \cup Runs
      <3>1. asked[r] \in Asked
        BY <2>1 DEF Owns, AskedWell, TypeOK
      <3>2. asked[r].key # None
        <4>1. CASE r \in Requests
          BY <2>1, <4>1, DeskAssumption DEF Owns, AskedWell, Runs
        <4>2. CASE r \in Cases
          <5>1. asked[r] = CaseAsked(r)
            BY <2>1, <4>2 DEF Owns, AskedWell
          <5>2. asked[r].key = r
            BY <5>1 DEF CaseAsked
          <5> QED
            BY <5>2, DeskAssumption
        <4> QED
          BY <4>1, <4>2 DEF Runs
      <3> QED
        BY <3>1, <3>2 DEF Asked
    <2> QED
      BY <2>1
  <1>1. ASSUME NEW i \in Ingests, NEW a \in Alerts, NEW content \in Contents,
               Ingest(i, a, content)
        PROVE  TypeOK'
    <2>1. [alert |-> a, content |-> content, key |-> None] \in Asked
      BY <1>0 DEF Asked
    <2>2. {"UNCHANGED", "CONFLICT"} \subseteq Replies
      BY DEF Replies
    <2> QED
      BY <1>0, <1>p, <1>1, <2>1, <2>2 DEF Ingest, Goto, database, TypeOK
  <1>2. ASSUME NEW i \in Ingests, StoreConflicts(i) PROVE TypeOK'
    BY <1>0, <1>p, <1>2 DEF StoreConflicts, Goto, database, TypeOK, Replies
  <1>3. ASSUME NEW i \in Ingests, NEW commit \in CommitOutcomes, Store(i, commit)
        PROVE  TypeOK'
    <2>1. asked[i].alert \in Ids /\ asked[i].content \in Content
      BY <1>0, <1>3 DEF Store, Owns, AskedWell
    <2>2. {"CREATED", "ERROR"} \subseteq Replies
      BY DEF Replies
    <2>3. ingested' \in [Ids -> Nat]
      BY <1>3, <2>1 DEF Store, TypeOK
    <2>4. alerts' \in [Ids -> Content \cup {NoAlert}]
      BY <1>3, <2>1 DEF Store, TypeOK
    <2> QED
      BY <1>0, <1>p, <1>s, <1>3, <2>2, <2>3, <2>4 DEF Store, Goto, TypeOK
  <1>4. ASSUME NEW q \in Requests, NEW a \in Alerts, NEW key \in Keys \cup {q},
               Request(q, a, key)
        PROVE  TypeOK'
    <2>1. alerts[a] # NoAlert => [alert |-> a, content |-> alerts[a], key |-> key] \in Asked
      BY <1>0 DEF Asked, TypeOK
    <2>2. "NOT_FOUND" \in Replies
      BY DEF Replies
    <2> QED
      BY <1>0, <1>p, <1>4, <2>1, <2>2 DEF Request, Goto, database, TypeOK
  <1>5. ASSUME NEW r \in Runs, Replay(r) PROVE TypeOK'
    <2>1. PICK x \in Runs :
            /\ executions[x] # NoRow
            /\ Return(r, [execution |-> x, durable |-> TRUE,
                          result |-> executions[x].finished])
      BY <1>5 DEF Replay
    <2>2. executions[x].finished \in BOOLEAN
      BY <2>1 DEF TypeOK, Row
    <2>3. [execution |-> x, durable |-> TRUE, result |-> executions[x].finished] \in Outcome
      BY <2>2 DEF Outcome
    <2> QED
      BY <1>p, <1>5, <2>1, <2>3 DEF Replay, Return, Goto, database, TypeOK
  <1>6. ASSUME NEW r \in Runs, LookupFails(r) PROVE TypeOK'
    BY <1>p, <1>f, <1>s, <1>e, <1>6 DEF LookupFails, Return, Goto, database, TypeOK
  <1>7. ASSUME NEW r \in Runs, LookupMisses(r) PROVE TypeOK'
    BY <1>p, <1>7 DEF LookupMisses, Goto, database, TypeOK
  <1>8. ASSUME NEW r \in Runs, LoadAlert(r) PROVE TypeOK'
    BY <1>p, <1>8 DEF LoadAlert, Goto, database, TypeOK
  <1>9. ASSUME NEW r \in Runs, StartConflicts(r) PROVE TypeOK'
    BY <1>p, <1>f, <1>9 DEF StartConflicts, Return, Goto, database, TypeOK
  <1>10. ASSUME NEW r \in Runs, NEW commit \in CommitOutcomes, Start(r, commit)
         PROVE  TypeOK'
    <2>1. /\ asked[r].alert \in Ids /\ asked[r].content \in Content
          /\ asked[r].key \in Keys \cup Runs
      BY <1>a, <1>10 DEF Start, Working
    <2>2. [alert |-> asked[r].alert, key |-> asked[r].key, finished |-> FALSE] \in Row
      BY <2>1 DEF Row
    <2>3. executions' \in [Runs -> Row \cup {NoRow}]
      BY <1>10, <2>2 DEF Start, TypeOK
    <2>4. alerts' \in [Ids -> Content \cup {NoAlert}]
      BY <1>10, <2>1 DEF Start, TypeOK
    <2>5. /\ outcome' \in [Runs -> Outcome \cup {NoOutcome}]
          /\ pc' \in [Callers \cup Runs -> Places]
      BY <1>p, <1>f, <1>10 DEF Start, Return, Goto, TypeOK
    <2> QED
      BY <1>s, <1>10, <2>3, <2>4, <2>5 DEF Start, TypeOK
  <1>11. ASSUME NEW r \in Runs, NEW commit \in CommitOutcomes, Finish(r, commit)
         PROVE  TypeOK'
    <2>1. executions[r] \in Row
      BY <1>11 DEF Finish, Owns, RowsOwned, TypeOK
    <2>2. [executions[r] EXCEPT !.finished = TRUE] \in Row
      BY <2>1, FinishedRow
    <2>3. executions' = executions
          \/ executions' = [executions EXCEPT ![r] = [executions[r] EXCEPT !.finished = TRUE]]
      BY <1>11 DEF Finish
    <2>4. executions' \in [Runs -> Row \cup {NoRow}]
      BY <2>2, <2>3 DEF TypeOK
    <2>5. [execution |-> r, durable |-> TRUE, result |-> TRUE] \in Outcome
      BY DEF Outcome
    <2> QED
      BY <1>p, <1>f, <1>s, <1>11, <2>4, <2>5 DEF Finish, Return, Goto, TypeOK
  <1>12. ASSUME NEW e \in Evaluations, Evaluate(e) PROVE TypeOK'
    <2>1. PICK scenarios \in {Scenarios} \cup {{s} : s \in Scenarios} :
            suite' = [suite EXCEPT ![e] = scenarios]
      BY <1>12 DEF Evaluate
    <2>2. scenarios \in SUBSET Scenarios
      OBVIOUS
    <2> QED
      BY <1>0, <1>p, <1>12, <2>1, <2>2 DEF Evaluate, Goto, database, TypeOK
  <1>13. ASSUME NEW e \in Evaluations, NEW s \in Scenarios, RunCase(e, s) PROVE TypeOK'
    <2>1. [alert |-> s, content |-> Isolated(s), key |-> <<e, s>>] \in Asked
      BY <1>0 DEF Asked
    <2> QED
      BY <1>0, <1>p, <1>13, <2>1 DEF RunCase, Goto, database, TypeOK
  <1>14. ASSUME NEW e \in Evaluations, SaveConflicts(e) PROVE TypeOK'
    BY <1>0, <1>p, <1>14 DEF SaveConflicts, Goto, database, TypeOK
  <1>15. ASSUME NEW e \in Evaluations, NEW commit \in CommitOutcomes, Save(e, commit)
         PROVE  TypeOK'
    <2>1. ASSUME NEW s \in suite[e]
          PROVE  [scenario |-> s, execution |-> outcome[<<e, s>>].execution,
                  durable |-> outcome[<<e, s>>].durable] \in Case
      <3>1. s \in Scenarios /\ <<e, s>> \in Cases /\ <<e, s>> \in Runs
        BY <1>0 DEF TypeOK, Cases
      <3>2. outcome[<<e, s>>].execution \in Runs
        BY <1>15, <3>1 DEF Save, Evaluated, Owns, OutcomesOwned
      <3>3. outcome[<<e, s>>] \in Outcome \cup {NoOutcome}
        BY <3>1 DEF TypeOK
      <3>4. outcome[<<e, s>>].durable \in BOOLEAN
        <4>1. \A o \in Outcome : o.durable \in BOOLEAN
          BY DEF Outcome
        <4>2. NoOutcome.durable = FALSE
          BY DEF NoOutcome
        <4> QED
          BY <3>3, <4>1, <4>2
      <3> QED
        BY <3>1, <3>2, <3>4 DEF Case
    <2>2. Records(e) \in SUBSET Case
      BY <2>1 DEF Records
    <2> QED
      BY <1>0, <1>p, <1>s, <1>15, <2>2 DEF Save, Goto, TypeOK
  <1>16. ASSUME NEW c \in Callers, Crash(c) PROVE TypeOK'
    BY <1>p, <1>s, <1>e, <1>16 DEF Crash, database, TypeOK
  <1>17. ASSUME UNCHANGED vars PROVE TypeOK'
    BY <1>17 DEF vars, TypeOK
  <1>18. ASSUME NEW q \in Requests, NEW a \in Alerts, ApiRequest(q, a) \/ PageRequest(q, a)
         PROVE  TypeOK'
    BY <1>4, <1>18 DEF ApiRequest, PageRequest, FreshKey
  <1> QED
    BY <1>1, <1>2, <1>3, <1>5, <1>6, <1>7, <1>8, <1>9, <1>10, <1>11, <1>12, <1>13, <1>14,
       <1>15, <1>16, <1>17, <1>18 DEF Next, IngestStep, RunStep, EvaluationStep

LEMMA InitOwns == Init => TypeOK /\ Owns
  <1> SUFFICES ASSUME Init PROVE TypeOK /\ Owns
    OBVIOUS
  <1>1. TypeOK
    <2>1. alerts \in [Ids -> Content \cup {NoAlert}]
      BY DEF Init, Content
    <2>2. ingested \in [Ids -> Nat]
      BY DEF Init
    <2> QED
      BY <2>1, <2>2, DeskAssumption DEF Init, TypeOK, Places, Replies
  <1>2. AskedWell /\ RowsOwned
    <2>1. \A r \in Runs : /\ pc[r] = "idle" /\ asked[r] = NotAsked
                           /\ executions[r] = NoRow /\ outcome[r] = NoOutcome
      BY DEF Init
    <2>2. \A i \in Ingests : pc[i] = "idle" /\ reply[i] = "PENDING"
      BY DEF Init, Callers
    <2>3. \A q \in Requests : q \in Runs
      BY DEF Runs
    <2>4. \A r \in Cases : r \in Runs
      BY DEF Runs
    <2> QED
      BY <2>1, <2>2, <2>3, <2>4 DEF AskedWell, RowsOwned, Working
  <1>3. OutcomesOwned /\ Saved
    BY DEF Init, OutcomesOwned, Saved, NoOutcome, Runs
  <1> QED
    BY <1>1, <1>2, <1>3 DEF Owns

LEMMA OwnsStep == TypeOK /\ Owns /\ [Next]_vars => TypeOK' /\ Owns'
  BY TypeStep, AskedStep, RowsStep, OutcomesStep, SavedStep DEF Owns

\* Every variable keeps its type, and every row, outcome and report belongs to the call
\* that has made it.
THEOREM TypeCorrect == Spec => [](TypeOK /\ Owns)
  BY InitOwns, OwnsStep, PTL DEF Spec

(***************************************************************************)
(* What requests and evaluations were told.                                *)
(***************************************************************************)

LEMMA OwnedAnswers == TypeOK /\ Owns => AnswersConcernTheAlert
  <1> SUFFICES ASSUME TypeOK, Owns, NEW q \in Requests, outcome[q].durable
               PROVE  LET found == executions[outcome[q].execution] IN
                      /\ found # NoRow
                      /\ found.key = asked[q].key
                      /\ alerts[asked[q].alert] = asked[q].content
                      /\ found.alert # asked[q].alert =>
                             /\ asked[q].key \in Keys
                             /\ \E p \in Requests :
                                    /\ asked[p].key = asked[q].key
                                    /\ asked[p].alert = found.alert
    BY DEF AnswersConcernTheAlert
  <1> DEFINE x == outcome[q].execution
  <1>1. q \in Runs
    BY DEF Runs
  <1>2. /\ asked[q] # NotAsked /\ x \in Runs
        /\ executions[x] # NoRow /\ executions[x].key = asked[q].key
    BY <1>1 DEF Owns, OutcomesOwned
  <1>3. alerts[asked[q].alert] = asked[q].content
    BY <1>2 DEF Owns, AskedWell
  <1>4. executions[x].alert = asked[x].alert /\ executions[x].key = asked[x].key
    BY <1>2 DEF Owns, RowsOwned
  <1>5. x = q \/ (x \in Requests /\ asked[q].key \in Keys)
    BY <1>1, <1>2, KeysAreTheirs
  <1>6. executions[x].alert # asked[q].alert => x \in Requests /\ asked[q].key \in Keys
    BY <1>4, <1>5
  <1> QED
    BY <1>2, <1>3, <1>4, <1>6

\* A request's durable answer names an execution under its own key, of its own alert
\* unless a client has used that key for another one; the alert it asked about is still
\* what is stored.
THEOREM AnswersAreConcerned == Spec => []AnswersConcernTheAlert
  BY InitOwns, OwnsStep, OwnedAnswers, PTL DEF Spec

LEMMA OwnedReports == TypeOK /\ Owns => ReportsAreComplete
  <1> SUFFICES ASSUME TypeOK, Owns, NEW e \in Evaluations, reports[e] # {}
               PROVE  /\ \A s \in Scenarios :
                             Cardinality({c \in reports[e] : c.scenario = s})
                                 = IF s \in suite[e] THEN 1 ELSE 0
                      /\ \A c \in reports[e] :
                             /\ executions[c.execution] # NoRow
                             /\ executions[c.execution].alert = c.scenario
                             /\ executions[c.execution].key = <<e, c.scenario>>
                             /\ c.durable => executions[c.execution].finished
    BY DEF ReportsAreComplete
  <1> DEFINE CaseOf(s) == [scenario |-> s, execution |-> outcome[<<e, s>>].execution,
                           durable |-> outcome[<<e, s>>].durable]
  <1>0. suite[e] \subseteq Scenarios
    BY DEF TypeOK
  <1>1. reports[e] = {CaseOf(s) : s \in suite[e]}
    BY DEF Owns, Saved, Records
  <1>2. ASSUME NEW s \in suite[e]
        PROVE  /\ CaseOf(s).execution = <<e, s>>
               /\ executions[<<e, s>>] # NoRow
               /\ executions[<<e, s>>].alert = s
               /\ executions[<<e, s>>].key = <<e, s>>
               /\ CaseOf(s).durable => executions[<<e, s>>].finished
    <2>1. <<e, s>> \in Cases /\ <<e, s>> \in Runs
      BY <1>0 DEF Cases, Runs
    <2>2. pc[<<e, s>>] = "done" /\ executions[<<e, s>>] # NoRow
      BY DEF Owns, Saved
    <2>3. /\ outcome[<<e, s>>].execution = <<e, s>>
          /\ outcome[<<e, s>>].durable => executions[<<e, s>>].finished
      BY <2>1, <2>2 DEF Owns, OutcomesOwned
    <2>4. /\ asked[<<e, s>>] # NotAsked
          /\ executions[<<e, s>>].alert = asked[<<e, s>>].alert
          /\ executions[<<e, s>>].key = asked[<<e, s>>].key
      BY <2>1, <2>2 DEF Owns, RowsOwned
    <2>5. asked[<<e, s>>] = CaseAsked(<<e, s>>)
      BY <2>1, <2>4 DEF Owns, AskedWell
    <2>6. asked[<<e, s>>].alert = s /\ asked[<<e, s>>].key = <<e, s>>
      BY <2>5 DEF CaseAsked
    <2> QED
      BY <2>2, <2>3, <2>4, <2>6
  <1>3. ASSUME NEW s \in Scenarios
        PROVE  Cardinality({c \in reports[e] : c.scenario = s})
                   = IF s \in suite[e] THEN 1 ELSE 0
    <2>1. \A t \in suite[e] : CaseOf(t).scenario = t
      OBVIOUS
    <2>2. CASE s \in suite[e]
      <3>1. {c \in reports[e] : c.scenario = s} = {CaseOf(s)}
        BY <1>1, <2>1, <2>2
      <3> QED
        BY <2>2, <3>1, FS_Singleton
    <2>3. CASE s \notin suite[e]
      <3>1. {c \in reports[e] : c.scenario = s} = {}
        BY <1>1, <2>1, <2>3
      <3> QED
        BY <2>3, <3>1, FS_EmptySet
    <2> QED
      BY <2>2, <2>3
  <1>4. ASSUME NEW c \in reports[e]
        PROVE  /\ executions[c.execution] # NoRow
               /\ executions[c.execution].alert = c.scenario
               /\ executions[c.execution].key = <<e, c.scenario>>
               /\ c.durable => executions[c.execution].finished
    <2>1. PICK s \in suite[e] : c = CaseOf(s)
      BY <1>1
    <2>2. c.scenario = s /\ c.execution = <<e, s>>
      BY <1>2, <2>1
    <2> QED
      BY <1>2, <2>1, <2>2
  <1> QED
    BY <1>3, <1>4

\* A stored report has one case for each scenario of its evaluation, with an execution
\* of its own that is stored, and finished where the case is reported durable: whatever
\* fails, runs meanwhile or is lost.
THEOREM ReportsComplete == Spec => []ReportsAreComplete
  BY InitOwns, OwnsStep, OwnedReports, PTL DEF Spec

(***************************************************************************)
(* What clients were told of their alerts.                                 *)
(***************************************************************************)

Unanswered == \A i \in Ingests : pc[i] \in {"idle", "storing"} => reply[i] = "PENDING"

\* What an ingest has been told was told by a look-up, a creation, or before.
LEMMA Told ==
    ASSUME TypeOK, Owns, Unanswered, [Next]_vars, NEW i \in Ingests,
           reply'[i] \in {"CREATED", "UNCHANGED", "CONFLICT"}
    PROVE  \/ reply'[i] = reply[i] /\ asked'[i] = asked[i]
           \/ Creates(i)
           \/ /\ alerts' = alerts /\ alerts[asked'[i].alert] # NoAlert
              /\ reply'[i] = IF alerts[asked'[i].alert] = asked'[i].content
                             THEN "UNCHANGED" ELSE "CONFLICT"
  BY IngestFootprint DEF Idles, LooksUp, GivesUp, Unanswered

LEMMA AcknowledgedStep ==
    /\ TypeOK /\ Owns /\ [Next]_vars
    /\ Unanswered /\ AcknowledgedAlertsAreStored
    => Unanswered' /\ AcknowledgedAlertsAreStored'
  <1> SUFFICES ASSUME TypeOK, Owns, [Next]_vars, Unanswered, AcknowledgedAlertsAreStored
               PROVE  Unanswered' /\ AcknowledgedAlertsAreStored'
    OBVIOUS
  <1>ids. \A a \in Alerts : a \in Ids /\ a \notin Scenarios
    BY DeskAssumption DEF Ids
  <1>c. \A content \in Contents : content # NoAlert
    BY Contentful DEF Content
  <1>k. \A i \in Ingests : reply[i] # "PENDING" =>
            asked[i].alert \in Alerts /\ asked[i].content # NoAlert
    BY <1>c DEF Owns, AskedWell
  <1>1. Unanswered'
    BY IngestFootprint DEF Idles, LooksUp, Creates, GivesUp, Unanswered
  <1>2. ASSUME NEW i \in Ingests
        PROVE  /\ reply'[i] \in {"CREATED", "UNCHANGED"} =>
                      alerts'[asked'[i].alert] = asked'[i].content
               /\ reply'[i] = "CONFLICT" =>
                      alerts'[asked'[i].alert] \notin {NoAlert, asked'[i].content}
    <2>1. CASE reply'[i] = reply[i] /\ asked'[i] = asked[i]
      <3>1. reply[i] \in {"CREATED", "UNCHANGED"} =>
                alerts[asked[i].alert] = asked[i].content
        BY DEF AcknowledgedAlertsAreStored
      <3>2. reply[i] = "CONFLICT" =>
                alerts[asked[i].alert] \notin {NoAlert, asked[i].content}
        BY DEF AcknowledgedAlertsAreStored
      <3>3. reply[i] \in {"CREATED", "UNCHANGED", "CONFLICT"} =>
                alerts'[asked[i].alert] = alerts[asked[i].alert]
        BY <1>ids, <1>k, <3>1, <3>2, Stands
      <3> QED
        BY <2>1, <3>1, <3>2, <3>3
    <2>2. CASE Creates(i)
      <3>1. asked[i].alert \in Ids
        BY <1>ids, <2>2 DEF Creates, Owns, AskedWell
      <3> QED
        BY <2>2, <3>1 DEF Creates, TypeOK
    <2> QED
      BY <2>1, <2>2, Told
  <1>3. ASSUME NEW a \in Alerts
        PROVE  ingested'[a] = IF alerts'[a] = NoAlert THEN 0 ELSE 1
    <2>1. ingested[a] = IF alerts[a] = NoAlert THEN 0 ELSE 1
      BY DEF AcknowledgedAlertsAreStored
    <2>2. CASE Kept(a)
      BY <2>1, <2>2 DEF Kept
    <2>3. CASE Ingested(a)
      <3>1. alerts[a] = NoAlert /\ ingested'[a] = ingested[a] + 1
        BY <2>3 DEF Ingested
      <3>2. alerts'[a] # NoAlert
        BY <1>c, <2>3 DEF Ingested, Owns, AskedWell
      <3> QED
        BY <2>1, <3>1, <3>2
    <2>4. ~Isolates(a)
      <3> SUFFICES ASSUME NEW r \in Runs, pc[r] = "starting", asked[r].alert = a, ~met[r]
                   PROVE  FALSE
        BY DEF Isolates
      <3>1. r \in Cases
        BY DEF Runs, Owns, AskedWell
      <3>2. asked[r] = CaseAsked(r)
        BY <3>1 DEF Owns, AskedWell, Working
      <3>3. a \in Scenarios
        BY <3>1, <3>2, CasesAre DEF CaseAsked
      <3> QED
        BY <1>ids, <3>3
    <2> QED
      BY <1>ids, <2>2, <2>3, <2>4, AlertFootprint
  <1>4. ASSUME NEW i \in Ingests, NEW j \in Ingests, i # j, Creates(i),
               reply'[j] = "CREATED", asked'[i].alert = asked'[j].alert
        PROVE  FALSE
    <2>1. reply[j] = "CREATED"
      BY <1>4 DEF Creates
    <2>2. asked'[j] = asked[j]
      BY <1>4, <2>1, Told DEF Creates, Unanswered
    <2>3. alerts[asked[j].alert] = asked[j].content
      BY <2>1 DEF AcknowledgedAlertsAreStored
    <2> QED
      BY <1>4, <1>k, <2>1, <2>2, <2>3 DEF Creates
  <1>5. ASSUME NEW i \in Ingests, NEW j \in Ingests, reply'[i] = "CREATED",
               reply'[j] = "CREATED", asked'[i].alert = asked'[j].alert
        PROVE  i = j
    <2>1. CASE Creates(i) \/ Creates(j)
      BY <1>4, <1>5, <2>1
    <2>2. CASE ~Creates(i) /\ ~Creates(j)
      <3>1. /\ reply[i] = "CREATED" /\ asked'[i] = asked[i]
            /\ reply[j] = "CREATED" /\ asked'[j] = asked[j]
        BY <1>5, <2>2, Told
      <3> QED
        BY <1>5, <3>1 DEF AcknowledgedAlertsAreStored
    <2> QED
      BY <2>1, <2>2
  <1> QED
    BY <1>1, <1>2, <1>3, <1>5 DEF AcknowledgedAlertsAreStored

LEMMA InitAcknowledged == Init => Unanswered /\ AcknowledgedAlertsAreStored
  <1> SUFFICES ASSUME Init PROVE Unanswered /\ AcknowledgedAlertsAreStored
    OBVIOUS
  <1>1. \A i \in Ingests : reply[i] = "PENDING"
    BY DEF Init
  <1>2. \A a \in Alerts : ingested[a] = IF alerts[a] = NoAlert THEN 0 ELSE 1
    BY DEF Init, Ids
  <1> QED
    BY <1>1, <1>2 DEF Unanswered, AcknowledgedAlertsAreStored

\* What ingest (application/alert_service.py) told a client of its alert stays true,
\* however many clients race for an identifier or a payload and whatever is lost.
THEOREM AcknowledgementsHold == Spec => []AcknowledgedAlertsAreStored
  BY InitOwns, OwnsStep, InitAcknowledged, AcknowledgedStep, PTL DEF Spec
=============================================================================
