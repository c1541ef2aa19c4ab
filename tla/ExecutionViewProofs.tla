------------------------ MODULE ExecutionViewProofs ------------------------
(***************************************************************************)
(* The page of one execution hangs together, for every number of runs and  *)
(* keys, every limit and threshold, runs of any duration, and any time     *)
(* between the statements of the page.                                     *)
(***************************************************************************)
EXTENDS ExecutionView, TriageRecoveryProofs

(***************************************************************************)
(* What the database keeps once it has it.                                 *)
(***************************************************************************)

Recorded(r, event) == audit[r][event] > 0
Announced(r, state) ==
    /\ Recorded(r, "execution_started")
    /\ state \in Terminal =>
           \E e \in DOMAIN Announces : Announces[e] = state /\ Recorded(r, e)
Cited(r, evidence) ==
    \A i \in evidence : i \in 1..Len(tools[r]) /\ tools[r][i] = "SUCCESS"

\* Whatever a run decides, a result it cannot use included, cites successful tool rows
\* that are stored, and the policy is on record with every result.
Grounded ==
    \A r \in Runs :
        /\ Cited(r, decision[r].evidence)
        /\ Cited(r, results[r].evidence)
        /\ results[r] # NoResult => Recorded(r, "policy_enforced")

LEMMA Appended ==
    ASSUME NEW S, NEW s \in Seq(S), NEW e \in S
    PROVE  /\ \A i \in 1..Len(s) : i \in 1..Len(Append(s, e)) /\ Append(s, e)[i] = s[i]
           /\ \E i \in 1..Len(Append(s, e)) : Append(s, e)[i] = e
  <1> DEFINE t == Append(s, e)
  <1>1. /\ Len(s) \in Nat
        /\ Len(t) = Len(s) + 1
        /\ t[Len(t)] = e
        /\ \A k \in 1..Len(s) : t[k] = s[k]
    OBVIOUS
  <1>2. Len(t) \in 1..Len(t) /\ \A k \in 1..Len(s) : k \in 1..Len(t)
    BY <1>1
  <1> QED
    BY <1>1, <1>2

\* The two tables only grow.
LEMMA RowsGrow ==
    ASSUME TypeOK, RowsOwned, [Next]_vars, NEW r \in Runs
    PROVE  /\ \A e \in AuditEvents : Recorded(r, e) => Recorded(r, e)'
           /\ \A evidence : Cited(r, evidence) =>
                  \A i \in evidence : i \in 1..Len(tools'[r]) /\ tools'[r][i] = "SUCCESS"
           /\ Finalized(r) => Recorded(r, "policy_enforced")'
  <1>0. audit[r] \in Trail /\ tools[r] \in Seq(ToolOutcomes)
    BY DEF TypeOK
  <1>1. ASSUME NEW trail \in Trail, NEW e \in AuditEvents
        PROVE  /\ Logged(trail, e) \in Trail /\ Logged(trail, e)[e] > 0
               /\ \A f \in AuditEvents : trail[f] > 0 => Logged(trail, e)[f] > 0
    <2>1. /\ Logged(trail, e) \in Trail /\ trail[e] \in Nat
          /\ Logged(trail, e)[e] = trail[e] + 1
          /\ \A f \in AuditEvents \ {e} : Logged(trail, e)[f] = trail[f]
      BY LoggedTrail
    <2> QED
      BY <2>1
  <1>2. ASSUME Finalized(r)
        PROVE  /\ \A f \in AuditEvents : Recorded(r, f) => Recorded(r, f)'
               /\ Recorded(r, "policy_enforced")'
    <2> DEFINE first == Logged(audit[r], "policy_enforced")
    <2>1. PICK e \in AuditEvents : audit'[r] = Logged(first, e)
      BY <1>2 DEF Finalized, TerminalEvent, AuditEvents
    <2>2. "policy_enforced" \in AuditEvents
      BY DEF AuditEvents
    <2>3. /\ first \in Trail /\ first["policy_enforced"] > 0
          /\ \A f \in AuditEvents : audit[r][f] > 0 => first[f] > 0
      BY <1>0, <1>1, <2>2
    <2> HIDE DEF first
    <2>4. \A f \in AuditEvents : first[f] > 0 => audit'[r][f] > 0
      BY <1>1, <2>1, <2>3
    <2> QED
      BY <2>2, <2>3, <2>4 DEF Recorded
  <1>3. \A f \in AuditEvents : Recorded(r, f) => Recorded(r, f)'
    <2>1. CASE Untouched(r)
      BY <2>1 DEF Untouched, Recorded
    <2>2. CASE Started(r) \/ ToolStored(r) \/ FailureRecorded(r) \/ StaleFailed(r)
      <3>1. PICK e \in AuditEvents : audit'[r] = Logged(audit[r], e)
        BY <2>2 DEF Started, ToolStored, FailureRecorded, StaleFailed, AuditEvents
      <3> QED
        BY <1>0, <1>1, <3>1 DEF Recorded
    <2> QED
      BY <1>2, <2>1, <2>2, Footprint DEF Written
  <1>4. \A i \in 1..Len(tools[r]) : i \in 1..Len(tools'[r]) /\ tools'[r][i] = tools[r][i]
    <2>1. CASE tools'[r] = tools[r]
      BY <2>1
    <2>2. CASE \E s \in ToolOutcomes : tools'[r] = Append(tools[r], s)
      BY <1>0, <2>2, Appended
    <2> QED
      BY <2>1, <2>2, Footprint DEF Written, Untouched, Started, ToolStored, Finalized,
         FailureRecorded, StaleFailed
  <1> QED
    BY <1>2, <1>3, <1>4 DEF Cited

LEMMA GroundedStep ==
    TypeOK /\ RowsOwned /\ EvidenceInv /\ Undecided /\ Grounded /\ [Next]_vars
    => Grounded'
  <1> SUFFICES ASSUME TypeOK, RowsOwned, EvidenceInv, Undecided, Grounded, [Next]_vars,
                      NEW r \in Runs
               PROVE  /\ Cited(r, decision[r].evidence)'
                      /\ Cited(r, results[r].evidence)'
                      /\ results'[r] # NoResult => Recorded(r, "policy_enforced")'
    BY DEF Grounded
  <1>0. decision \in [Runs -> Result]
    BY DEF TypeOK
  <1>1. \A evidence : Cited(r, evidence) =>
            \A i \in evidence : i \in 1..Len(tools'[r]) /\ tools'[r][i] = "SUCCESS"
    BY RowsGrow
  \* A decision is safe, or cites evidence that was accumulated.
  <1>2. \/ decision'[r] = decision[r]
        \/ decision'[r] = SafeReview
        \/ /\ pc[r] = "reasoning"
           /\ decision'[r].evidence \subseteq accumulated[r]
    <2>1. CASE ~(RunStep(r) \/ Crash(r))
      BY <2>1, OtherRuns
    <2>2. CASE AcceptCandidate(r)
      <3>1. PICK cited \in SUBSET accumulated[r], proposed \in Dispositions :
              decision' = [decision EXCEPT ![r] =
                  [disposition |-> IF cited = {} THEN "NEEDS_REVIEW" ELSE proposed,
                   evidence |-> cited]]
        BY <2>2 DEF AcceptCandidate, Enforced
      <3>2. decision'[r].evidence = cited
        BY <1>0, <3>1
      <3> QED
        BY <2>2, <3>2 DEF AcceptCandidate
    <2>3. CASE StopWithoutCandidate(r)
               \/ \E s \in ToolOutcomes, o \in CommitOutcomes : CallTool(r, s, o)
      BY <1>0, <2>3 DEF StopWithoutCandidate, CallTool
    <2>4. CASE \/ Replay(r) \/ ReplayLookupFails(r) \/ Begin(r) \/ StartConflicts(r)
               \/ \E o \in CommitOutcomes : PersistStart(r, o)
               \/ LoadFinal(r)
               \/ \E o \in CommitOutcomes : PersistFinal(r, o)
               \/ LoadFailure(r)
               \/ \E o \in CommitOutcomes : RecordFailure(r, o)
               \/ Crash(r)
      BY <2>4 DEF Replay, ReplayLookupFails, Begin, StartConflicts, PersistStart,
         LoadFinal, PersistFinal, LoadFailure, RecordFailure, Crash, locals
    <2> QED
      BY <2>1, <2>2, <2>3, <2>4 DEF RunStep
  <1>3. Cited(r, decision'[r].evidence)
    <2>1. CASE decision'[r] = decision[r]
      BY <2>1 DEF Grounded
    <2>2. CASE decision'[r] = SafeReview
      BY <2>2 DEF SafeReview, Cited
    <2>3. CASE pc[r] = "reasoning" /\ decision'[r].evidence \subseteq accumulated[r]
      <3>1. Citable(r, accumulated[r])
        BY <2>3 DEF EvidenceInv
      <3> QED
        BY <2>3, <3>1 DEF Citable, AllSuccessful, Cited
    <2> QED
      BY <1>2, <2>1, <2>2, <2>3
  <1>4. CASE Finalized(r)
    <2>1. results'[r] = decision[r]
      BY <1>4 DEF Finalized
    <2> QED
      BY <1>1, <1>3, <1>4, <2>1, RowsGrow DEF Grounded, Cited
  <1>5. CASE ~Finalized(r)
    <2>1. results'[r] = results[r]
      BY <1>5, Footprint DEF Written, Untouched, Started, ToolStored, FailureRecorded,
         StaleFailed
    <2>2. Cited(r, results'[r].evidence)
      BY <1>1, <2>1 DEF Grounded, Cited
    <2>3. results'[r] # NoResult => Recorded(r, "policy_enforced")'
      <3>1. "policy_enforced" \in AuditEvents
        BY DEF AuditEvents
      <3> QED
        BY <2>1, <3>1, RowsGrow DEF Grounded
    <2> QED
      BY <1>1, <1>3, <2>2, <2>3 DEF Cited
  <1> QED
    BY <1>4, <1>5

LEMMA InitGrounded == Init => EvidenceInv /\ Undecided /\ Grounded
  BY DEF Init, EvidenceInv, Undecided, Grounded, Sound, Cited, NoResult, SafeReview,
     Working

(***************************************************************************)
(* What has been read stays consistent with what is stored.                *)
(***************************************************************************)

Pages == [statements : 0..4, execution : {"ABSENT"} \cup States,
          result : Result \cup {NoResult}, tools : Seq(ToolOutcomes),
          audit : Trail]

Found(event) == page.audit[event] > 0

\* The state that was read has its result and its event in the database from then on,
\* and each table that is read later has them too.
PageHolds ==
    /\ page \in Pages
    /\ page.statements < 1 => page.execution = "ABSENT"
    /\ page.statements < 2 => page.result = NoResult
    /\ page.execution # "ABSENT" => Announced(Shown, page.execution)
    /\ page.execution \in Finished =>
           /\ results[Shown] # NoResult
           /\ page.execution = TerminalOf(results[Shown])
           /\ page.statements >= 2 => page.result # NoResult
    /\ page.result # NoResult => page.result = results[Shown]
    /\ page.statements >= 3 =>
           \A i \in page.result.evidence :
               i \in 1..Len(page.tools) /\ page.tools[i] = "SUCCESS"
    /\ page.statements = 4 =>
           /\ page.execution # "ABSENT" => Found("execution_started")
           /\ page.execution \in Terminal =>
                  \E e \in DOMAIN Announces : Announces[e] = page.execution /\ Found(e)
           /\ page.result # NoResult => Found("policy_enforced")

LEMMA PageUpdates ==
    ASSUME NEW p \in Pages, NEW n \in 0..4
    PROVE  /\ \A x \in {"ABSENT"} \cup States :
                  [p EXCEPT !.statements = n, !.execution = x] \in Pages
           /\ \A x \in Result \cup {NoResult} :
                  [p EXCEPT !.statements = n, !.result = x] \in Pages
           /\ \A x \in Seq(ToolOutcomes) :
                  [p EXCEPT !.statements = n, !.tools = x] \in Pages
           /\ \A x \in Trail :
                  [p EXCEPT !.statements = n, !.audit = x] \in Pages
  BY DEF Pages

\* One statement reads one table.
LEMMA ReadStep ==
    ASSUME page \in Pages, Read
    PROVE  \/ /\ page.statements = 0
              /\ page' = [page EXCEPT !.statements = 1,
                                      !.execution = executions[Shown].state]
           \/ /\ page.statements = 1
              /\ page' = [page EXCEPT !.statements = 2, !.result = results[Shown]]
           \/ /\ page.statements = 2
              /\ page' = [page EXCEPT !.statements = 3, !.tools = tools[Shown]]
           \/ /\ page.statements = 3
              /\ page' = [page EXCEPT !.statements = 4, !.audit = audit[Shown]]
  <1>1. /\ Len(Reads) = 4 /\ Reads[1] = "execution" /\ Reads[2] = "result"
        /\ Reads[3] = "tools" /\ Reads[4] = "audit"
    BY DEF Reads
  <1>2. page.statements \in 0..3
    BY <1>1 DEF Pages, Read
  <1>3. /\ Stored["execution"] = executions[Shown].state
        /\ Stored["result"] = results[Shown]
        /\ Stored["tools"] = tools[Shown]
        /\ Stored["audit"] = audit[Shown]
    BY Zenon DEF Stored
  <1>4. page' = [page EXCEPT !.statements = page.statements + 1,
                             ![Reads[page.statements + 1]]
                                 = Stored[Reads[page.statements + 1]]]
    BY Zenon DEF Read
  <1>5. ASSUME page.statements = 0
        PROVE  page' = [page EXCEPT !.statements = 1, !.execution = executions[Shown].state]
    <2>1. page.statements + 1 = 1
      BY <1>5
    <2>2. Reads[page.statements + 1] = "execution"
      BY <1>1, <2>1
    <2>3. page' = [page EXCEPT !.statements = page.statements + 1,
                               !["execution"] = Stored["execution"]]
      BY <1>4, <2>2, Zenon
    <2>4. page' = [page EXCEPT !.statements = 1, !["execution"] = executions[Shown].state]
      BY <1>3, <2>1, <2>3, Zenon
    <2> QED
      BY <2>4, Zenon
  <1>6. ASSUME page.statements = 1
        PROVE  page' = [page EXCEPT !.statements = 2, !.result = results[Shown]]
    <2>1. page.statements + 1 = 2
      BY <1>6
    <2>2. Reads[page.statements + 1] = "result"
      BY <1>1, <2>1
    <2>3. page' = [page EXCEPT !.statements = page.statements + 1,
                               !["result"] = Stored["result"]]
      BY <1>4, <2>2, Zenon
    <2>4. page' = [page EXCEPT !.statements = 2, !["result"] = results[Shown]]
      BY <1>3, <2>1, <2>3, Zenon
    <2> QED
      BY <2>4, Zenon
  <1>7. ASSUME page.statements = 2
        PROVE  page' = [page EXCEPT !.statements = 3, !.tools = tools[Shown]]
    <2>1. page.statements + 1 = 3
      BY <1>7
    <2>2. Reads[page.statements + 1] = "tools"
      BY <1>1, <2>1
    <2>3. page' = [page EXCEPT !.statements = page.statements + 1,
                               !["tools"] = Stored["tools"]]
      BY <1>4, <2>2, Zenon
    <2>4. page' = [page EXCEPT !.statements = 3, !["tools"] = tools[Shown]]
      BY <1>3, <2>1, <2>3, Zenon
    <2> QED
      BY <2>4, Zenon
  <1>8. ASSUME page.statements = 3
        PROVE  page' = [page EXCEPT !.statements = 4, !.audit = audit[Shown]]
    <2>1. page.statements + 1 = 4
      BY <1>8
    <2>2. Reads[page.statements + 1] = "audit"
      BY <1>1, <2>1
    <2>3. page' = [page EXCEPT !.statements = page.statements + 1,
                               !["audit"] = Stored["audit"]]
      BY <1>4, <2>2, Zenon
    <2>4. page' = [page EXCEPT !.statements = 4, !["audit"] = audit[Shown]]
      BY <1>3, <2>1, <2>3, Zenon
    <2> QED
      BY <2>4, Zenon
  <1> QED
    BY <1>2, <1>5, <1>6, <1>7, <1>8

\* What runs and recovery do between two statements leaves what was read true.
LEMMA RowsMove ==
    /\ TypeOK /\ RowsOwned /\ Undecided /\ [Next]_vars /\ UNCHANGED page
    /\ PageHolds
    => PageHolds'
  <1> SUFFICES ASSUME TypeOK, RowsOwned, Undecided, [Next]_vars, UNCHANGED page, PageHolds
               PROVE  PageHolds'
    OBVIOUS
  <1>0. Shown \in Runs
    BY ShownAssumption
  <1>1. results[Shown] # NoResult => results'[Shown] = results[Shown]
    BY <1>0, ResultsKept
  <1>2. \A s : Announced(Shown, s) => Announced(Shown, s)'
    <2>1. "execution_started" \in AuditEvents /\ DOMAIN Announces \subseteq AuditEvents
      BY AnnouncedStates DEF AuditEvents
    <2> QED
      BY <1>0, <2>1, RowsGrow DEF Announced
  <1>3. \A e : Found(e)' <=> Found(e)
    BY DEF Found
  <1> QED
    BY <1>1, <1>2, <1>3 DEF PageHolds, NoResult

\* What a statement reads agrees with what the statements before it have read.
LEMMA PageStep ==
    /\ TypeOK /\ ResultMatchesState /\ Accounts /\ Grounded
    /\ Read \/ Serve
    /\ PageHolds
    => PageHolds'
  <1> SUFFICES ASSUME TypeOK, ResultMatchesState, Accounts, Grounded,
                      Read \/ Serve, PageHolds
               PROVE  PageHolds'
    OBVIOUS
  <1> DEFINE r == Shown
  <1>0. /\ r \in Runs
        /\ \A e : Recorded(r, e)' <=> Recorded(r, e)
        /\ \A s : Announced(r, s)' <=> Announced(r, s)
        /\ UNCHANGED <<executions, results, tools, audit>>
    BY ShownAssumption DEF Recorded, Announced, Read, Serve, vars
  <1>t. /\ executions[r].state \in {"ABSENT"} \cup States
        /\ results[r] \in Result \cup {NoResult}
        /\ tools[r] \in Seq(ToolOutcomes)
        /\ audit[r] \in Trail
    BY <1>0 DEF TypeOK, Row, NoRow
  <1>p. page \in Pages
    BY DEF PageHolds
  <1>1. CASE /\ page.statements = 0
             /\ page' = [page EXCEPT !.statements = 1, !.execution = executions[r].state]
    <2>1. /\ page'.statements = 1 /\ page'.execution = executions[r].state
          /\ page'.result = NoResult
      BY <1>1, <1>p DEF PageHolds, Pages
    <2>2. page' \in Pages
      BY <1>1, <1>t, <1>p, 1 \in 0..4, PageUpdates
    <2>3. executions[r].state # "ABSENT" => Announced(r, executions[r].state)
      <3> SUFFICES ASSUME executions[r].state # "ABSENT"
                   PROVE  Announced(r, executions[r].state)
        OBVIOUS
      <3>1. audit[r]["execution_started"] = 1 /\ executions[r].state \in Told(audit[r])
        BY <1>0, RowState DEF Accounts, AuditAccounts
      <3>2. executions[r].state \in Terminal =>
                \E e \in Endings : audit[r][e] > 0 /\ Announces[e] = executions[r].state
        BY <1>t, <3>1, ToldStates DEF Terminal
      <3> QED
        BY <3>1, <3>2, AnnouncedStates DEF Announced, Recorded
    <2>4. executions[r].state \in Finished =>
              results[r] # NoResult /\ executions[r].state = TerminalOf(results[r])
      BY <1>0 DEF ResultMatchesState, TerminalOf, Finished
    <2> QED
      BY <1>0, <2>1, <2>2, <2>3, <2>4 DEF PageHolds
  <1>2. CASE /\ page.statements = 1
             /\ page' = [page EXCEPT !.statements = 2, !.result = results[r]]
    <2>1. /\ page'.statements = 2 /\ page'.execution = page.execution
          /\ page'.result = results[r]
      BY <1>2, <1>p DEF Pages
    <2>2. page' \in Pages
      BY <1>2, <1>t, <1>p, 2 \in 0..4, PageUpdates
    <2> QED
      BY <1>0, <2>1, <2>2 DEF PageHolds
  <1>3. CASE /\ page.statements = 2
             /\ page' = [page EXCEPT !.statements = 3, !.tools = tools[r]]
    <2>1. /\ page'.statements = 3 /\ page'.execution = page.execution
          /\ page'.result = page.result /\ page'.tools = tools[r]
      BY <1>3, <1>p DEF Pages
    <2>2. page' \in Pages
      BY <1>3, <1>t, <1>p, 3 \in 0..4, PageUpdates
    <2>3. \A i \in page.result.evidence : i \in 1..Len(tools[r]) /\ tools[r][i] = "SUCCESS"
      BY <1>0 DEF PageHolds, Grounded, Cited, NoResult
    <2> QED
      BY <1>0, <1>3, <2>1, <2>2, <2>3 DEF PageHolds
  <1>4. CASE /\ page.statements = 3
             /\ page' = [page EXCEPT !.statements = 4, !.audit = audit[r]]
    <2>1. /\ page'.statements = 4 /\ page'.execution = page.execution
          /\ page'.result = page.result /\ page'.tools = page.tools
          /\ page'.audit = audit[r]
      BY <1>4, <1>p DEF Pages
    <2>2. page' \in Pages
      BY <1>4, <1>t, <1>p, 4 \in 0..4, PageUpdates
    <2>3. \A e : Found(e)' <=> Recorded(r, e)
      BY <2>1 DEF Found, Recorded
    <2>4. page.result # NoResult => Recorded(r, "policy_enforced")
      BY <1>0 DEF PageHolds, Grounded
    <2>5. /\ page.execution # "ABSENT" => Recorded(r, "execution_started")
          /\ page.execution # "ABSENT" /\ page.execution \in Terminal =>
              \E e \in DOMAIN Announces : Announces[e] = page.execution /\ Recorded(r, e)
      BY DEF PageHolds, Announced
    <2>6. page.execution \in Terminal => page.execution # "ABSENT"
      BY DEF Terminal
    <2> QED
      BY <1>0, <1>4, <2>1, <2>2, <2>3, <2>4, <2>5, <2>6 DEF PageHolds
  <1>5. CASE Serve
    <2>1. page' = NoPage
      BY <1>5 DEF Serve
    <2> QED
      BY <2>1 DEF PageHolds, Pages, NoPage, NoTrail, Trail, NoResult, Finished, Terminal, States
  <1>6. CASE Read
    BY <1>p, <1>1, <1>2, <1>3, <1>4, <1>6, ReadStep
  <1> QED
    BY <1>5, <1>6

LEMMA InitPage == Init /\ page = NoPage => PageHolds
  BY DEF PageHolds, Pages, NoPage, NoTrail, Trail, NoResult, Finished, Terminal, States

LEMMA HeldPagesHangTogether == PageHolds => PagesHangTogether
  <1> SUFFICES ASSUME PageHolds, Complete, page.execution # "ABSENT"
               PROVE  PagesHangTogether
    BY DEF PagesHangTogether
  <1>1. page.statements = 4
    BY DEF Complete, Reads
  <1>2. DOMAIN page.tools = 1..Len(page.tools)
    BY DEF PageHolds, Pages
  <1>3. page.execution \in Finished =>
            page.result # NoResult /\ page.execution = TerminalOf(page.result)
    BY <1>1 DEF PageHolds
  <1>4. \A i \in page.result.evidence :
            i \in DOMAIN page.tools /\ page.tools[i] = "SUCCESS"
    BY <1>1, <1>2 DEF PageHolds
  <1>5. page.result # NoResult => Found("policy_enforced")
    BY <1>1 DEF PageHolds
  <1>6. /\ Found("execution_started")
        /\ page.execution \in Terminal =>
               \E e \in DOMAIN Announces : Announces[e] = page.execution /\ Found(e)
    BY <1>1 DEF PageHolds
  <1> QED
    BY <1>2, <1>3, <1>4, <1>5, <1>6 DEF PagesHangTogether, Found

\* The page reads beside the runs and changes nothing.
LEMMA ViewSpecIsSpec == ViewSpec => Spec
  <1>1. [ViewNext]_viewVars => [Next]_vars
    BY DEF ViewNext, viewVars, Read, Serve, vars
  <1> QED
    BY <1>1, PTL DEF ViewSpec, Spec

\* A page that execution_payload (adapters/api/app.py) puts together from four
\* statements of different moments hangs together, whatever runs and recovery commit
\* between them: it depends on the order of the statements, no transaction helps.
THEOREM ServedPagesHangTogether == ViewSpec => []PagesHangTogether
  <1> DEFINE Database ==
                 /\ TypeOK /\ RowsOwned
                 /\ ResultMatchesState /\ Accounts
                 /\ EvidenceInv /\ Undecided /\ Grounded
  <1>1. Init => Database
    <2>1. Init => ResultMatchesState /\ Accounts
      BY DEF Init, ResultMatchesState, Accounts, AuditAccounts, Exists, NoRow, Finished
    <2> QED
      BY <2>1, InitTypes, InitGrounded
  <1>2. Database /\ [Next]_vars => Database'
    BY TypeStep, RowsStep, ResultStep, AuditStep, EvidenceStep, UndecidedStep,
       GroundedStep
  <1>3. Spec => []Database
    <2> HIDE DEF Database
    <2> QED
      BY <1>1, <1>2, PTL DEF Spec
  <1>4. Database /\ PageHolds /\ [ViewNext]_viewVars => PageHolds'
    <2> SUFFICES ASSUME Database, PageHolds, [ViewNext]_viewVars PROVE PageHolds'
      OBVIOUS
    <2>1. CASE [Next]_vars /\ UNCHANGED page
      BY <2>1, RowsMove
    <2>2. CASE Read \/ Serve
      BY <2>2, PageStep
    <2>3. UNCHANGED viewVars => UNCHANGED vars /\ UNCHANGED page
      BY DEF viewVars, vars
    <2> QED
      BY <2>1, <2>2, <2>3 DEF ViewNext
  <1> HIDE DEF Database
  <1> QED
    BY <1>3, <1>4, InitPage, HeldPagesHangTogether, ViewSpecIsSpec, PTL DEF ViewSpec
=============================================================================
