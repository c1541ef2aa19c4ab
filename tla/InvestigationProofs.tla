------------------------- MODULE InvestigationProofs -------------------------
(***************************************************************************)
(* Theorems about Investigation for every set of tools and entities, every *)
(* limit and every reasoner.                                               *)
(***************************************************************************)
EXTENDS Investigation, FiniteSetTheorems, TLAPS

(***************************************************************************)
(* Types.                                                                  *)
(***************************************************************************)

\* A call in hand has been counted as an iteration, and is on record when it is stored.
Paced ==
    /\ place \in {"reasoning", "invoking", "waiting", "storing"} =>
           iteration <= MaxIterations
    /\ place \notin {"recording", "ended"} =>
           /\ stored = iteration - 1
           /\ Len(records) = IF place = "storing" THEN iteration ELSE iteration - 1
    /\ place = "waiting" =>
           /\ proposal.tool \in Registered
           /\ proposal.entity \in Scope

\* Whose records there are: a call was answered if it was allowed, and refused if not.
Recorded ==
    \A i \in 1..Len(records) :
        /\ records[i].allowed =>
               /\ records[i].status \in Answers
               /\ records[i].tool \in Registered
               /\ records[i].entity \in Scope
        /\ ~records[i].allowed => records[i].status \in Refusals

LEMMA Records ==
    ASSUME NEW p \in Proposal, NEW allowed \in BOOLEAN, NEW status \in Statuses,
           NEW ended \in Nat
    PROVE  /\ RecordOf(p, allowed, status, ended) \in Record
           /\ RecordOf(p, allowed, status, ended).tool = p.tool
           /\ RecordOf(p, allowed, status, ended).entity = p.entity
           /\ RecordOf(p, allowed, status, ended).allowed = allowed
           /\ RecordOf(p, allowed, status, ended).status = status
  BY DEF RecordOf, Record, Proposal

LEMMA Appended ==
    ASSUME NEW r \in Record, records \in Seq(Record)
    PROVE  /\ Append(records, r) \in Seq(Record)
           /\ Len(Append(records, r)) = Len(records) + 1
           /\ Append(records, r)[Len(records) + 1] = r
           /\ \A i \in 1..Len(records) : Append(records, r)[i] = records[i]
           /\ Len(records) \in Nat
  OBVIOUS

\* What the checks of invoke have established when none refuses.
LEMMA Admission ==
    ASSUME NEW p \in Proposal
    PROVE  /\ RefusalOf(p) \in Refusals \cup {"None"}
           /\ RefusalOf(p) = "None" =>
                  /\ p.tool \in Registered
                  /\ p.entity \in Scope
                  /\ FingerprintOf(p) \notin seen
                  /\ ~(totalCalls >= TotalCalls)
                  /\ ~(perTool[p.tool] >= PerToolCalls)
  <1>1. p.valid \in BOOLEAN
    BY DEF Proposal
  <1> QED
    BY <1>1 DEF RefusalOf, Refusals

\* The three ways a step leaves the records.
OnRecord(r) == records' = Append(records, r)

LEMMA AnswerSteps ==
    ASSUME TypeOK, ToolTimesOut \/ \E status \in Answers : ToolAnswers(status)
    PROVE  /\ place = "waiting" /\ elapsed' \in Nat /\ elapsed' <= elapsed + ToolTimeout
           /\ \E status \in Answers :
                /\ OnRecord(RecordOf(proposal, TRUE, status, elapsed'))
                /\ \/ abandoned' = abandoned
                   \/ abandoned' = abandoned \cup {<<"tool", iteration>>} /\ status = "TIMEOUT"
           /\ UNCHANGED <<totalCalls, perTool, seen, proposal, stored, evidence, iteration,
                          termination>>
           /\ place' = "storing"
  <1> USE InvestigationAssumption
  <1>1. ASSUME NEW status \in Answers, ToolAnswers(status)
        PROVE  /\ place = "waiting" /\ elapsed' \in Nat /\ elapsed' <= elapsed + ToolTimeout
               /\ OnRecord(RecordOf(proposal, TRUE, status, elapsed'))
               /\ abandoned' = abandoned
               /\ UNCHANGED <<totalCalls, perTool, seen, proposal, stored, evidence,
                              iteration, termination>>
               /\ place' = "storing"
    BY <1>1 DEF ToolAnswers, OnRecord, context, TypeOK
  <1>2. CASE ToolTimesOut
    <2>1. "TIMEOUT" \in Answers
      BY DEF Answers
    <2>2. /\ place = "waiting" /\ elapsed' \in Nat /\ elapsed' <= elapsed + ToolTimeout
          /\ OnRecord(RecordOf(proposal, TRUE, "TIMEOUT", elapsed'))
          /\ abandoned' = abandoned \cup {<<"tool", iteration>>}
          /\ UNCHANGED <<totalCalls, perTool, seen, proposal, stored, evidence,
                         iteration, termination>>
          /\ place' = "storing"
      BY <1>2 DEF ToolTimesOut, OnRecord, context, TypeOK
    <2> QED
      BY <2>1, <2>2
  <1> QED
    BY <1>1, <1>2

LEMMA RecordSteps ==
    ASSUME TypeOK, [Next]_vars
    PROVE  \/ UNCHANGED records
           \/ /\ place = "invoking" /\ RefusalOf(proposal) \in Refusals
              /\ OnRecord(RecordOf(proposal, FALSE, RefusalOf(proposal), elapsed))
              /\ UNCHANGED <<totalCalls, perTool, seen>> /\ place' = "storing"
           \/ /\ place = "waiting" /\ elapsed' \in Nat
              /\ \E status \in Answers : OnRecord(RecordOf(proposal, TRUE, status, elapsed'))
              /\ UNCHANGED <<totalCalls, perTool, seen>> /\ place' = "storing"
  <1>1. CASE Refuse
    BY <1>1, Admission DEF Refuse, OnRecord, context, TypeOK
  <1>2. \/ StopAtLimit \/ ContextTooLarge \/ AskReasoner \/ ProposeTool \/ ProposeCandidate
        \/ ReasonerFails \/ ReasonerTimesOut \/ Dispatch \/ StoreAndGoOn \/ StoreAndStop
        \/ StoreFails \/ RecordFailure \/ UNCHANGED vars
        => UNCHANGED records
    BY DEF StopAtLimit, ContextTooLarge, AskReasoner, ProposeTool, ProposeCandidate,
       ReasonerFails, ReasonerTimesOut, Dispatch, StoreAndGoOn, StoreAndStop, StoreFails,
       RecordFailure, vars
  <1> QED
    BY <1>1, <1>2, AnswerSteps DEF Next

LEMMA TypeStep == TypeOK /\ Paced /\ Recorded /\ [Next]_vars => TypeOK' /\ Paced'
  <1> SUFFICES ASSUME TypeOK, Paced, Recorded, [Next]_vars PROVE TypeOK' /\ Paced'
    OBVIOUS
  <1> USE InvestigationAssumption
  <1>0. /\ Len(records) \in Nat /\ iteration \in Nat /\ elapsed \in Nat /\ stored \in Nat
        /\ {"CANDIDATE", "ITERATION_LIMIT", "DEADLINE_EXCEEDED", "CONTEXT_LIMIT",
            "REASONER_FAILURE", "INVALID_REASONER_OUTPUT",
            "EVIDENCE_REFERENCE_VIOLATION", "TOOL_REQUEST_DENIED",
            "TOOL_FAILURE", "PERSISTENCE_FAILURE"} \subseteq Terminations
    BY DEF TypeOK, Terminations
  <1>1. CASE StopAtLimit
    BY <1>0, <1>1 DEF StopAtLimit, LimitsReached, Terminate, context, TypeOK, Paced
  <1>2. CASE ContextTooLarge
    BY <1>0, <1>2 DEF ContextTooLarge, Terminate, context, TypeOK, Paced
  <1>3. CASE AskReasoner
    BY <1>0, <1>3 DEF AskReasoner, LimitsReached, context, TypeOK, Paced
  <1>4. CASE ProposeTool
    BY <1>0, <1>4 DEF ProposeTool, Reasons, context, TypeOK, Paced
  <1>5. CASE ProposeCandidate
    BY <1>0, <1>5 DEF ProposeCandidate, Reasons, Terminate, context, TypeOK, Paced
  <1>6. CASE ReasonerFails
    BY <1>0, <1>6 DEF ReasonerFails, Reasons, Terminate, context, TypeOK, Paced
  <1>7. CASE ReasonerTimesOut
    BY <1>0, <1>7 DEF ReasonerTimesOut, Terminate, context, TypeOK, Paced
  <1>8. CASE Dispatch
    <2>1. /\ proposal.tool \in Registered /\ proposal.entity \in Scope
          /\ FingerprintOf(proposal) \in [tool : Registered, entity : Scope]
      BY <1>8, Admission DEF Dispatch, FingerprintOf, TypeOK
    <2>2. perTool' \in [Registered -> Nat]
      BY <1>8, <2>1 DEF Dispatch, TypeOK
    <2> QED
      BY <1>0, <1>8, <2>1, <2>2 DEF Dispatch, TypeOK, Paced
  <1>9. ASSUME NEW r \in Record, OnRecord(r), place \in {"invoking", "waiting"},
               place' = "storing", elapsed' \in Nat,
               UNCHANGED <<iteration, proposal, totalCalls, perTool, seen, stored, evidence,
                           termination>>,
               abandoned' \subseteq {"reasoner", "tool"} \X (1..MaxIterations)
        PROVE  TypeOK' /\ Paced'
    <2>1. /\ records' \in Seq(Record) /\ Len(records') = Len(records) + 1
      BY <1>9, Appended DEF OnRecord, TypeOK
    <2> QED
      BY <1>0, <1>9, <2>1 DEF TypeOK, Paced
  <1>10. CASE Refuse
    <2>1. RefusalOf(proposal) \in Statuses
      BY <1>10, Admission DEF Refuse, Statuses, TypeOK
    <2>2. RecordOf(proposal, FALSE, RefusalOf(proposal), elapsed) \in Record
      BY <1>0, <2>1, Records DEF TypeOK
    <2> QED
      BY <1>0, <1>9, <1>10, <2>2 DEF Refuse, OnRecord, context, TypeOK
  <1>11. CASE ToolTimesOut \/ \E status \in Answers : ToolAnswers(status)
    <2>1. PICK status \in Answers :
              /\ OnRecord(RecordOf(proposal, TRUE, status, elapsed'))
              /\ \/ abandoned' = abandoned
                 \/ abandoned' = abandoned \cup {<<"tool", iteration>>} /\ status = "TIMEOUT"
      BY <1>11, AnswerSteps
    <2>2. status \in Statuses /\ elapsed' \in Nat
      BY <1>11, AnswerSteps DEF Statuses
    <2>3. RecordOf(proposal, TRUE, status, elapsed') \in Record
      BY <2>2, Records DEF TypeOK
    <2>4. abandoned' \subseteq {"reasoner", "tool"} \X (1..MaxIterations)
      <3>1. place = "waiting"
        BY <1>11, AnswerSteps
      <3>2. iteration \in 1..MaxIterations
        BY <1>0, <3>1 DEF TypeOK, Paced
      <3> QED
        BY <2>1, <3>2 DEF TypeOK
    <2> QED
      BY <1>9, <1>11, <2>1, <2>2, <2>3, <2>4, AnswerSteps
  <1>13. CASE StoreAndGoOn
    <2>1. /\ place = "storing" /\ place' = "checking"
          /\ stored' = Len(records) /\ iteration' = iteration + 1
          /\ evidence' = evidence \cup {Len(records)}
          /\ elapsed' \in elapsed..(elapsed + CommitTime)
          /\ UNCHANGED <<proposal, totalCalls, perTool, seen, records, abandoned, termination>>
      BY <1>13 DEF StoreAndGoOn, Commits, context
    <2>2. /\ Len(records) = iteration /\ iteration \in 1..MaxIterations
      BY <1>0, <2>1 DEF TypeOK, Paced
    <2>3. /\ iteration' \in 1..(MaxIterations + 1) /\ elapsed' \in Nat
          /\ stored' \in 0..Len(records) /\ evidence' \subseteq 1..Len(records)
      BY <1>0, <2>1, <2>2 DEF TypeOK
    <2> QED
      BY <2>1, <2>2, <2>3 DEF TypeOK, Paced
  <1>14. CASE StoreAndStop
    <2>1. Verdict(records[Len(records)]) \in Terminations
      BY <1>0, <1>14 DEF StoreAndStop, Verdict
    <2> QED
      BY <1>0, <1>14, <2>1 DEF StoreAndStop, Terminate, Commits, context, TypeOK, Paced
  <1>15. CASE StoreFails
    BY <1>0, <1>15 DEF StoreFails, Commits, context, TypeOK, Paced
  <1>17. CASE RecordFailure
    BY <1>0, <1>17 DEF RecordFailure, Commits, context, TypeOK, Paced
  <1>16. CASE UNCHANGED vars
    BY <1>16 DEF vars, TypeOK, Paced
  <1> QED
    BY <1>1, <1>2, <1>3, <1>4, <1>5, <1>6, <1>7, <1>8, <1>10, <1>11, <1>13, <1>14,
       <1>15, <1>16, <1>17 DEF Next

LEMMA RecordedStep == TypeOK /\ Paced /\ Recorded /\ [Next]_vars => Recorded'
  <1> SUFFICES ASSUME TypeOK, Paced, Recorded, [Next]_vars PROVE Recorded'
    OBVIOUS
  <1>1. CASE UNCHANGED records
    BY <1>1 DEF Recorded
  <1>2. ASSUME NEW r \in Record, OnRecord(r),
               r.allowed => /\ r.status \in Answers
                            /\ r.tool \in Registered /\ r.entity \in Scope,
               ~r.allowed => r.status \in Refusals
        PROVE  Recorded'
    <2>1. /\ Len(records') = Len(records) + 1 /\ Len(records) \in Nat
          /\ records'[Len(records) + 1] = r
          /\ \A i \in 1..Len(records) : records'[i] = records[i]
      BY <1>2, Appended DEF OnRecord, TypeOK
    <2>2. ASSUME NEW i \in 1..Len(records') PROVE i \in 1..Len(records) \/ i = Len(records) + 1
      BY <2>1, <2>2
    <2> QED
      BY <1>2, <2>1, <2>2 DEF Recorded
  <1>3. CASE /\ RefusalOf(proposal) \in Refusals
             /\ OnRecord(RecordOf(proposal, FALSE, RefusalOf(proposal), elapsed))
    <2>1. RefusalOf(proposal) \in Statuses
      BY <1>3 DEF Statuses
    <2> QED
      BY <1>2, <1>3, <2>1, Records DEF TypeOK
  <1>4. ASSUME place = "waiting", elapsed' \in Nat, NEW status \in Answers,
               OnRecord(RecordOf(proposal, TRUE, status, elapsed'))
        PROVE  Recorded'
    <2>1. status \in Statuses
      BY DEF Statuses
    <2>2. proposal \in Proposal /\ proposal.tool \in Registered /\ proposal.entity \in Scope
      BY <1>4 DEF TypeOK, Paced
    <2> QED
      BY <1>2, <1>4, <2>1, <2>2, Records
  <1> QED
    BY <1>1, <1>3, <1>4, RecordSteps

LEMMA Grounded == Spec => [](TypeOK /\ Paced /\ Recorded)
  <1>1. Init => TypeOK /\ Paced /\ Recorded
    BY InvestigationAssumption DEF Init, TypeOK, Paced, Recorded
  <1>2. TypeOK /\ Paced /\ Recorded /\ [Next]_vars => (TypeOK /\ Paced /\ Recorded)'
    BY TypeStep, RecordedStep
  <1> QED
    BY <1>1, <1>2, PTL DEF Spec

\* Every variable of a run keeps its type: the loop counts no further than one
\* past its last iteration, and what is stored or cited is on record.
THEOREM TypeCorrect == Spec => []TypeOK
  BY Grounded, PTL

(***************************************************************************)
(* Budgets: what the context has been charged is the calls that reached a  *)
(* tool, the one under way included.                                       *)
(***************************************************************************)

CallsOf(t) == {i \in Allowed : records[i].tool = t}
UnderWay == IF place = "waiting" THEN 1 ELSE 0
UnderWayOf(t) == IF place = "waiting" /\ proposal.tool = t THEN 1 ELSE 0

Charged ==
    /\ totalCalls <= TotalCalls
    /\ totalCalls = Cardinality(Allowed) + UnderWay
    /\ \A t \in Registered : /\ perTool[t] <= PerToolCalls
                             /\ perTool[t] = Cardinality(CallsOf(t)) + UnderWayOf(t)

LEMMA FewCalls ==
    ASSUME TypeOK
    PROVE  /\ Len(records) \in Nat
           /\ IsFiniteSet(Allowed) /\ Cardinality(Allowed) \in Nat
           /\ \A t : IsFiniteSet(CallsOf(t)) /\ Cardinality(CallsOf(t)) \in Nat
           /\ Len(records) + 1 \notin Allowed
  <1>1. Len(records) \in Nat
    BY DEF TypeOK
  <1>2. IsFiniteSet(1..Len(records))
    BY <1>1, FS_Interval
  <1>3. IsFiniteSet(Allowed)
    BY <1>2, FS_Subset DEF Allowed
  <1>4. ASSUME NEW t PROVE IsFiniteSet(CallsOf(t))
    <2>1. CallsOf(t) \subseteq Allowed
      BY DEF CallsOf
    <2> QED
      BY <1>3, <2>1, FS_Subset
  <1>5. Len(records) + 1 \notin Allowed
    BY <1>1 DEF Allowed
  <1> QED
    BY <1>1, <1>3, <1>4, <1>5, FS_CardinalityType

\* A refusal leaves the calls that reached a tool as they were.
LEMMA CallsKept ==
    ASSUME TypeOK,
           \/ UNCHANGED records
           \/ /\ RefusalOf(proposal) \in Refusals
              /\ OnRecord(RecordOf(proposal, FALSE, RefusalOf(proposal), elapsed))
    PROVE  /\ Allowed' = Allowed /\ \A i \in Allowed : records'[i] = records[i]
           /\ \A t : CallsOf(t)' = CallsOf(t)
  <1>1. Allowed' = Allowed /\ \A i \in Allowed : records'[i] = records[i]
    <2>1. CASE UNCHANGED records
      BY <2>1 DEF Allowed
    <2>2. CASE /\ RefusalOf(proposal) \in Refusals
               /\ OnRecord(RecordOf(proposal, FALSE, RefusalOf(proposal), elapsed))
      <3> DEFINE r == RecordOf(proposal, FALSE, RefusalOf(proposal), elapsed)
      <3>1. r \in Record /\ r.allowed = FALSE
        <4>1. RefusalOf(proposal) \in Statuses
          BY <2>2 DEF Statuses
        <4> QED
          BY <4>1, Records DEF TypeOK
      <3>2. /\ Len(records') = Len(records) + 1 /\ Len(records) \in Nat
            /\ records'[Len(records) + 1] = r
            /\ \A i \in 1..Len(records) : records'[i] = records[i]
        BY <2>2, <3>1, Appended DEF OnRecord, TypeOK
      <3> HIDE DEF r
      <3>3. 1..Len(records') = 1..Len(records) \cup {Len(records) + 1}
        BY <3>2
      <3> QED
        BY <3>1, <3>2, <3>3 DEF Allowed
    <2> QED
      BY <2>1, <2>2
  <1>2. ASSUME NEW t PROVE CallsOf(t)' = CallsOf(t)
    BY <1>1 DEF CallsOf
  <1> QED
    BY <1>1, <1>2

\* An answered call is one more.
LEMMA CallAdded ==
    ASSUME TypeOK, elapsed' \in Nat, NEW status \in Answers,
           OnRecord(RecordOf(proposal, TRUE, status, elapsed'))
    PROVE  /\ Allowed' = Allowed \cup {Len(records) + 1}
           /\ \A i \in Allowed : records'[i] = records[i]
           /\ records'[Len(records) + 1].tool = proposal.tool
           /\ records'[Len(records) + 1].entity = proposal.entity
           /\ records'[Len(records) + 1].status = status
           /\ \A t : CallsOf(t)' = IF t = proposal.tool
                                   THEN CallsOf(t) \cup {Len(records) + 1} ELSE CallsOf(t)
  <1> DEFINE r == RecordOf(proposal, TRUE, status, elapsed')
  <1>1. /\ r \in Record /\ r.allowed = TRUE
        /\ r.tool = proposal.tool /\ r.entity = proposal.entity /\ r.status = status
    <2>1. status \in Statuses /\ proposal \in Proposal
      BY DEF Statuses, TypeOK
    <2> DEFINE end == elapsed'
    <2>2. end \in Nat
      OBVIOUS
    <2> HIDE DEF end
    <2>3. /\ RecordOf(proposal, TRUE, status, end) \in Record
          /\ RecordOf(proposal, TRUE, status, end).tool = proposal.tool
          /\ RecordOf(proposal, TRUE, status, end).entity = proposal.entity
          /\ RecordOf(proposal, TRUE, status, end).allowed = TRUE
          /\ RecordOf(proposal, TRUE, status, end).status = status
      <3> HIDE DEF r
      <3> QED
        BY <2>1, <2>2, Records
    <2> QED
      BY <2>3 DEF end
  <1>2. /\ Len(records') = Len(records) + 1 /\ Len(records) \in Nat
        /\ records'[Len(records) + 1] = r
        /\ \A i \in 1..Len(records) : records'[i] = records[i]
    BY <1>1, Appended DEF OnRecord, TypeOK
  <1> HIDE DEF r
  <1>3. 1..Len(records') = 1..Len(records) \cup {Len(records) + 1}
    BY <1>2
  <1>4. Allowed' = Allowed \cup {Len(records) + 1} /\ \A i \in Allowed : records'[i] = records[i]
    BY <1>1, <1>2, <1>3 DEF Allowed
  <1>5. ASSUME NEW t
        PROVE  CallsOf(t)' = IF t = proposal.tool THEN CallsOf(t) \cup {Len(records) + 1}
                             ELSE CallsOf(t)
    BY <1>1, <1>2, <1>4 DEF CallsOf
  <1> QED
    BY <1>1, <1>2, <1>4, <1>5

LEMMA ChargedStep == TypeOK /\ Charged /\ [Next]_vars => Charged'
  <1> SUFFICES ASSUME TypeOK, Charged, [Next]_vars PROVE Charged'
    OBVIOUS
  <1> USE InvestigationAssumption
  <1>1. CASE Dispatch
    <2>1. Allowed' = Allowed /\ \A t : CallsOf(t)' = CallsOf(t)
      BY <1>1 DEF Dispatch, Allowed, CallsOf
    <2>2. /\ proposal.tool \in Registered
          /\ ~(totalCalls >= TotalCalls) /\ ~(perTool[proposal.tool] >= PerToolCalls)
      BY <1>1, Admission DEF Dispatch, TypeOK
    <2>3. /\ place = "invoking" /\ place' = "waiting" /\ UNCHANGED proposal
          /\ totalCalls' = totalCalls + 1
          /\ perTool' = [perTool EXCEPT ![proposal.tool] = @ + 1]
      BY <1>1 DEF Dispatch
    <2>4. totalCalls' <= TotalCalls /\ totalCalls' = Cardinality(Allowed') + UnderWay'
      BY <2>1, <2>2, <2>3, FewCalls DEF Charged, UnderWay, TypeOK
    <2>5. ASSUME NEW t \in Registered
          PROVE  /\ perTool'[t] <= PerToolCalls
                 /\ perTool'[t] = Cardinality(CallsOf(t)') + UnderWayOf(t)'
      BY <2>1, <2>2, <2>3, FewCalls DEF Charged, UnderWayOf, TypeOK
    <2> QED
      BY <2>4, <2>5 DEF Charged
  <1>2. ASSUME place = "waiting", place' = "storing", elapsed' \in Nat,
               NEW status \in Answers,
               OnRecord(RecordOf(proposal, TRUE, status, elapsed')),
               UNCHANGED <<totalCalls, perTool, seen>>
        PROVE  Charged'
    <2> DEFINE new == Len(records) + 1
    <2>1. /\ Allowed' = Allowed \cup {new}
          /\ \A t : CallsOf(t)' = IF t = proposal.tool THEN CallsOf(t) \cup {new}
                                  ELSE CallsOf(t)
      BY <1>2, CallAdded
    <2>2. /\ new \notin Allowed /\ \A t : new \notin CallsOf(t)
      BY FewCalls DEF CallsOf
    <2> HIDE DEF new
    <2>3. Cardinality(Allowed') = Cardinality(Allowed) + 1
      BY <2>1, <2>2, FewCalls, FS_AddElement
    <2>4. ASSUME NEW t
          PROVE  Cardinality(CallsOf(t)') =
                   Cardinality(CallsOf(t)) + IF t = proposal.tool THEN 1 ELSE 0
      <3>1. Cardinality(CallsOf(t) \cup {new}) = Cardinality(CallsOf(t)) + 1
        BY <2>2, FewCalls, FS_AddElement
      <3>2. /\ t = proposal.tool => CallsOf(t)' = CallsOf(t) \cup {new}
            /\ t # proposal.tool => CallsOf(t)' = CallsOf(t)
        BY <2>1
      <3>3. Cardinality(CallsOf(t)) \in Nat
        BY FewCalls
      <3>4. CASE t = proposal.tool
        BY <3>1, <3>2, <3>4
      <3>5. CASE t # proposal.tool
        BY <3>2, <3>3, <3>5
      <3> QED
        BY <3>4, <3>5
    <2>5. totalCalls' <= TotalCalls /\ totalCalls' = Cardinality(Allowed') + UnderWay'
      BY <1>2, <2>3, FewCalls DEF Charged, UnderWay, TypeOK
    <2>6. ASSUME NEW t \in Registered
          PROVE  /\ perTool'[t] <= PerToolCalls
                 /\ perTool'[t] = Cardinality(CallsOf(t)') + UnderWayOf(t)'
      BY <1>2, <2>4, FewCalls DEF Charged, UnderWayOf, TypeOK
    <2> QED
      BY <2>5, <2>6 DEF Charged
  <1>3. ASSUME UNCHANGED <<totalCalls, perTool>>, place # "waiting", place' # "waiting",
               \/ UNCHANGED records
               \/ /\ RefusalOf(proposal) \in Refusals
                  /\ OnRecord(RecordOf(proposal, FALSE, RefusalOf(proposal), elapsed))
        PROVE  Charged'
    <2>1. Allowed' = Allowed /\ \A t : CallsOf(t)' = CallsOf(t)
      BY <1>3, CallsKept
    <2> QED
      BY <1>3, <2>1 DEF Charged, UnderWay, UnderWayOf
  <1>4. CASE Refuse
    <2>1. RefusalOf(proposal) \in Refusals
      BY <1>4, Admission DEF Refuse, TypeOK
    <2> QED
      BY <1>3, <1>4, <2>1 DEF Refuse, OnRecord, context
  <1>5. CASE UNCHANGED vars
    BY <1>5 DEF vars, Charged, Allowed, CallsOf, UnderWay, UnderWayOf
  <1>6. CASE \/ StopAtLimit \/ ContextTooLarge \/ AskReasoner \/ ProposeTool
             \/ ProposeCandidate \/ ReasonerFails \/ ReasonerTimesOut \/ StoreAndGoOn
             \/ StoreAndStop \/ StoreFails \/ RecordFailure
    <2>1. /\ place # "waiting" /\ place' # "waiting"
          /\ UNCHANGED <<totalCalls, perTool, records>>
      BY <1>6 DEF StopAtLimit, ContextTooLarge, AskReasoner, ProposeTool, ProposeCandidate,
         ReasonerFails, ReasonerTimesOut, StoreAndGoOn, StoreAndStop, StoreFails,
         RecordFailure, Commits, Reasons, Terminate, context
    <2> QED
      BY <1>3, <2>1
  <1>7. CASE \/ ToolTimesOut \/ \E status \in Answers : ToolAnswers(status)
    BY <1>2, <1>7, AnswerSteps
  <1> QED
    BY <1>1, <1>4, <1>5, <1>6, <1>7 DEF Next

\* The calls that reached a tool never exceed the total budget or the tool's.
THEOREM BudgetsHold == Spec => []CallsStayInBudget
  <1>1. Init => Charged
    <2> SUFFICES ASSUME Init PROVE Charged
      OBVIOUS
    <2>1. /\ place = "checking" /\ totalCalls = 0 /\ records = <<>>
          /\ \A t \in Registered : perTool[t] = 0
      BY DEF Init
    <2>2. Allowed = {} /\ \A t : CallsOf(t) = {}
      BY <2>1 DEF Allowed, CallsOf
    <2>3. Cardinality(Allowed) = 0 /\ \A t : Cardinality(CallsOf(t)) = 0
      BY <2>2, FS_EmptySet
    <2>4. UnderWay = 0 /\ \A t : UnderWayOf(t) = 0
      BY <2>1 DEF UnderWay, UnderWayOf
    <2> QED
      BY <2>1, <2>3, <2>4, InvestigationAssumption DEF Charged
  <1>2. TypeOK /\ Charged => CallsStayInBudget
    <2> SUFFICES ASSUME TypeOK, Charged PROVE CallsStayInBudget
      OBVIOUS
    <2>1. Cardinality(Allowed) <= TotalCalls
      BY FewCalls, InvestigationAssumption DEF Charged, UnderWay, TypeOK
    <2>2. ASSUME NEW t \in Registered PROVE Cardinality(CallsOf(t)) <= PerToolCalls
      BY FewCalls, InvestigationAssumption DEF Charged, UnderWayOf, TypeOK
    <2> QED
      BY <2>1, <2>2 DEF CallsStayInBudget, CallsOf
  <1>3. Spec => []TypeOK
    BY TypeCorrect
  <1> QED
    BY <1>1, <1>2, <1>3, ChargedStep, PTL DEF Spec

(***************************************************************************)
(* Repeated calls: what reached a tool stays marked as seen.               *)
(***************************************************************************)

Marked ==
    /\ NoCallIsRepeated
    /\ \A i \in Allowed : FingerprintOf(records[i]) \in seen
    /\ place = "waiting" =>
           /\ FingerprintOf(proposal) \in seen
           /\ \A i \in Allowed : FingerprintOf(records[i]) # FingerprintOf(proposal)

LEMMA Fingerprints ==
    \A a, b : FingerprintOf(a) = FingerprintOf(b) <=> a.tool = b.tool /\ a.entity = b.entity
  BY DEF FingerprintOf

LEMMA MarkedStep == TypeOK /\ Marked /\ [Next]_vars => Marked'
  <1> SUFFICES ASSUME TypeOK, Marked, [Next]_vars PROVE Marked'
    OBVIOUS
  <1>1. CASE Dispatch
    <2>1. /\ FingerprintOf(proposal) \notin seen
          /\ seen' = seen \cup {FingerprintOf(proposal)}
          /\ UNCHANGED <<records, proposal>>
      BY <1>1, Admission DEF Dispatch, TypeOK
    <2>2. Allowed' = Allowed
      BY <2>1 DEF Allowed
    <2> QED
      BY <2>1, <2>2 DEF Marked, NoCallIsRepeated
  <1>2. CASE ToolTimesOut \/ \E status \in Answers : ToolAnswers(status)
    <2>1. /\ place = "waiting" /\ place' = "storing" /\ elapsed' \in Nat /\ UNCHANGED seen
      BY <1>2, AnswerSteps
    <2>2. PICK status \in Answers : OnRecord(RecordOf(proposal, TRUE, status, elapsed'))
      BY <1>2, AnswerSteps
    <2> DEFINE new == Len(records) + 1
    <2>3. /\ Allowed' = Allowed \cup {new}
          /\ \A i \in Allowed : records'[i] = records[i]
          /\ records'[new].tool = proposal.tool
          /\ records'[new].entity = proposal.entity
      BY <2>1, <2>2, CallAdded
    <2> HIDE DEF new
    <2>4. FingerprintOf(records'[new]) = FingerprintOf(proposal)
      BY <2>3, Fingerprints
    <2>5. \A i \in Allowed' : FingerprintOf(records'[i]) \in seen'
      BY <2>1, <2>3, <2>4 DEF Marked
    <2>6. ASSUME NEW i \in Allowed PROVE FingerprintOf(records'[i]) # FingerprintOf(records'[new])
      BY <2>1, <2>3, <2>4 DEF Marked
    <2>7. ASSUME NEW i \in Allowed', NEW j \in Allowed',
                 records'[i].tool = records'[j].tool, records'[i].entity = records'[j].entity
          PROVE  i = j
      <3>1. FingerprintOf(records'[i]) = FingerprintOf(records'[j])
        BY <2>7, Fingerprints
      <3>2. CASE i \in Allowed /\ j \in Allowed
        BY <2>3, <2>7, <3>2 DEF Marked, NoCallIsRepeated
      <3>3. CASE i = new /\ j = new
        BY <3>3
      <3>4. CASE \/ i \in Allowed /\ j = new
                 \/ i = new /\ j \in Allowed
        BY <2>6, <3>1, <3>4
      <3> QED
        BY <2>3, <3>2, <3>3, <3>4
    <2> QED
      BY <2>1, <2>5, <2>7 DEF Marked, NoCallIsRepeated
  <1>3. ASSUME UNCHANGED seen, place' # "waiting",
               \/ UNCHANGED records
               \/ /\ RefusalOf(proposal) \in Refusals
                  /\ OnRecord(RecordOf(proposal, FALSE, RefusalOf(proposal), elapsed))
        PROVE  Marked'
    <2>1. Allowed' = Allowed /\ \A i \in Allowed : records'[i] = records[i]
      BY <1>3, CallsKept
    <2> QED
      BY <1>3, <2>1 DEF Marked, NoCallIsRepeated
  <1>4. CASE Refuse
    <2>1. RefusalOf(proposal) \in Refusals
      BY <1>4, Admission DEF Refuse, TypeOK
    <2> QED
      BY <1>3, <1>4, <2>1 DEF Refuse, OnRecord, context
  <1>5. CASE UNCHANGED vars
    BY <1>5 DEF vars, Marked, NoCallIsRepeated, Allowed
  <1>6. CASE \/ StopAtLimit \/ ContextTooLarge \/ AskReasoner \/ ProposeTool
             \/ ProposeCandidate \/ ReasonerFails \/ ReasonerTimesOut \/ StoreAndGoOn
             \/ StoreAndStop \/ StoreFails \/ RecordFailure
    <2>1. place' # "waiting" /\ UNCHANGED <<seen, records>>
      BY <1>6 DEF StopAtLimit, ContextTooLarge, AskReasoner, ProposeTool, ProposeCandidate,
         ReasonerFails, ReasonerTimesOut, StoreAndGoOn, StoreAndStop, StoreFails,
         RecordFailure, Commits, Reasons, Terminate, context
    <2> QED
      BY <1>3, <2>1
  <1> QED
    BY <1>1, <1>2, <1>4, <1>5, <1>6 DEF Next

\* No tool is called twice for one entity, whatever became of the first call.
THEOREM CallsAreDistinct == Spec => []NoCallIsRepeated
  <1>1. Init => Marked
    <2>1. Init => Allowed = {} /\ place # "waiting"
      BY DEF Init, Allowed
    <2> QED
      BY <2>1 DEF Marked, NoCallIsRepeated
  <1>2. Marked => NoCallIsRepeated
    BY DEF Marked
  <1>3. Spec => []TypeOK
    BY TypeCorrect
  <1> QED
    BY <1>1, <1>2, <1>3, MarkedStep, PTL DEF Spec

(***************************************************************************)
(* Evidence.                                                               *)
(***************************************************************************)

Cited == \A i \in evidence : i <= stored /\ records[i].status = "SUCCESS"

\* Records are only ever appended.
LEMMA RecordsGrow ==
    ASSUME TypeOK, Paced, [Next]_vars
    PROVE  /\ Len(records') >= Len(records)
           /\ \A i \in 1..Len(records) : records'[i] = records[i]
  <1>1. Len(records) \in Nat
    BY DEF TypeOK
  <1>2. ASSUME NEW r \in Record, OnRecord(r)
        PROVE  /\ Len(records') >= Len(records)
               /\ \A i \in 1..Len(records) : records'[i] = records[i]
    BY <1>1, <1>2, Appended DEF OnRecord, TypeOK
  <1>3. CASE /\ RefusalOf(proposal) \in Refusals
             /\ OnRecord(RecordOf(proposal, FALSE, RefusalOf(proposal), elapsed))
    <2>1. RefusalOf(proposal) \in Statuses
      BY <1>3 DEF Statuses
    <2> QED
      BY <1>2, <1>3, <2>1, Records DEF TypeOK
  <1>4. ASSUME elapsed' \in Nat, NEW status \in Answers,
               OnRecord(RecordOf(proposal, TRUE, status, elapsed'))
        PROVE  /\ Len(records') >= Len(records)
               /\ \A i \in 1..Len(records) : records'[i] = records[i]
    <2>1. status \in Statuses /\ proposal \in Proposal
      BY DEF Statuses, TypeOK
    <2> QED
      BY <1>2, <1>4, <2>1, Records
  <1>5. CASE UNCHANGED records
    BY <1>1, <1>5
  <1> QED
    BY <1>3, <1>4, <1>5, RecordSteps

\* Only a stored success becomes evidence.
LEMMA EvidenceSteps ==
    ASSUME TypeOK, Paced, [Next]_vars
    PROVE  \/ evidence' = evidence /\ stored' \in {stored, Len(records)}
           \/ /\ evidence' = evidence \cup {Len(records)} /\ stored' = Len(records)
              /\ records[Len(records)].status = "SUCCESS"
              /\ ~(Cardinality(evidence) >= MaxEvidence) /\ UNCHANGED records
  <1>0. Len(records) \in Nat /\ stored \in 0..Len(records)
    BY DEF TypeOK
  <1>1. CASE StoreAndGoOn
    BY <1>1 DEF StoreAndGoOn, Verdict
  <1>2. CASE StoreAndStop \/ StoreFails
    BY <1>0, <1>2 DEF StoreAndStop, StoreFails
  <1>3. CASE ToolTimesOut \/ \E status \in Answers : ToolAnswers(status)
    BY <1>0, <1>3, AnswerSteps
  <1>4. CASE \/ StopAtLimit \/ ContextTooLarge \/ AskReasoner \/ ProposeTool
             \/ ProposeCandidate \/ ReasonerFails \/ ReasonerTimesOut \/ Refuse \/ Dispatch
             \/ RecordFailure \/ UNCHANGED vars
    <2>1. UNCHANGED <<evidence, stored>>
      BY <1>4 DEF StopAtLimit, ContextTooLarge, AskReasoner, ProposeTool, ProposeCandidate,
         ReasonerFails, ReasonerTimesOut, Refuse, Dispatch, RecordFailure, vars
    <2> QED
      BY <1>0, <2>1
  <1> QED
    BY <1>1, <1>2, <1>3, <1>4 DEF Next

\* What a candidate may cite is a stored success of a registered tool on an entity
\* of the alert.
THEOREM EvidenceStands == Spec => []EvidenceIsGenuine
  <1>1. Init => Cited
    BY DEF Init, Cited
  <1>2. TypeOK /\ Paced /\ Cited /\ [Next]_vars => Cited'
    <2> SUFFICES ASSUME TypeOK, Paced, Cited, [Next]_vars, NEW i \in evidence'
                 PROVE  i <= stored' /\ records'[i].status = "SUCCESS"
      BY DEF Cited
    <2>1. Len(records) \in Nat /\ stored \in 0..Len(records) /\ evidence \subseteq 1..Len(records)
      BY DEF TypeOK
    <2>2. CASE evidence' = evidence /\ stored' \in {stored, Len(records)}
      <3>1. i \in 1..Len(records) /\ i <= stored /\ records[i].status = "SUCCESS"
        BY <2>1, <2>2 DEF Cited
      <3> QED
        BY <2>1, <2>2, <3>1, RecordsGrow
    <2>3. CASE /\ evidence' = evidence \cup {Len(records)} /\ stored' = Len(records)
               /\ records[Len(records)].status = "SUCCESS" /\ UNCHANGED records
      BY <2>1, <2>3 DEF Cited
    <2> QED
      BY <2>2, <2>3, EvidenceSteps
  <1>3. TypeOK /\ Recorded /\ Cited => EvidenceIsGenuine
    BY DEF TypeOK, Recorded, Cited, EvidenceIsGenuine, Refusals
  <1> QED
    BY <1>1, <1>2, <1>3, Grounded, PTL DEF Spec

(***************************************************************************)
(* Time, and the threads left behind.                                      *)
(***************************************************************************)

Timed ==
    /\ place \in {"reasoning", "invoking", "waiting"} => elapsed <= Deadline
    /\ place = "storing" => elapsed <= Deadline + ToolTimeout
    /\ place = "recording" => termination = "PERSISTENCE_FAILURE"
    /\ place # "ended" => elapsed <= Deadline + ToolTimeout + CommitTime
    /\ EndsInTime

\* A thread is only ever left behind by the step that ends the loop.
LeftLast ==
    /\ abandoned = {} \/ \E thread : abandoned = {thread}
    /\ place \notin {"storing", "recording", "ended"} => abandoned = {}
    /\ place = "storing" /\ abandoned # {} => records[Len(records)].status = "TIMEOUT"
    /\ place = "recording" => termination = "PERSISTENCE_FAILURE"
    /\ place = "ended" /\ abandoned # {} =>
           termination \in {"DEADLINE_EXCEEDED", "TOOL_FAILURE", "PERSISTENCE_FAILURE"}

LEMMA TimedStep == TypeOK /\ Timed /\ [Next]_vars => Timed'
  <1> SUFFICES ASSUME TypeOK, Timed, [Next]_vars PROVE Timed'
    OBVIOUS
  <1> USE InvestigationAssumption
  <1>0. elapsed \in Nat
    BY DEF TypeOK
  <1>1. CASE StopAtLimit \/ ContextTooLarge \/ UNCHANGED vars
    <2>1. /\ UNCHANGED elapsed
          /\ \/ UNCHANGED <<place, termination>>
             \/ place = "checking" /\ place' = "ended"
      BY <1>1 DEF StopAtLimit, ContextTooLarge, Terminate, vars
    <2> QED
      BY <1>0, <2>1 DEF Timed, EndsInTime
  <1>2. CASE AskReasoner
    <2>1. ~(elapsed >= Deadline)
      BY <1>2 DEF AskReasoner, LimitsReached
    <2>2. UNCHANGED elapsed /\ place' = "reasoning"
      BY <1>2 DEF AskReasoner
    <2> QED
      BY <1>0, <2>1, <2>2 DEF Timed, EndsInTime
  <1>3. CASE ProposeTool \/ ProposeCandidate \/ ReasonerFails \/ ReasonerTimesOut
    <2>1. /\ elapsed' \in Nat /\ elapsed' <= Deadline
          /\ place' \in {"invoking", "ended"}
      BY <1>0, <1>3 DEF ProposeTool, ProposeCandidate, ReasonerFails, ReasonerTimesOut, Reasons,
         Terminate
    <2> QED
      BY <2>1 DEF Timed, EndsInTime
  <1>4. CASE Refuse \/ Dispatch
    <2>1. /\ place = "invoking" /\ UNCHANGED elapsed /\ place' \in {"storing", "waiting"}
      BY <1>4 DEF Refuse, Dispatch
    <2> QED
      BY <1>0, <2>1 DEF Timed, EndsInTime
  <1>5. CASE ToolTimesOut \/ \E status \in Answers : ToolAnswers(status)
    <2>1. /\ place = "waiting" /\ place' = "storing"
          /\ elapsed' \in Nat /\ elapsed' <= elapsed + ToolTimeout
      BY <1>5, AnswerSteps
    <2> QED
      BY <1>0, <2>1 DEF Timed, EndsInTime
  <1>6. CASE StoreAndGoOn \/ StoreAndStop \/ StoreFails
    <2>1. /\ place = "storing" /\ elapsed' \in elapsed..(elapsed + CommitTime)
          /\ place' \in {"checking", "recording", "ended"}
          /\ place' = "recording" => termination' = "PERSISTENCE_FAILURE"
      BY <1>6 DEF StoreAndGoOn, StoreAndStop, StoreFails, Commits, Terminate
    <2> QED
      BY <1>0, <2>1 DEF Timed, EndsInTime
  <1>7. CASE RecordFailure
    <2>1. /\ place = "recording" /\ place' = "ended" /\ UNCHANGED termination
          /\ elapsed' \in elapsed..(elapsed + CommitTime)
      BY <1>7 DEF RecordFailure, Commits
    <2> QED
      BY <1>0, <2>1 DEF Timed, EndsInTime
  <1> QED
    BY <1>1, <1>2, <1>3, <1>4, <1>5, <1>6, <1>7 DEF Next

\* The loop overruns its deadline by one tool call and one unit of work at most, and
\* by a second unit of work when it has to record that the first failed.
THEOREM OverrunIsBounded == Spec => []EndsInTime
  <1>1. Init => Timed
    BY InvestigationAssumption DEF Init, Timed, EndsInTime
  <1>2. Timed => EndsInTime
    BY DEF Timed
  <1>3. Spec => []TypeOK
    BY TypeCorrect
  <1> QED
    BY <1>1, <1>2, <1>3, TimedStep, PTL DEF Spec

LEMMA LeftLastStep == TypeOK /\ Paced /\ Recorded /\ LeftLast /\ [Next]_vars => LeftLast'
  <1> SUFFICES ASSUME TypeOK, Paced, Recorded, LeftLast, [Next]_vars PROVE LeftLast'
    OBVIOUS
  <1>1. CASE UNCHANGED vars
    BY <1>1 DEF vars, LeftLast
  <1>2. CASE \/ StopAtLimit \/ ContextTooLarge \/ AskReasoner \/ ProposeTool
             \/ ProposeCandidate \/ ReasonerFails \/ Refuse \/ Dispatch
    <2>1. /\ UNCHANGED abandoned /\ place \notin {"storing", "recording", "ended"}
          /\ place' # "recording"
      BY <1>2 DEF StopAtLimit, ContextTooLarge, AskReasoner, ProposeTool, ProposeCandidate,
         ReasonerFails, Refuse, Dispatch, Reasons, Terminate
    <2> QED
      BY <2>1 DEF LeftLast
  <1>3. CASE ReasonerTimesOut
    BY <1>3 DEF ReasonerTimesOut, Terminate, LeftLast
  <1>4. CASE ToolTimesOut \/ \E status \in Answers : ToolAnswers(status)
    <2>1. place = "waiting" /\ place' = "storing" /\ elapsed' \in Nat
      BY <1>4, AnswerSteps
    <2>2. PICK status \in Answers :
              /\ OnRecord(RecordOf(proposal, TRUE, status, elapsed'))
              /\ \/ abandoned' = abandoned
                 \/ abandoned' = abandoned \cup {<<"tool", iteration>>} /\ status = "TIMEOUT"
      BY <1>4, AnswerSteps
    <2>3. records'[Len(records')].status = status
      <3>1. status \in Statuses /\ proposal \in Proposal
        BY DEF Statuses, TypeOK
      <3>2. RecordOf(proposal, TRUE, status, elapsed') \in Record
        BY <2>1, <3>1, Records
      <3>3. Len(records') = Len(records) + 1
        BY <2>2, <3>2, Appended DEF OnRecord, TypeOK
      <3> QED
        BY <2>1, <2>2, <3>3, CallAdded
    <2> QED
      BY <2>1, <2>2, <2>3 DEF LeftLast
  <1>5. ASSUME place = "storing", records[Len(records)].status = "TIMEOUT"
        PROVE  Verdict(records[Len(records)]) = "TOOL_FAILURE"
    <2>1. Len(records) \in 1..Len(records)
      BY <1>5 DEF TypeOK, Paced
    <2>2. records[Len(records)].allowed
      BY <1>5, <2>1 DEF Recorded, Refusals
    <2> QED
      BY <1>5, <2>2 DEF Verdict
  <1>6. CASE StoreAndGoOn
    <2>1. /\ place = "storing" /\ Verdict(records[Len(records)]) = "None"
          /\ UNCHANGED abandoned /\ place' = "checking"
      BY <1>6 DEF StoreAndGoOn
    <2> QED
      BY <1>5, <2>1 DEF LeftLast
  <1>7. CASE StoreAndStop
    <2>1. /\ place = "storing" /\ termination' = Verdict(records[Len(records)])
          /\ UNCHANGED abandoned /\ place' = "ended"
      BY <1>7 DEF StoreAndStop, Terminate
    <2> QED
      BY <1>5, <2>1 DEF LeftLast
  <1>8. CASE StoreFails
    BY <1>8 DEF StoreFails, LeftLast
  <1>9. CASE RecordFailure
    BY <1>9 DEF RecordFailure, LeftLast
  <1> QED
    BY <1>1, <1>2, <1>3, <1>4, <1>6, <1>7, <1>8, <1>9 DEF Next

\* A run leaves at most one thread behind it, and says why.
THEOREM ThreadsDoNotPileUp == Spec => []OneThreadLeftBehind
  <1>1. Init => LeftLast
    BY DEF Init, LeftLast
  <1>2. LeftLast => OneThreadLeftBehind
    <2> SUFFICES ASSUME LeftLast PROVE OneThreadLeftBehind
      OBVIOUS
    <2>1. Cardinality(abandoned) <= 1
      <3>1. CASE abandoned = {}
        BY <3>1, FS_EmptySet
      <3>2. ASSUME NEW thread, abandoned = {thread} PROVE Cardinality(abandoned) <= 1
        BY <3>2, FS_Singleton
      <3> QED
        BY <3>1, <3>2 DEF LeftLast
    <2> QED
      BY <2>1 DEF LeftLast, OneThreadLeftBehind
  <1> QED
    BY <1>1, <1>2, Grounded, LeftLastStep, PTL DEF Spec

(***************************************************************************)
(* The loop implements the advisory loop.                                  *)
(***************************************************************************)

Stored == [i \in 1..stored |-> Outcome(records[i])]

LEMMA OutcomeTypes == \A r : Outcome(r) \in Loop!Outcomes
  BY DEF Outcome, Loop!Outcomes

LEMMA StoredLength == TypeOK => Stored \in Seq(Loop!Outcomes) /\ Len(Stored) = stored
  <1> SUFFICES ASSUME TypeOK PROVE Stored \in Seq(Loop!Outcomes) /\ Len(Stored) = stored
    OBVIOUS
  <1>1. stored \in Nat
    BY DEF TypeOK
  <1> QED
    BY <1>1, OutcomeTypes DEF Stored

\* What is stored stays what it is while further records are made.
LEMMA StoredKept ==
    ASSUME TypeOK, Paced, [Next]_vars, stored' = stored
    PROVE  Stored' = Stored
  <1>1. stored \in 0..Len(records) /\ Len(records) \in Nat
    BY DEF TypeOK
  <1>2. \A i \in 1..stored : records'[i] = records[i]
    BY <1>1, RecordsGrow
  <1> QED
    BY <1>1, <1>2 DEF Stored, Outcome

\* The last record is the one that is stored next.
LEMMA StoredNext ==
    ASSUME TypeOK, Paced, place = "storing", UNCHANGED records, stored' = Len(records)
    PROVE  /\ Stored' = Append(Stored, Outcome(records[Len(records)]))
           /\ Len(Stored) < MaxIterations
           /\ Len(records) = Len(Stored) + 1
  <1>1. /\ Len(records) = iteration /\ stored = iteration - 1 /\ iteration <= MaxIterations
        /\ iteration \in 1..(MaxIterations + 1) /\ stored \in Nat /\ MaxIterations \in Nat
    BY InvestigationAssumption DEF TypeOK, Paced
  <1>2. stored' = stored + 1 /\ Len(Stored) = stored
    BY <1>1, StoredLength
  <1> DEFINE longer == Append(Stored, Outcome(records[Len(records)]))
  <1>3. /\ longer \in Seq(Loop!Outcomes) /\ Len(longer) = stored + 1
        /\ \A i \in 1..stored : longer[i] = Stored[i]
        /\ longer[stored + 1] = Outcome(records[Len(records)])
    BY <1>1, <1>2, StoredLength, OutcomeTypes
  <1>4. longer = [i \in 1..(stored + 1) |-> longer[i]]
    BY <1>1, <1>3
  <1> HIDE DEF longer
  <1>5. \A i \in 1..(stored + 1) : longer[i] = Outcome(records'[i])
    BY <1>1, <1>3 DEF Stored
  <1>6. Stored' = [i \in 1..(stored + 1) |-> Outcome(records'[i])]
    BY <1>2 DEF Stored
  <1>7. Stored' = longer
    BY <1>4, <1>5, <1>6
  <1> QED
    BY <1>1, <1>2, <1>7 DEF longer

LEMMA LoopStep ==
    TypeOK /\ Paced /\ Recorded /\ [Next]_vars => [Loop!Next]_(Loop!vars)
  <1> SUFFICES ASSUME TypeOK, Paced, Recorded, [Next]_vars PROVE [Loop!Next]_(Loop!vars)
    OBVIOUS
  <1>1. CASE \/ StopAtLimit \/ ContextTooLarge \/ ProposeCandidate \/ ReasonerFails
             \/ ReasonerTimesOut
    <2>1. /\ place \notin {"recording", "ended"} /\ place' = "ended"
          /\ UNCHANGED <<stored, evidence>>
      BY <1>1 DEF StopAtLimit, ContextTooLarge, ProposeCandidate, ReasonerFails,
         ReasonerTimesOut, Reasons, Terminate
    <2>2. Stored' = Stored
      BY <2>1, StoredKept
    <2> QED
      BY <2>1, <2>2 DEF Loop!Next, Loop!Close, Stored
  <1>2. CASE \/ AskReasoner \/ ProposeTool \/ Refuse \/ Dispatch
             \/ ToolTimesOut \/ \E status \in Answers : ToolAnswers(status)
             \/ RecordFailure \/ UNCHANGED vars
    <2>1. /\ (place' \notin {"recording", "ended"}) = (place \notin {"recording", "ended"})
          /\ UNCHANGED <<stored, evidence>>
      <3>1. CASE ToolTimesOut \/ \E status \in Answers : ToolAnswers(status)
        BY <3>1, AnswerSteps
      <3>2. CASE \/ AskReasoner \/ ProposeTool \/ Refuse \/ Dispatch \/ RecordFailure
                 \/ UNCHANGED vars
        BY <3>2 DEF AskReasoner, ProposeTool, Reasons, Refuse, Dispatch, RecordFailure, vars
      <3> QED
        BY <1>2, <3>1, <3>2
    <2>2. Stored' = Stored
      BY <2>1, StoredKept
    <2> QED
      BY <2>1, <2>2 DEF Loop!vars, Stored
  <1>3. CASE StoreAndGoOn
    <2>1. /\ place = "storing" /\ place' = "checking" /\ stored' = Len(records)
          /\ evidence' = evidence \cup {Len(records)} /\ UNCHANGED records
          /\ Verdict(records[Len(records)]) = "None"
      BY <1>3 DEF StoreAndGoOn
    <2>2. /\ Outcome(records[Len(records)]) = "SUCCESS"
          /\ ~(Cardinality(evidence) >= MaxEvidence)
      BY <2>1 DEF Verdict, Outcome
    <2>3. Cardinality(evidence) < MaxEvidence
      <3>1. Cardinality(evidence) \in Nat
        <4>1. evidence \subseteq 1..Len(records) /\ Len(records) \in Nat
          BY DEF TypeOK
        <4>2. IsFiniteSet(1..Len(records))
          BY <4>1, FS_Interval
        <4> QED
          BY <4>1, <4>2, FS_Subset, FS_CardinalityType
      <3> QED
        BY <2>2, <3>1, InvestigationAssumption
    <2>4. /\ Stored' = Append(Stored, "SUCCESS") /\ Len(Stored) < MaxIterations
          /\ evidence' = evidence \cup {Len(Stored) + 1}
      BY <2>1, <2>2, StoredNext
    <2>5. Loop!Cardinality(evidence) = Cardinality(evidence)
      BY DEF Loop!Cardinality, Cardinality
    <2>6. Loop!Gather
      BY <2>1, <2>3, <2>4, <2>5 DEF Loop!Gather, Stored
    <2> QED
      BY <2>6 DEF Loop!Next
  <1>4. CASE StoreAndStop \/ StoreFails
    <2>1. /\ place = "storing" /\ place' \in {"recording", "ended"}
          /\ UNCHANGED <<records, evidence>>
          /\ stored' = stored \/ stored' = Len(records)
      BY <1>4 DEF StoreAndStop, StoreFails, Terminate
    <2>2. CASE stored' = stored
      BY <2>1, <2>2, StoredKept DEF Loop!Next, Loop!Close, Stored
    <2>3. CASE stored' = Len(records)
      BY <2>1, <2>3, StoredNext, OutcomeTypes DEF Loop!Next, Loop!Close, Stored
    <2> QED
      BY <2>1, <2>2, <2>3
  <1> QED
    BY <1>1, <1>2, <1>3, <1>4 DEF Next

\* The loop gathers stored successes only and is closed for good by the first
\* call that was refused, failed, or could not be stored.
THEOREM LoopIsAdvisory == Spec => IsAdvisoryLoop
  <1>1. Init => Loop!Init
    <2> SUFFICES ASSUME Init PROVE Loop!Init
      OBVIOUS
    <2>1. place = "checking" /\ stored = 0 /\ evidence = {}
      BY DEF Init
    <2>2. [i \in 1..stored |-> Outcome(records[i])] = <<>>
      BY <2>1
    <2> QED
      BY <2>1, <2>2 DEF Loop!Init
  <1> QED
    BY <1>1, Grounded, LoopStep, PTL DEF Spec, IsAdvisoryLoop, Loop!Spec
=============================================================================
