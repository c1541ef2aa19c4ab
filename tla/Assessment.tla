----------------------------- MODULE Assessment -----------------------------
(***************************************************************************)
(* The last turn of TriageOrchestrator.run (application/orchestrator.py):  *)
(* the reasoner's final step, the check of the references it cites, the    *)
(* policy's decision (Policy) and the reason code of the outcome, with the *)
(* provider's reasoner (adapters/reasoners/openai.py) as one of those that *)
(* may answer, and what an evaluation makes of the outcome (Scoring).      *)
(*                                                                         *)
(* A provider's answer names evidence and tool calls by identifier, and    *)
(* its actions by a schema of the reasoner's own.  Any text of it that the *)
(* domain wants to be non-empty and is empty makes it `blank`.             *)
(***************************************************************************)
EXTENDS Policy, Scoring

CONSTANTS
    Available,    \* the references of the evidence this run has accumulated
    Answers,      \* the provider's final answers that are tried
    Scenarios,    \* the evaluation scenarios that are tried
    ToolCalls     \* the tool calls of the run, as an evaluation finds them stored

\* The provider's final answer, as its schema has it.
Answer ==
    [disposition : Dispositions, evidence_reference_ids : Seq(EvidenceIds),
     tool_call_reference_ids : Seq(CallIds), recommended_actions : Seq(Recommendation),
     escalation_required : BOOLEAN, escalation_reason : {"None", "candidate"},
     blank : BOOLEAN]

ASSUME AssessmentAssumption ==
    /\ Answers \subseteq Answer
    /\ Available \subseteq Evidence
    /\ \A a, b \in Available : a.evidence_id = b.evidence_id => a = b
    /\ IsFiniteSet(Scenarios)
    /\ \A scenario \in Scenarios : IsScenario(scenario)

VARIABLES
    reasoner,   \* whose answer it is: the provider's, or another reasoner's
    turn,       \* "asking", then "ended"
    reason      \* OrchestrationReasonCode, "None" until it is known

turnVars == <<reasoner, turn, reason>>
assessmentVars == <<place, candidate, next, issued, reasons, accepted, approvals, rejected,
                    decision, reasoner, turn, reason>>

AvailableCalls == {item.tool_invocation_id : item \in Available}

\* What ends a run without a candidate, the refused references apart.
Terminations == {"REASONER_FAILURE", "INVALID_REASONER_OUTPUT", "ITERATION_LIMIT",
                 "DEADLINE_EXCEEDED", "CONTEXT_LIMIT", "TOOL_REQUEST_DENIED", "TOOL_FAILURE"}

-----------------------------------------------------------------------------
(* The provider's answer *)

\* The schema of the provider's action proposals: the parameters of each action.
ProviderActions ==
    [disable_account  |-> {},
     revoke_sessions  |-> {},
     reset_password   |-> {},
     isolate_device   |-> {},
     delete_email     |-> {"message_id"},
     remove_privilege |-> {"privilege_id"}]

ConformsToSchema(answer) ==
    \A proposal \in ToSet(answer.recommended_actions) :
        /\ proposal.catalog_action_id \in DOMAIN ProviderActions
        /\ proposal.parameters = ProviderActions[proposal.catalog_action_id]

KnownReferences(answer) ==
    /\ ToSet(answer.evidence_reference_ids) \subseteq {item.evidence_id : item \in Available}
    /\ ToSet(answer.tool_call_reference_ids) \subseteq AvailableCalls

\* OpenAICandidateAssessment.to_domain
ToDomain(answer) ==
    LET Referenced(id) == CHOOSE item \in Available : item.evidence_id = id IN
    [disposition |-> answer.disposition,
     evidence |-> [i \in DOMAIN answer.evidence_reference_ids |->
                      Referenced(answer.evidence_reference_ids[i])],
     recommended_actions |-> answer.recommended_actions,
     escalation_required |-> answer.escalation_required,
     escalation_reason |-> answer.escalation_reason,
     tool_calls |-> answer.tool_call_reference_ids]

-----------------------------------------------------------------------------
(* The turn *)

TurnInit ==
    /\ place = "received"
    /\ candidate = Malformed
    /\ next = 1
    /\ issued = 0
    /\ reasons = {}
    /\ accepted = <<>>
    /\ approvals = <<>>
    /\ rejected = <<>>
    /\ decision = SafeReview
    /\ reasoner \in {"provider", "another"}
    /\ turn = "asking"
    /\ reason = "None"

\* Mutant: items are compared by their identifiers.
ReferencesById(c) ==
    /\ {e.evidence_id : e \in ToSet(c.evidence)} \subseteq
           {item.evidence_id : item \in Available}
    /\ ToSet(c.tool_calls) \subseteq AvailableCalls

\* _candidate_references_are_valid compares whole items.
ReferencesAreValid(c) ==
    /\ ToSet(c.evidence) \subseteq Available
    /\ ToSet(c.tool_calls) \subseteq AvailableCalls

\* Without a candidate the policy is given the orchestrator's placeholder.
EndWith(termination) ==
    /\ turn' = "ended"
    /\ reason' = termination
    /\ UNCHANGED candidate

Consider(c) ==
    \/ /\ ReferencesAreValid(c)
       /\ candidate' = c
       /\ turn' = "ended"
       /\ UNCHANGED reason
    \/ /\ ~ReferencesAreValid(c)
       /\ EndWith("EVIDENCE_REFERENCE_VIOLATION")

\* next_step of the provider's reasoner, answered with a final assessment: whatever
\* cannot be made one raises, and the orchestrator takes it for a failure.
ProviderAnswers ==
    /\ reasoner = "provider"
    /\ \E answer \in Answers :
        \/ /\ ConformsToSchema(answer) /\ KnownReferences(answer) /\ ~answer.blank
           /\ Consider(ToDomain(answer))
        \/ /\ ~(ConformsToSchema(answer) /\ KnownReferences(answer) /\ ~answer.blank)
           /\ EndWith("REASONER_FAILURE")

\* Any other reasoner hands over a candidate of its own making.
ReasonerAnswers ==
    /\ reasoner = "another"
    /\ \E c \in Candidates : Consider(c)

\* The run ends in another way: the provider fails, or a step was no candidate.
Terminate == \E termination \in Terminations : EndWith(termination)

TakeTurn ==
    /\ turn = "asking"
    /\ ProviderAnswers \/ ReasonerAnswers \/ Terminate
    /\ UNCHANGED <<place, next, issued, lists, decision, reasoner>>

\* _safe_policy_decision or evaluate, and the reason code that follows from it.
Decide ==
    /\ turn = "ended"
    /\ Next
    /\ reason' = IF place' # "decided" \/ reason # "None" THEN reason
                 ELSE IF decision'.result.disposition = "NEEDS_REVIEW"
                      THEN "POLICY_SAFE_REVIEW" ELSE "COMPLETED"
    /\ UNCHANGED <<reasoner, turn>>

AssessmentNext == TakeTurn \/ Decide
AssessmentSpec == TurnInit /\ [][AssessmentNext]_assessmentVars

-----------------------------------------------------------------------------
(* Properties *)

\* What an assessment rests on is evidence of this very run, item by item, whichever
\* reasoner made it up; and the provider's reasoner, whose references are looked up and
\* whose actions are typed, causes neither a reference violation nor the rejection of
\* an unknown or ill-parameterised action.
AssessmentsCiteTheContext ==
    Decided =>
        /\ ToSet(decision.result.evidence) \subseteq Available
        /\ ToSet(decision.result.tool_calls) \subseteq AvailableCalls
        /\ decision.result.disposition # "NEEDS_REVIEW" =>
               \E item \in Available : item \in ToSet(decision.result.evidence)
        /\ reasoner = "provider" =>
               /\ reason # "EVIDENCE_REFERENCE_VIOLATION"
               /\ decision.reason_codes
                      \cap {"UNKNOWN_ACTION", "INVALID_ACTION_PARAMETERS"} = {}

\* The outcome of run, once stored, and the one of a run that could not be stored.
Returned == [durable |-> TRUE, reason_code |-> reason, result |-> decision.result,
             reason_codes |-> decision.reason_codes]
NotStored == [durable |-> FALSE, reason_code |-> "PERSISTENCE_FAILURE",
              result |-> NoResult, reason_codes |-> {}]

Overruled == candidate = Malformed \/ decision = SafeReview \/ ~Sound(candidate)

\* A score tells what the policy did.  A candidate that was overruled, or that never
\* came, is a forced review and is given credit for no other disposition; the forced
\* reviews beside are those a sound candidate concluded with on its own and did not
\* escalate, which have the one code ACCEPTED.  Flags of attempted actions are about
\* recommendations the candidate did make.
ScoreFollows(scenario) ==
    LET score == ScoreCase(scenario, Returned, ToolCalls) IN
    /\ Overruled =>
           /\ score.policy_forced_safe_review
           /\ score.actual_disposition = "NEEDS_REVIEW"
    /\ score.policy_forced_safe_review /\ ~Overruled =>
           /\ candidate.disposition = "NEEDS_REVIEW"
           /\ ~candidate.escalation_required
           /\ score.policy_reason_codes = {"ACCEPTED"}
    /\ score.unknown_action_attempted \/ score.out_of_scope_action_attempted =>
           /\ candidate # Malformed
           /\ \E r \in ToSet(candidate.recommended_actions) : ~Permitted(r)
    /\ score.orchestration_bound_reached \/ score.candidate_reference_violation =>
           decision = SafeReview
    /\ score.approval_requirement_preserved <=>
           scenario.expected_approval_actions = ActionNamesOf(decision.result)

\* What no validator of a scenario demands: its label agrees with the first of the
\* dispositions it expects.
LabelsAgree ==
    \A scenario \in Scenarios :
        LET first == scenario.allowed_dispositions[1] IN
        /\ scenario.binary_label = "MALICIOUS" => first = "MALICIOUS"
        /\ scenario.binary_label = "NON_MALICIOUS" => first # "MALICIOUS"

\* The scores of a suite that is run on this outcome and once without a stored one.
SuiteScores ==
    LET suite == SetToSeq(Scenarios) IN
    [i \in 1..(2 * Len(suite)) |->
        IF i <= Len(suite) THEN ScoreCase(suite[i], Returned, ToolCalls)
                           ELSE ScoreCase(suite[i - Len(suite)], NotStored, <<>>)]

\* Every case is counted once in each breakdown, and as long as the labels agree, both
\* rates are rates.
AggregateHolds ==
    LET report == AggregateScores(SuiteScores)
    IN  /\ report.exact_count + report.acceptable_count + report.failure_count
               = report.scenario_count
        /\ MapThenSumSet(LAMBDA p : report.confusion_matrix[p],
                         DOMAIN report.confusion_matrix) = report.scenario_count
        /\ LabelsAgree =>
               /\ report.false_positives <= report.non_malicious_ground_truth_count
               /\ report.false_negatives <= report.malicious_ground_truth_count
        /\ report.failure_count >= Cardinality(Scenarios)

ScoresFollowTheDecision ==
    Decided => AggregateHolds /\ \A scenario \in Scenarios : ScoreFollows(scenario)
=============================================================================
