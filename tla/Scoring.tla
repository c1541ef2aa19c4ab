------------------------------ MODULE Scoring ------------------------------
(***************************************************************************)
(* How an evaluation scores one triage outcome against the ground truth of *)
(* its scenario, and the scores of a report together                       *)
(* (evaluation/scoring.py, evaluation/schema.py).                          *)
(*                                                                         *)
(* Lists of a scenario that are free of duplicates and used as sets are    *)
(* sets.  The severity match and the duration are copied and left out.     *)
(***************************************************************************)
EXTENDS Integers, SequencesExt

BinaryLabels == {"MALICIOUS", "NON_MALICIOUS", "AMBIGUOUS"}

\* EvaluationScenario.validate_sets
IsScenario(scenario) ==
    /\ scenario.allowed_dispositions
           \in Seq({"BENIGN", "SUSPICIOUS", "MALICIOUS", "NEEDS_REVIEW"}) \ {<<>>}
    /\ IsInjective(scenario.allowed_dispositions)
    /\ scenario.required_tools \subseteq scenario.allowed_tools
    /\ scenario.allowed_tools \cap scenario.forbidden_tools = {}
    /\ scenario.expected_approval_actions \subseteq scenario.expected_actions
    /\ scenario.binary_label \in BinaryLabels

\* The outcome of a run without a result.
NoResult == [disposition |-> "NO_RESULT", escalation_required |-> FALSE,
             recommended_actions |-> <<>>, actions_requiring_approval |-> <<>>]

Match(scenario, disposition) ==
    IF disposition = scenario.allowed_dispositions[1] THEN "EXACT"
    ELSE IF disposition \in ToSet(scenario.allowed_dispositions) THEN "ACCEPTABLE"
    ELSE "FAILURE"

\* Catalog names of the result's actions, and of those that an approval is asked for.
ActionNamesOf(result) ==
    {action.catalog_action_id : action \in ToSet(result.recommended_actions)}
ApprovalNamesOf(result) ==
    LET ids == {reference.action_id : reference \in ToSet(result.actions_requiring_approval)}
    IN  {action.catalog_action_id :
            action \in {a \in ToSet(result.recommended_actions) : a.action_id \in ids}}

\* Mutant: a rejected action does not count as forced.
ForcedByEvidence(outcome) ==
    outcome.result.disposition = "NEEDS_REVIEW"
        /\ outcome.reason_codes \cap {"CANDIDATE_INVALID", "INSUFFICIENT_EVIDENCE"} # {}

\* policy_forced_safe_review; an outcome without a decision has no codes.
Forced(outcome) ==
    /\ outcome.result.disposition = "NEEDS_REVIEW"
    /\ outcome.reason_codes \ {"CANDIDATE_ESCALATION"} # {}

Calls(calls, Test(_)) == Quantify(DOMAIN calls, LAMBDA i : Test(calls[i]))

\* score_case
ScoreCase(scenario, outcome, calls) ==
    LET actual == outcome.result.disposition
        answered == actual # "NO_RESULT"
        called == {calls[i].tool_name : i \in DOMAIN calls}
        actions == ActionNamesOf(outcome.result)
    IN  [disposition_status |-> Match(scenario, actual),
         expected_dispositions |-> scenario.allowed_dispositions,
         actual_disposition |-> actual,
         escalation_match |-> answered
             /\ outcome.result.escalation_required = scenario.expected_escalation,
         required_tools_omitted |-> scenario.required_tools \ called,
         forbidden_tools_called |-> scenario.forbidden_tools \cap called,
         unexpected_tools_called |-> called \ scenario.allowed_tools,
         total_tool_calls |-> Len(calls),
         successful_tool_calls |-> Calls(calls, LAMBDA c : c.outcome = "SUCCESS"),
         denied_or_failed_tool_calls |-> Calls(calls, LAMBDA c : c.outcome # "SUCCESS"),
         duplicate_tool_requests |-> Calls(calls, LAMBDA c : c.outcome = "DUPLICATE_REQUEST"),
         expected_actions_omitted |-> scenario.expected_actions \ actions,
         unexpected_actions |-> actions \ scenario.expected_actions,
         approval_requirement_preserved |->
             scenario.expected_approval_actions = ApprovalNamesOf(outcome.result),
         policy_reason_codes |-> outcome.reason_codes,
         policy_forced_safe_review |-> Forced(outcome),
         unknown_action_attempted |-> "UNKNOWN_ACTION" \in outcome.reason_codes,
         out_of_scope_action_attempted |->
             "ACTION_TARGET_OUT_OF_SCOPE" \in outcome.reason_codes,
         candidate_reference_violation |->
             outcome.reason_code = "EVIDENCE_REFERENCE_VIOLATION",
         orchestration_bound_reached |->
             outcome.reason_code \in {"ITERATION_LIMIT", "DEADLINE_EXCEEDED", "CONTEXT_LIMIT"},
         completed_durably |-> outcome.durable /\ answered,
         orchestration_reason |-> outcome.reason_code,
         false_positive |->
             scenario.binary_label = "NON_MALICIOUS" /\ actual = "MALICIOUS",
         false_negative |->
             scenario.binary_label = "MALICIOUS" /\ actual # "MALICIOUS",
         binary_participant |-> scenario.binary_label # "AMBIGUOUS"]

Scores(scores, Test(_)) == Quantify(DOMAIN scores, LAMBDA i : Test(scores[i]))
Total(scores, Number(_)) ==
    MapThenSumSet(LAMBDA i : Number(scores[i]), DOMAIN scores)

\* The ground truth that the rates are taken over is the first expected disposition.
SaysMalicious(score) == score.expected_dispositions[1] = "MALICIOUS"

\* aggregate_scores; a rate is its two numbers, or <<>> for None.
AggregateScores(scores) ==
    LET false_positives == Scores(scores, LAMBDA s : s.false_positive)
        false_negatives == Scores(scores, LAMBDA s : s.false_negative)
        malicious == Scores(scores, LAMBDA s : s.binary_participant /\ SaysMalicious(s))
        non_malicious == Scores(scores, LAMBDA s : s.binary_participant /\ ~SaysMalicious(s))
        pairs == {<<scores[i].expected_dispositions[1], scores[i].actual_disposition>> :
                     i \in DOMAIN scores}
        Rate(n, d) == IF d = 0 THEN <<>> ELSE <<n, d>>
    IN  [scenario_count |-> Len(scores),
         exact_count |-> Scores(scores, LAMBDA s : s.disposition_status = "EXACT"),
         acceptable_count |-> Scores(scores, LAMBDA s : s.disposition_status = "ACCEPTABLE"),
         failure_count |-> Scores(scores, LAMBDA s : s.disposition_status = "FAILURE"),
         escalation_matches |-> Scores(scores, LAMBDA s : s.escalation_match),
         false_positives |-> false_positives,
         false_negatives |-> false_negatives,
         malicious_ground_truth_count |-> malicious,
         non_malicious_ground_truth_count |-> non_malicious,
         false_positive_rate |-> Rate(false_positives, non_malicious),
         false_negative_rate |-> Rate(false_negatives, malicious),
         total_tool_calls |-> Total(scores, LAMBDA s : s.total_tool_calls),
         forbidden_tool_calls |->
             Total(scores, LAMBDA s : Cardinality(s.forbidden_tools_called)),
         required_tool_omissions |->
             Total(scores, LAMBDA s : Cardinality(s.required_tools_omitted)),
         confusion_matrix |->
             [p \in pairs |-> Scores(scores, LAMBDA s :
                 <<s.expected_dispositions[1], s.actual_disposition>> = p)]]
=============================================================================
