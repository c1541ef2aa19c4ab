---------------------------- MODULE MCAssessment ----------------------------
(***************************************************************************)
(* A model-checking instance of Assessment: the initial catalog and an     *)
(* action it does not have, two evidence items of the run and forged ones, *)
(* answers with up to two recommendations, and scenarios of every label.   *)
(***************************************************************************)
EXTENDS Assessment

CONSTANTS user, device, stranger, e1, e2, e3, c1, c2, c3

Recommended == {"disable_account", "isolate_device", "delete_email", "unregistered"}
Names == DOMAIN InitialCatalog \cup Recommended
AlertScope == {[entity_type |-> "USER", identifier |-> user],
               [entity_type |-> "DEVICE", identifier |-> device]}

Recommendations ==
    [catalog_action_id : Recommended,
     target : AlertScope \cup {[entity_type |-> "USER", identifier |-> stranger]},
     parameters : {{}, {"message_id"}, {"message_id", "other"}}]

Item(id, call) == [evidence_id |-> id, tool_invocation_id |-> call]
Collected == {Item(e1, c1), Item(e2, c2)}

\* Sound references, references that miss their tool call, duplicates and forgeries.
Citations ==
    {[evidence |-> <<>>, tool_calls |-> <<>>],
     [evidence |-> <<Item(e1, c1)>>, tool_calls |-> <<c1>>],
     [evidence |-> <<Item(e1, c1), Item(e2, c2)>>, tool_calls |-> <<c2, c1>>],
     [evidence |-> <<Item(e1, c1)>>, tool_calls |-> <<c2>>],
     [evidence |-> <<Item(e1, c1), Item(e1, c1)>>, tool_calls |-> <<c1>>],
     [evidence |-> <<Item(e1, c1)>>, tool_calls |-> <<c1, c1>>],
     [evidence |-> <<Item(e1, c2)>>, tool_calls |-> <<c2>>],
     [evidence |-> <<Item(e1, NoCall)>>, tool_calls |-> <<>>],
     [evidence |-> <<Item(e3, c1)>>, tool_calls |-> <<c1>>],
     [evidence |-> <<>>, tool_calls |-> <<c3>>]}

Assessments ==
    {[disposition |-> d, evidence |-> c.evidence, tool_calls |-> c.tool_calls,
      recommended_actions |-> r, escalation_required |-> q, escalation_reason |-> x] :
        d \in {"MALICIOUS", "NEEDS_REVIEW"}, c \in Citations,
        r \in BoundedSeq(Recommendations, 2), q \in BOOLEAN, x \in {"None", "candidate"}}

ProviderAnswersTried ==
    {[disposition |-> d, evidence_reference_ids |-> ids, tool_call_reference_ids |-> calls,
      recommended_actions |-> r, escalation_required |-> q, escalation_reason |-> x,
      blank |-> b] :
        d \in {"BENIGN", "SUSPICIOUS", "NEEDS_REVIEW"},
        ids \in {<<>>, <<e1>>, <<e1, e1>>, <<e2, e1>>, <<e3>>},
        calls \in {<<>>, <<c1>>, <<c1, c2>>, <<c3>>},
        r \in BoundedSeq(Recommendations, 1), q \in BOOLEAN, x \in {"None", "candidate"},
        b \in BOOLEAN}

Call(tool, outcome) == [tool_name |-> tool, outcome |-> outcome]
Invocations == <<Call("get_user_risk", "SUCCESS"), Call("get_mfa_events", "SUCCESS"),
                 Call("get_user_risk", "DUPLICATE_REQUEST")>>

Scenario(dispositions, label, escalation, forbidden, actions) ==
    [allowed_dispositions |-> dispositions, binary_label |-> label,
     expected_escalation |-> escalation,
     required_tools |-> {"get_user_risk"},
     allowed_tools |-> {"get_user_risk", "get_mfa_events"} \ forbidden,
     forbidden_tools |-> forbidden, expected_actions |-> actions,
     expected_approval_actions |-> actions]

\* The labels of evaluations/v1/manifest.json, each with its first disposition.
Suite ==
    {Scenario(<<"BENIGN", "NEEDS_REVIEW">>, "NON_MALICIOUS", FALSE, {"get_mfa_events"}, {}),
     Scenario(<<"SUSPICIOUS", "NEEDS_REVIEW">>, "AMBIGUOUS", TRUE, {}, {}),
     Scenario(<<"NEEDS_REVIEW">>, "AMBIGUOUS", TRUE, {}, {}),
     Scenario(<<"MALICIOUS">>, "MALICIOUS", TRUE, {}, {"disable_account"})}
=============================================================================
