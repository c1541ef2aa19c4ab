------------------------------- MODULE Policy -------------------------------
(***************************************************************************)
(* DeterministicPolicy (application/policy.py): one evaluation of an       *)
(* untrusted candidate assessment, recommendation by recommendation, and   *)
(* the validation of the TriageResult it ends in (domain/triage.py).       *)
(*                                                                         *)
(* An evidence item is its identifier and the tool call it came from.      *)
(* Severity, confidence, summaries and times are copied unread and are     *)
(* left out.  A target is its scope key.  SHA-256 over an action's         *)
(* canonical JSON is injective here: the digest is the material itself.    *)
(***************************************************************************)
EXTENDS ActionCatalog, SequencesExt

CONSTANTS
    Catalog,      \* ActionCatalog: a definition for each registered action
    ActionNames,  \* names a recommendation may use
    Identifiers,  \* identifiers of entities
    Scope,        \* AuthorizedActionScope.keys: the entities of the alert
    EvidenceIds,
    CallIds,      \* tool invocations
    NoCall,       \* evidence that no tool collected
    Candidates,   \* the candidate assessments that are evaluated
    Malformed     \* a payload that is no CandidateAssessment

Dispositions == {"BENIGN", "SUSPICIOUS", "MALICIOUS", "NEEDS_REVIEW"}
Target == [entity_type : EntityType, identifier : Identifiers]
Evidence == [evidence_id : EvidenceIds, tool_invocation_id : CallIds \cup {NoCall}]
Recommendation ==
    [catalog_action_id : ActionNames, target : Target, parameters : SUBSET ParameterName]

\* ActionProposal: a recommendation and an identifier of the application's own.
Proposal ==
    [action_id : Nat, catalog_action_id : ActionNames, target : Target,
     parameters : SUBSET ParameterName]

\* CandidateAssessment
Candidate ==
    [disposition : Dispositions, evidence : Seq(Evidence),
     recommended_actions : Seq(Recommendation), escalation_required : BOOLEAN,
     escalation_reason : {"None", "candidate"}, tool_calls : Seq(CallIds)]

ASSUME PolicyAssumption ==
    /\ IsCatalog(Catalog)
    /\ DOMAIN Catalog \subseteq ActionNames
    /\ Scope \subseteq Target
    /\ NoCall \notin CallIds
    /\ Candidates \subseteq Candidate
    /\ Malformed \notin Candidates

RefusalCodes == {"UNKNOWN_ACTION", "UNSUPPORTED_TARGET_TYPE",
                 "ACTION_TARGET_OUT_OF_SCOPE", "INVALID_ACTION_PARAMETERS"}
ForcingCodes == RefusalCodes \cup {"INSUFFICIENT_EVIDENCE"}
ReasonCodes == ForcingCodes \cup {"ACCEPTED", "CANDIDATE_INVALID", "CANDIDATE_ESCALATION"}

VARIABLES
    place,      \* where the evaluation is
    candidate,  \* the payload
    next,       \* the recommendation looked at next
    issued,     \* identifiers the factory has handed out
    reasons,    \* evaluate's reason codes; their order tells nothing
    accepted, approvals, rejected,   \* evaluate's other lists
    decision    \* PolicyDecision: what evaluate returned, once decided

lists == <<reasons, accepted, approvals, rejected>>
vars == <<place, candidate, next, issued, reasons, accepted, approvals, rejected, decision>>

-----------------------------------------------------------------------------
(* Actions and references *)

\* ActionRecommendation.digest
Material(a) ==
    [catalog_action_id |-> a.catalog_action_id, target |-> a.target,
     parameters |-> a.parameters]

\* Mutant: one identifier for all actions of the evaluation.
CanonicalOnce(r, id) ==
    [action_id |-> 1, catalog_action_id |-> r.catalog_action_id,
     target |-> r.target, parameters |-> r.parameters]

\* ActionRecommendation.canonicalize
Canonical(r, id) ==
    [action_id |-> id, catalog_action_id |-> r.catalog_action_id,
     target |-> r.target, parameters |-> r.parameters]

\* ActionReference.from_proposal
Reference(a) == [action_id |-> a.action_id, action_digest |-> Material(a)]

\* Mutant: an unregistered name counts as a malformed candidate.
RefusalOfUnknown(r) ==
    IF r.catalog_action_id \notin DOMAIN Catalog THEN "CANDIDATE_INVALID" ELSE "None"

\* Mutant: the scope of the alert is forgotten.
RefusalWithoutScope(r) ==
    IF r.catalog_action_id \notin DOMAIN Catalog THEN "UNKNOWN_ACTION"
    ELSE IF r.target.entity_type \notin Catalog[r.catalog_action_id].target_types
             THEN "UNSUPPORTED_TARGET_TYPE"
    ELSE IF r.parameters # Catalog[r.catalog_action_id].parameters
             THEN "INVALID_ACTION_PARAMETERS"
    ELSE "None"

\* The first of the checks in the loop that a recommendation fails.
Refusal(r) ==
    IF r.catalog_action_id \notin DOMAIN Catalog THEN "UNKNOWN_ACTION"
    ELSE LET definition == Catalog[r.catalog_action_id] IN
         IF r.target.entity_type \notin definition.target_types
             THEN "UNSUPPORTED_TARGET_TYPE"
         ELSE IF r.target \notin Scope THEN "ACTION_TARGET_OUT_OF_SCOPE"
         ELSE IF r.parameters # definition.parameters THEN "INVALID_ACTION_PARAMETERS"
         ELSE "None"

-----------------------------------------------------------------------------
(* Results and decisions *)

Result ==
    [disposition : Dispositions, evidence : Seq(Evidence),
     recommended_actions : Seq(Proposal),
     actions_requiring_approval :
         Seq([action_id : Nat, action_digest : Recommendation]),
     escalation_required : BOOLEAN,
     escalation_reason : {"None", "candidate", "default", "policy"},
     tool_calls : Seq(CallIds)]

Decision ==
    [result : Result, reason_codes : SUBSET ReasonCodes,
     accepted_action_ids : Seq(Nat),
     rejected_actions : Seq([catalog_action_id : ActionNames, reason_code : RefusalCodes])]

Column(s, field) == [i \in DOMAIN s |-> s[i][field]]

\* TriageResult.validate_cross_references
Validates(result) ==
    /\ result.escalation_required <=> result.escalation_reason # "None"
    /\ IsInjective(Column(result.evidence, "evidence_id"))
    /\ IsInjective(result.tool_calls)
    /\ IsInjective(Column(result.recommended_actions, "action_id"))
    /\ IsInjective(Column(result.actions_requiring_approval, "action_id"))
    /\ \A i \in DOMAIN result.evidence :
           result.evidence[i].tool_invocation_id \in ToSet(result.tool_calls) \cup {NoCall}
    /\ \A i \in DOMAIN result.actions_requiring_approval :
           \E j \in DOMAIN result.recommended_actions :
               Reference(result.recommended_actions[j])
                   = result.actions_requiring_approval[i]

\* _safe_review
SafeReview ==
    [result |->
         [disposition |-> "NEEDS_REVIEW", evidence |-> <<>>, recommended_actions |-> <<>>,
          actions_requiring_approval |-> <<>>, escalation_required |-> TRUE,
          escalation_reason |-> "policy", tool_calls |-> <<>>],
     reason_codes |-> {"CANDIDATE_INVALID"},
     accepted_action_ids |-> <<>>,
     rejected_actions |-> <<>>]

-----------------------------------------------------------------------------
Init ==
    /\ place = "received"
    /\ candidate \in Candidates \cup {Malformed}
    /\ next = 1
    /\ issued = 0
    /\ reasons = {}
    /\ accepted = <<>>
    /\ approvals = <<>>
    /\ rejected = <<>>
    /\ decision = SafeReview

\* evaluate_untrusted, when the payload is no CandidateAssessment.
RefusePayload ==
    /\ place = "received"
    /\ candidate = Malformed
    /\ place' = "decided"
    /\ decision' = SafeReview
    /\ UNCHANGED <<candidate, next, issued, lists>>

\* A conclusive disposition needs evidence.
CheckEvidence ==
    /\ place = "received"
    /\ candidate # Malformed
    /\ reasons' = IF candidate.disposition # "NEEDS_REVIEW" /\ candidate.evidence = <<>>
                  THEN {"INSUFFICIENT_EVIDENCE"} ELSE {}
    /\ place' = "recommendations"
    /\ UNCHANGED <<candidate, next, issued, accepted, approvals, rejected, decision>>

RejectAction ==
    /\ place = "recommendations"
    /\ next <= Len(candidate.recommended_actions)
    /\ LET action == candidate.recommended_actions[next]
           reason == Refusal(action) IN
       /\ reason # "None"
       /\ reasons' = reasons \cup {reason}
       /\ rejected' = Append(rejected,
              [catalog_action_id |-> action.catalog_action_id, reason_code |-> reason])
    /\ next' = next + 1
    /\ UNCHANGED <<place, candidate, issued, accepted, approvals, decision>>

\* Mutant: approvals told apart by the digest, which leaves the identifier out.
AcceptActionOnce ==
    /\ place = "recommendations"
    /\ next <= Len(candidate.recommended_actions)
    /\ LET action == candidate.recommended_actions[next]
           canonical == Canonical(action, issued + 1) IN
       /\ Refusal(action) = "None"
       /\ accepted' = Append(accepted, canonical)
       /\ approvals' = IF \E a \in ToSet(approvals) : a.action_digest = Material(canonical)
                       THEN approvals ELSE Append(approvals, Reference(canonical))
    /\ issued' = issued + 1
    /\ next' = next + 1
    /\ UNCHANGED <<place, candidate, reasons, rejected, decision>>

AcceptAction ==
    /\ place = "recommendations"
    /\ next <= Len(candidate.recommended_actions)
    /\ LET action == candidate.recommended_actions[next]
           canonical == Canonical(action, issued + 1) IN
       /\ Refusal(action) = "None"
       /\ accepted' = Append(accepted, canonical)
       /\ approvals' = IF Catalog[action.catalog_action_id].approval_required
                       THEN Append(approvals, Reference(canonical)) ELSE approvals
    /\ issued' = issued + 1
    /\ next' = next + 1
    /\ UNCHANGED <<place, candidate, reasons, rejected, decision>>

\* Mutant: a code that the set of forcing reasons leaves out.
ForcedReviewButParameters ==
    reasons \cap (ForcingCodes \ {"INVALID_ACTION_PARAMETERS"}) # {}

ForcedReview == reasons \cap ForcingCodes # {}

\* The TriageResult that evaluate builds from its lists.
Enforced ==
    [disposition |-> IF ForcedReview THEN "NEEDS_REVIEW" ELSE candidate.disposition,
     evidence |-> candidate.evidence,
     recommended_actions |-> accepted,
     actions_requiring_approval |-> approvals,
     escalation_required |-> candidate.escalation_required \/ ForcedReview,
     escalation_reason |->
         IF ForcedReview THEN "policy"
         ELSE IF ~candidate.escalation_required THEN "None"
         ELSE IF candidate.escalation_reason = "None" THEN "default" ELSE "candidate",
     tool_calls |-> candidate.tool_calls]

\* Mutant: ACCEPTED whenever no rule fired, beside the candidate's escalation.
CodesWithAccepted ==
    (IF candidate.escalation_required THEN {"CANDIDATE_ESCALATION"} ELSE {})
        \cup (IF reasons = {} THEN {"ACCEPTED"} ELSE reasons)

Codes ==
    LET escalated == IF candidate.escalation_required
                     THEN reasons \cup {"CANDIDATE_ESCALATION"} ELSE reasons
    IN  IF escalated = {} THEN {"ACCEPTED"} ELSE escalated

\* What evaluate returns once every recommendation has been looked at.
Concluded ==
    IF Validates(Enforced)
    THEN [result |-> Enforced, reason_codes |-> Codes,
          accepted_action_ids |-> Column(accepted, "action_id"),
          rejected_actions |-> rejected]
    ELSE SafeReview

Conclude ==
    /\ place = "recommendations"
    /\ next > Len(candidate.recommended_actions)
    /\ decision' = Concluded
    /\ place' = "decided"
    /\ UNCHANGED <<candidate, next, issued, lists>>

Next == RefusePayload \/ CheckEvidence \/ RejectAction \/ AcceptAction \/ Conclude
Spec == Init /\ [][Next]_vars /\ WF_vars(Next)

-----------------------------------------------------------------------------
(* Properties *)

\* The evaluation's locals keep their types.
TypeOK ==
    /\ place \in {"received", "recommendations", "decided"}
    /\ candidate \in Candidates \cup {Malformed}
    /\ next \in Nat \ {0}
    /\ issued \in Nat
    /\ reasons \subseteq ReasonCodes
    /\ accepted \in Seq(Proposal)
    /\ approvals \in Seq([action_id : Nat, action_digest : Recommendation])
    /\ rejected \in Seq([catalog_action_id : ActionNames, reason_code : RefusalCodes])
    /\ decision \in Decision

Decided == place = "decided"

\* What the reasoner may ask for: a registered action, on an entity of the alert of
\* a type the action is for, with the parameters it declares.
Permitted(r) ==
    /\ r.catalog_action_id \in DOMAIN Catalog
    /\ r.target \in Scope
    /\ r.target.entity_type \in Catalog[r.catalog_action_id].target_types
    /\ r.parameters = Catalog[r.catalog_action_id].parameters

\* The candidate's references are traceable: no identifier twice, and every
\* tool-origin evidence item names a tool call of the same assessment.
Traceable(c) ==
    /\ IsInjective(Column(c.evidence, "evidence_id"))
    /\ IsInjective(c.tool_calls)
    /\ \A e \in ToSet(c.evidence) : e.tool_invocation_id \in ToSet(c.tool_calls) \cup {NoCall}

\* The enforcement rules, stated of the whole candidate.
Sound(c) ==
    /\ c.disposition # "NEEDS_REVIEW" => c.evidence # <<>>
    /\ \A r \in ToSet(c.recommended_actions) : Permitted(r)

\* A candidate is replaced by the bare safe review only when it is malformed or its
\* references are not traceable: nothing that evaluate itself builds (identifiers,
\* approvals, the escalation reason) ever fails the validation of the result, which
\* would hide the candidate from the reviewer.
OnlyBrokenCandidatesAreDiscarded ==
    Decided =>
        (decision = SafeReview <=> candidate = Malformed \/ ~Traceable(candidate))

\* The permitted ones among the first i recommendations.
PermittedUpTo(i) == {k \in 1..i : Permitted(candidate.recommended_actions[k])}

\* The result's actions are the permitted recommendations, all of them, in their
\* order and unaltered, under identifiers of their own; the rejected list has the rest.
EveryRecommendationIsAnswered ==
    Decided /\ decision # SafeReview =>
        LET asked == candidate.recommended_actions
            actions == decision.result.recommended_actions
            refused == decision.rejected_actions
            Place(i) == Cardinality(PermittedUpTo(i)) IN
        /\ Len(actions) = Place(Len(asked))
        /\ Len(refused) = Len(asked) - Place(Len(asked))
        /\ IsInjective(Column(actions, "action_id"))
        /\ \A i \in DOMAIN asked :
               IF Permitted(asked[i]) THEN Material(actions[Place(i)]) = asked[i]
               ELSE refused[i - Place(i)].catalog_action_id = asked[i].catalog_action_id

\* No action reaches the store without a pending approval that names it and binds its
\* exact material, and no approval is asked for anything else.
ApprovalsBindTheActions ==
    Decided =>
        /\ Column(decision.result.actions_requiring_approval, "action_id")
               = decision.accepted_action_ids
        /\ \A i \in DOMAIN decision.result.recommended_actions :
               decision.result.actions_requiring_approval[i]
                   = Reference(decision.result.recommended_actions[i])

\* Violations force a human review and nothing else does: the candidate's disposition
\* survives exactly when the candidate is sound, and the result is escalated exactly
\* when it is not or the candidate asked for it.
ViolationsForceReview ==
    Decided /\ decision # SafeReview =>
        /\ decision.result.disposition
               = IF Sound(candidate) THEN candidate.disposition ELSE "NEEDS_REVIEW"
        /\ decision.result.escalation_required
               <=> candidate.escalation_required \/ ~Sound(candidate)

\* The audited reason codes tell of a violation exactly when there is one, of the
\* candidate's own escalation exactly when it asked for it, and ACCEPTED only alone.
ReasonsAreComplete ==
    Decided /\ decision # SafeReview =>
        /\ decision.reason_codes \cap ForcingCodes = {} <=> Sound(candidate)
        /\ "CANDIDATE_ESCALATION" \in decision.reason_codes <=> candidate.escalation_required
        /\ "ACCEPTED" \in decision.reason_codes <=> decision.reason_codes = {"ACCEPTED"}
=============================================================================
