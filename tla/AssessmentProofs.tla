--------------------------- MODULE AssessmentProofs ---------------------------
(***************************************************************************)
(* Proofs about Policy and Assessment, for every catalog, scope and set of *)
(* candidates.  The inductive invariant Inv describes the loop over the    *)
(* recommendations (Loop) and what is known of the decision (Outcome); it  *)
(* holds of an evaluation by itself (Spec) and of the one that ends a run  *)
(* (AssessmentSpec), whoever made the candidate.                           *)
(***************************************************************************)
EXTENDS Assessment, SequenceTheorems, FiniteSetTheorems, WellFoundedInduction, TLAPS

ApprovalRef == [action_id : Nat, action_digest : Recommendation]
Refused == [catalog_action_id : ActionNames, reason_code : RefusalCodes]

\* The types, each list with a name of its own.
Types ==
    /\ place \in {"received", "recommendations", "decided"}
    /\ candidate \in Candidate \cup {Malformed}
    /\ next \in Nat \ {0}
    /\ issued \in Nat
    /\ reasons \subseteq ForcingCodes
    /\ accepted \in Seq(Proposal)
    /\ approvals \in Seq(ApprovalRef)
    /\ rejected \in Seq(Refused)
    /\ decision \in Decision

\* The actions accepted so far: fresh identifiers, an approval each, and all of them
\* permitted recommendations.
Accepted ==
    /\ issued = Len(accepted)
    /\ Len(approvals) = Len(accepted)
    /\ \A i \in 1..Len(accepted) :
           /\ accepted[i].action_id = i
           /\ approvals[i] = Reference(accepted[i])
           /\ Permitted(Material(accepted[i]))

\* The reasons so far: there is one exactly when a rule was violated so far.
Reasons ==
    reasons # {} <=>
        \/ candidate.disposition # "NEEDS_REVIEW" /\ candidate.evidence = <<>>
        \/ \E k \in 1..(next - 1) : ~Permitted(candidate.recommended_actions[k])

\* A refusal among the reasons is that of a recommendation.
Refusals ==
    reasons \cap RefusalCodes # {} =>
        \E k \in 1..(next - 1) : ~Permitted(candidate.recommended_actions[k])

Place(i) == Cardinality(PermittedUpTo(i))

\* Every recommendation up to n has its answer: a permitted one at its place among the
\* permitted ones, any other at its place among the rest.
Answered(n) ==
    /\ Len(accepted) = Place(n)
    /\ Len(rejected) = n - Place(n)
    /\ \A i \in 1..n :
           IF Permitted(candidate.recommended_actions[i])
           THEN Material(accepted[Place(i)]) = candidate.recommended_actions[i]
           ELSE rejected[i - Place(i)].catalog_action_id
                    = candidate.recommended_actions[i].catalog_action_id

Loop ==
    place = "recommendations" =>
        /\ candidate \in Candidate
        /\ candidate # Malformed
        /\ next <= Len(candidate.recommended_actions) + 1
        /\ Reasons
        /\ Refusals
        /\ Answered(next - 1)

Start ==
    place = "received" =>
        reasons = {} /\ next = 1 /\ accepted = <<>> /\ rejected = <<>>

\* What the scores rely on beside the properties: which codes and approvals there are.
Audited ==
    Decided /\ decision # SafeReview =>
        /\ decision.reason_codes
               \subseteq ForcingCodes \cup {"ACCEPTED", "CANDIDATE_ESCALATION"}
        /\ decision.reason_codes \cap RefusalCodes # {} =>
               \E r \in ToSet(candidate.recommended_actions) : ~Permitted(r)
        /\ DOMAIN decision.result.actions_requiring_approval
               = DOMAIN decision.result.recommended_actions

Outcome ==
    /\ OnlyBrokenCandidatesAreDiscarded
    /\ EveryRecommendationIsAnswered
    /\ ApprovalsBindTheActions
    /\ ViolationsForceReview
    /\ ReasonsAreComplete
    /\ Audited
    /\ \A i \in DOMAIN decision.result.recommended_actions :
           Permitted(Material(decision.result.recommended_actions[i]))

Inv == Types /\ Accepted /\ Loop /\ Start /\ Outcome

-----------------------------------------------------------------------------
(* Operators *)

\* The checks of the loop accept exactly the permitted recommendations.
LEMMA RefusalIsExact ==
    ASSUME NEW r \in Recommendation
    PROVE  /\ Refusal(r) = "None" <=> Permitted(r)
           /\ Refusal(r) # "None" => Refusal(r) \in RefusalCodes
  BY DEF Refusal, Permitted, RefusalCodes

\* The bare safe review is a decision.
LEMMA SafeReviewType == SafeReview \in Decision
<1>1. SafeReview.result \in Result
  BY DEF SafeReview, Result, Dispositions
<1>2. SafeReview.reason_codes \subseteq ReasonCodes
  BY DEF SafeReview, ReasonCodes
<1> QED  BY <1>1, <1>2 DEF SafeReview, Decision

\* A column of a sequence of records is a sequence.
LEMMA ColumnType ==
    ASSUME NEW S, NEW s \in Seq(S), NEW field, NEW T, \A x \in S : x[field] \in T
    PROVE  Column(s, field) \in Seq(T)
<1>1. Column(s, field) = [i \in 1..Len(s) |-> s[i][field]]
  BY DEF Column
<1>2. \A i \in 1..Len(s) : s[i][field] \in T
  BY ElementOfSeq
<1> QED  BY <1>1, <1>2, IsASeq

\* A bare safe review discards the candidate and says so.
LEMMA SafeReviewOutcome ==
    ASSUME decision = SafeReview, Decided => candidate = Malformed \/ ~Traceable(candidate)
    PROVE  Outcome
  BY DEF Outcome, Audited, SafeReview, OnlyBrokenCandidatesAreDiscarded, Column,
         EveryRecommendationIsAnswered, ApprovalsBindTheActions, ViolationsForceReview,
         ReasonsAreComplete

\* The permitted recommendations, counted one position further.
LEMMA PlaceNext ==
    ASSUME NEW n \in Nat
    PROVE  Place(n + 1) = IF Permitted(candidate.recommended_actions[n + 1])
                          THEN Place(n) + 1 ELSE Place(n)
<1>1. IsFiniteSet(PermittedUpTo(n))
  <2>1. IsFiniteSet(1..n) /\ PermittedUpTo(n) \in SUBSET (1..n)
    BY FS_Interval DEF PermittedUpTo
  <2> QED  BY <2>1, FS_Subset
<1>2. 1..(n + 1) = 1..n \cup {n + 1} /\ n + 1 \notin 1..n
  OBVIOUS
<1>3. CASE Permitted(candidate.recommended_actions[n + 1])
  <2>1. PermittedUpTo(n + 1) = PermittedUpTo(n) \cup {n + 1} /\ n + 1 \notin PermittedUpTo(n)
    BY <1>2, <1>3 DEF PermittedUpTo
  <2> QED  BY <1>1, <1>3, <2>1, FS_AddElement DEF Place
<1>4. CASE ~Permitted(candidate.recommended_actions[n + 1])
  <2>1. PermittedUpTo(n + 1) = PermittedUpTo(n)
    BY <1>2, <1>4 DEF PermittedUpTo
  <2> QED  BY <1>4, <2>1 DEF Place
<1> QED  BY <1>3, <1>4

LEMMA PlaceType ==
    ASSUME NEW n \in Nat
    PROVE  Place(n) \in 0..n
<1>1. IsFiniteSet(1..n) /\ Cardinality(1..n) = n
  BY FS_Interval
<1>2. PermittedUpTo(n) \in SUBSET (1..n)
  BY DEF PermittedUpTo
<1> QED  BY <1>1, <1>2, FS_Subset, FS_CardinalityType DEF Place

\* The place of a recommendation is among those of its kind so far.
LEMMA PlaceBounds ==
    ASSUME NEW n \in Nat, NEW i \in 1..n
    PROVE  IF Permitted(candidate.recommended_actions[i])
           THEN Place(i) \in 1..Place(n) ELSE i - Place(i) \in 1..(n - Place(n))
<1> DEFINE P(k) == PermittedUpTo(k)
           R(k) == (1..k) \ PermittedUpTo(k)
<1>1. ASSUME NEW k \in Nat
      PROVE  /\ IsFiniteSet(P(k)) /\ IsFiniteSet(R(k))
             /\ Cardinality(P(k)) \in Nat /\ Cardinality(R(k)) \in Nat
             /\ Cardinality(R(k)) = k - Cardinality(P(k))
  <2>1. IsFiniteSet(1..k) /\ Cardinality(1..k) = k
    BY FS_Interval
  <2>2. P(k) \in SUBSET (1..k) /\ (1..k) \cap P(k) = P(k)
    BY DEF PermittedUpTo
  <2>3. IsFiniteSet(P(k)) /\ IsFiniteSet(R(k))
    BY <2>1, <2>2, FS_Subset, FS_Difference
  <2>4. Cardinality(R(k)) = Cardinality(1..k) - Cardinality((1..k) \cap P(k))
    BY <2>1, FS_Difference
  <2> QED  BY <2>1, <2>2, <2>3, <2>4, FS_CardinalityType
<1>2. P(i) \in SUBSET P(n) /\ R(i) \in SUBSET R(n)
  BY DEF PermittedUpTo
<1>3. Cardinality(P(i)) <= Cardinality(P(n)) /\ Cardinality(R(i)) <= Cardinality(R(n))
  BY <1>1, <1>2, FS_Subset
<1>4. IF Permitted(candidate.recommended_actions[i]) THEN i \in P(i) ELSE i \in R(i)
  BY DEF PermittedUpTo
<1> HIDE DEF P, R
<1>5. (P(i) # {} => Cardinality(P(i)) # 0) /\ (R(i) # {} => Cardinality(R(i)) # 0)
  <2>1. IsFiniteSet(P(i)) /\ IsFiniteSet(R(i))
    BY <1>1
  <2> QED  BY <2>1, FS_EmptySet
<1>6. Place(i) = Cardinality(P(i)) /\ Place(n) = Cardinality(P(n))
  BY DEF Place, P
<1> QED  BY <1>1, <1>3, <1>4, <1>5, <1>6

-----------------------------------------------------------------------------
(* The steps *)

LEMMA InitInv == Init => Inv
<1> SUFFICES ASSUME Init PROVE Inv
  OBVIOUS
<1>1. Types
  BY SafeReviewType, PolicyAssumption DEF Init, Types
<1>2. Accepted /\ Loop /\ Start
  BY DEF Init, Accepted, Loop, Start
<1>3. Outcome
  BY SafeReviewOutcome DEF Init, Decided
<1> QED  BY <1>1, <1>2, <1>3 DEF Inv

\* Nothing is known of the decision before it is made, and it is not made yet.
LEMMA OutcomeOpen ==
    ASSUME Inv, place' \in {"received", "recommendations"}, decision' = decision
    PROVE  Outcome'
  BY DEF Inv, Outcome, Audited, Decided, OnlyBrokenCandidatesAreDiscarded,
         EveryRecommendationIsAnswered, ApprovalsBindTheActions, ViolationsForceReview,
         ReasonsAreComplete, Permitted, Material

\* Both ways to a bare safe review.
LEMMA SafeDecision ==
    ASSUME decision' = SafeReview, UNCHANGED candidate,
           candidate = Malformed \/ ~Traceable(candidate)
    PROVE  Outcome'
<1>1. (candidate = Malformed \/ ~Traceable(candidate))'
  BY DEF Traceable
<1> QED
  BY <1>1 DEF Outcome, Audited, SafeReview, OnlyBrokenCandidatesAreDiscarded, Column,
              EveryRecommendationIsAnswered, ApprovalsBindTheActions, ViolationsForceReview,
              ReasonsAreComplete

LEMMA RefusePayloadInv == Inv /\ RefusePayload => Inv'
<1> SUFFICES ASSUME Inv, RefusePayload PROVE Inv'
  OBVIOUS
<1>1. Types'
  BY SafeReviewType DEF Inv, Types, RefusePayload, lists
<1>2. Accepted' /\ Loop' /\ Start'
  BY DEF Inv, RefusePayload, lists, Accepted, Loop, Start, Material, Reference, Permitted
<1>3. Outcome'
  BY SafeDecision DEF RefusePayload
<1> QED  BY <1>1, <1>2, <1>3 DEF Inv

LEMMA CheckEvidenceInv == Inv /\ CheckEvidence => Inv'
<1> SUFFICES ASSUME Inv, CheckEvidence PROVE Inv'
  OBVIOUS
<1>0. /\ candidate \in Candidate
      /\ candidate # Malformed
      /\ next = 1
      /\ accepted = <<>> /\ rejected = <<>>
  BY DEF Inv, Types, Start, CheckEvidence
<1>1. Types'
  BY DEF Inv, Types, CheckEvidence, ForcingCodes
<1>2. Accepted'
  BY DEF Inv, CheckEvidence, Accepted, Material, Reference, Permitted
<1>3. Loop' /\ Start'
  <2>1. Len(candidate.recommended_actions) \in Nat
    BY <1>0 DEF Candidate
  <2>2. Reasons'
    BY <1>0 DEF CheckEvidence, Reasons
  <2>3. Refusals'
    BY <1>0 DEF CheckEvidence, Refusals, RefusalCodes
  <2>4. Answered(0)'
    <3>1. Place(0)' = 0
      <4>1. PermittedUpTo(0)' = {}
        BY DEF PermittedUpTo
      <4> QED  BY <4>1, FS_EmptySet DEF Place
    <3> QED  BY <1>0, <3>1 DEF CheckEvidence, Answered
  <2>5. next' - 1 = 0
    BY <1>0 DEF CheckEvidence
  <2> QED  BY <1>0, <2>1, <2>2, <2>3, <2>4, <2>5 DEF CheckEvidence, Loop, Start
<1>4. Outcome'
  BY OutcomeOpen DEF CheckEvidence
<1> QED  BY <1>1, <1>2, <1>3, <1>4 DEF Inv

\* The recommendation in hand, in both branches of the loop.
LEMMA InHand ==
    ASSUME Inv, place = "recommendations", next <= Len(candidate.recommended_actions)
    PROVE  /\ candidate \in Candidate
           /\ candidate.recommended_actions[next] \in Recommendation
<1>1. candidate \in Candidate
  BY DEF Inv, Loop
<1> QED  BY <1>1, ElementOfSeq DEF Inv, Types, Candidate

\* A rejection answers the recommendation in hand.
LEMMA RejectionAnswers ==
    ASSUME Inv, RejectAction, ~Permitted(candidate.recommended_actions[next]),
           candidate.recommended_actions[next] \in Recommendation
    PROVE  Answered(next - 1)'
<1> DEFINE asked == candidate.recommended_actions
           n == next - 1
<1>1. /\ n \in Nat /\ next = n + 1 /\ next' - 1 = n + 1
      /\ accepted' = accepted /\ candidate' = candidate
      /\ rejected \in Seq(Refused)
      /\ Answered(n)
  BY DEF Inv, Types, Loop, RejectAction
<1>2. PICK answer : /\ rejected' = Append(rejected, answer)
                    /\ answer.catalog_action_id = asked[n + 1].catalog_action_id
  BY <1>1 DEF RejectAction
<1>3. \A i : Place(i)' = Place(i)
  BY <1>1 DEF Place, PermittedUpTo, Permitted
<1> HIDE DEF n
<1>4. Place(n) \in 0..n /\ Place(n + 1) = Place(n)
  BY <1>1, PlaceType, PlaceNext
<1>5. Len(rejected') = n + 1 - Place(n + 1) /\ Len(accepted') = Place(n + 1)
  BY <1>1, <1>2, <1>4, AppendProperties DEF Answered
<1>6. ASSUME NEW i \in 1..(n + 1)
      PROVE  IF Permitted(asked[i]) THEN Material(accepted[Place(i)]) = asked[i]
             ELSE rejected'[i - Place(i)].catalog_action_id = asked[i].catalog_action_id
  <2>1. CASE i = n + 1
    <3>1. rejected'[Len(rejected) + 1].catalog_action_id = asked[n + 1].catalog_action_id
      BY <1>1, <1>2, AppendProperties
    <3>2. Len(rejected) + 1 = i - Place(i)
      BY <1>1, <1>4, <2>1 DEF Answered
    <3> QED  BY <1>1, <2>1, <3>1, <3>2
  <2>2. CASE i \in 1..n
    <3>1. ~Permitted(asked[i]) => rejected'[i - Place(i)] = rejected[i - Place(i)]
      BY <1>1, <1>2, <2>2, PlaceBounds, AppendProperties DEF Answered
    <3> QED  BY <1>1, <2>2, <3>1 DEF Answered
  <2> QED  BY <1>1, <2>1, <2>2
<1> QED  BY <1>1, <1>3, <1>5, <1>6 DEF Answered, Permitted, Material

\* An acceptance answers the recommendation in hand.
LEMMA AcceptanceAnswers ==
    ASSUME Inv, AcceptAction, Permitted(candidate.recommended_actions[next]),
           candidate.recommended_actions[next] \in Recommendation
    PROVE  Answered(next - 1)'
<1> DEFINE asked == candidate.recommended_actions
           n == next - 1
<1>1. /\ n \in Nat /\ next = n + 1 /\ next' - 1 = n + 1
      /\ rejected' = rejected /\ candidate' = candidate
      /\ accepted \in Seq(Proposal) /\ rejected \in Seq(Refused)
      /\ Answered(n)
  BY DEF Inv, Types, Loop, AcceptAction
<1>2. PICK c : accepted' = Append(accepted, c) /\ Material(c) = asked[n + 1]
  BY <1>1 DEF AcceptAction, Canonical, Material, Recommendation
<1>3. \A i : Place(i)' = Place(i)
  BY <1>1 DEF Place, PermittedUpTo, Permitted
<1> HIDE DEF n
<1>4. Place(n) \in 0..n /\ Place(n + 1) = Place(n) + 1
  BY <1>1, PlaceType, PlaceNext
<1>5. Len(rejected') = n + 1 - Place(n + 1) /\ Len(accepted') = Place(n + 1)
  <2>1. Len(accepted) = Place(n) /\ Len(rejected) = n - Place(n)
    BY <1>1 DEF Answered
  <2>2. Len(accepted') = Len(accepted) + 1
    BY <1>1, <1>2, AppendProperties
  <2> QED  BY <1>1, <1>4, <2>1, <2>2
<1>6. ASSUME NEW i \in 1..(n + 1)
      PROVE  IF Permitted(asked[i]) THEN Material(accepted'[Place(i)]) = asked[i]
             ELSE rejected[i - Place(i)].catalog_action_id = asked[i].catalog_action_id
  <2>1. CASE i = n + 1
    <3>1. accepted'[Place(i)] = c
      BY <1>1, <1>2, <1>4, <2>1, AppendProperties DEF Answered
    <3> QED  BY <1>1, <1>2, <1>4, <2>1, <3>1
  <2>2. CASE i \in 1..n
    <3>1. Permitted(asked[i]) => accepted'[Place(i)] = accepted[Place(i)]
      BY <1>1, <1>2, <2>2, PlaceBounds, AppendProperties DEF Answered
    <3> QED  BY <1>1, <2>2, <3>1 DEF Answered
  <2> QED  BY <1>1, <2>1, <2>2
<1> QED  BY <1>1, <1>3, <1>5, <1>6 DEF Answered, Permitted, Material

LEMMA RejectActionInv == Inv /\ RejectAction => Inv'
<1> SUFFICES ASSUME Inv, RejectAction PROVE Inv'
  OBVIOUS
<1> DEFINE r == candidate.recommended_actions[next]
<1>1. /\ candidate \in Candidate
      /\ r \in Recommendation
  BY InHand DEF RejectAction
<1>2. Refusal(r) \in RefusalCodes /\ ~Permitted(r)
  BY <1>1, RefusalIsExact DEF RejectAction
<1>3. Types'
  <2>1. [catalog_action_id |-> r.catalog_action_id, reason_code |-> Refusal(r)] \in Refused
    BY <1>1, <1>2 DEF Recommendation, Refused
  <2>2. rejected' \in Seq(Refused)
    BY <2>1, AppendProperties DEF Inv, Types, RejectAction
  <2>3. reasons' \subseteq ForcingCodes
    BY <1>2 DEF Inv, Types, RejectAction, ForcingCodes
  <2> QED  BY <2>2, <2>3 DEF Inv, Types, RejectAction
<1>4. Accepted'
  BY DEF Inv, RejectAction, Accepted, Material, Reference, Permitted
<1>5. Loop' /\ Start'
  <2>1. Reasons' /\ Refusals'
    <3>1. reasons' # {}
      BY DEF RejectAction
    <3>2. next \in 1..(next' - 1)
      BY DEF Inv, Types, RejectAction
    <3>3. candidate' = candidate
      BY DEF RejectAction
    <3>4. \E k \in 1..(next' - 1) : ~Permitted(candidate.recommended_actions[k])
      BY <3>2, <1>2
    <3> QED  BY <3>1, <3>3, <3>4 DEF Reasons, Refusals, Permitted
  <2>2. next' <= Len(candidate.recommended_actions) + 1
    BY <1>1 DEF Inv, Types, RejectAction, Candidate
  <2>3. Answered(next - 1)'
    BY <1>1, <1>2, RejectionAnswers
  <2> QED  BY <2>1, <2>2, <2>3 DEF Inv, RejectAction, Loop, Start
<1>6. Outcome'
  BY OutcomeOpen DEF RejectAction
<1> QED  BY <1>3, <1>4, <1>5, <1>6 DEF Inv

LEMMA AcceptActionInv == Inv /\ AcceptAction => Inv'
<1> SUFFICES ASSUME Inv, AcceptAction PROVE Inv'
  OBVIOUS
<1> DEFINE r == candidate.recommended_actions[next]
           c == Canonical(r, issued + 1)
<1>1. /\ candidate \in Candidate
      /\ r \in Recommendation
  BY InHand DEF AcceptAction
<1>2. Permitted(r)
  BY <1>1, RefusalIsExact DEF AcceptAction
<1>3. /\ c \in Proposal
      /\ c.action_id = issued + 1
      /\ Material(c) = r
      /\ Reference(c) \in ApprovalRef
  BY <1>1 DEF Inv, Types, Canonical, Proposal, Recommendation, Material, Reference, ApprovalRef
<1>4. /\ accepted' = Append(accepted, c)
      /\ approvals' = Append(approvals, Reference(c))
  BY <1>2, PolicyAssumption DEF AcceptAction, Permitted, IsCatalog
<1>5. Types'
  <2>1. accepted' \in Seq(Proposal) /\ approvals' \in Seq(ApprovalRef)
    BY <1>3, <1>4, AppendProperties DEF Inv, Types
  <2> QED  BY <2>1 DEF Inv, Types, AcceptAction
<1>6. Accepted'
  <2>1. /\ Len(accepted') = issued + 1
        /\ Len(approvals') = issued + 1
        /\ issued' = issued + 1
    BY <1>4, AppendProperties DEF Inv, Types, Accepted, AcceptAction
  <2>2. ASSUME NEW i \in 1..(issued + 1)
        PROVE  /\ accepted'[i].action_id = i
               /\ approvals'[i] = Reference(accepted'[i])
               /\ Permitted(Material(accepted'[i]))
    <3>1. CASE i <= issued
      <4>1. accepted'[i] = accepted[i] /\ approvals'[i] = approvals[i]
        BY <1>4, <3>1, AppendProperties DEF Inv, Types, Accepted
      <4> QED  BY <3>1, <4>1 DEF Inv, Types, Accepted
    <3>2. CASE i = issued + 1
      <4>1. accepted'[i] = c /\ approvals'[i] = Reference(c)
        BY <1>4, <3>2, AppendProperties DEF Inv, Types, Accepted
      <4> QED  BY <1>2, <1>3, <3>2, <4>1
    <3> QED  BY <3>1, <3>2 DEF Inv, Types
  <2> QED  BY <2>1, <2>2 DEF Accepted, Reference, Material, Permitted
<1>7. Loop' /\ Start'
  <2>1. \A k \in 1..(next' - 1) : k \in 1..(next - 1) \/ k = next
    BY DEF Inv, Types, AcceptAction
  <2>2. 1..(next - 1) \subseteq 1..(next' - 1)
    BY DEF Inv, Types, AcceptAction
  <2>3. Reasons'
    BY <1>2, <2>1, <2>2 DEF Inv, Loop, Reasons, AcceptAction, Permitted
  <2>4. Refusals'
    BY <1>2, <2>2 DEF Inv, Loop, Refusals, AcceptAction, Permitted
  <2>5. next' <= Len(candidate.recommended_actions) + 1
    BY <1>1 DEF Inv, Types, AcceptAction, Candidate
  <2>6. Answered(next - 1)'
    BY <1>1, <1>2, AcceptanceAnswers
  <2> QED  BY <2>3, <2>4, <2>5, <2>6 DEF Inv, AcceptAction, Loop, Start
<1>8. Outcome'
  BY OutcomeOpen DEF AcceptAction
<1> QED  BY <1>5, <1>6, <1>7, <1>8 DEF Inv

\* The result that evaluate builds is a result.
LEMMA EnforcedType ==
    ASSUME Types, candidate \in Candidate
    PROVE  Enforced \in Result
  BY DEF Types, Candidate, Enforced, Result, Dispositions, ApprovalRef

\* Validation can fail only on what the candidate brought along.
LEMMA ValidatesIffTraceable ==
    ASSUME Types, Accepted, candidate \in Candidate
    PROVE  Validates(Enforced) <=> Traceable(candidate)
<1>1. DOMAIN accepted = 1..Len(accepted) /\ DOMAIN approvals = 1..Len(accepted)
  BY LenProperties DEF Types, Accepted
<1>2. IsInjective(Column(accepted, "action_id"))
  BY <1>1 DEF Accepted, Column, IsInjective
<1>3. IsInjective(Column(approvals, "action_id"))
  BY <1>1 DEF Accepted, Column, IsInjective, Reference
<1>4. \A i \in DOMAIN approvals : \E j \in DOMAIN accepted : Reference(accepted[j]) = approvals[i]
  BY <1>1 DEF Accepted
<1>5. Enforced.escalation_required <=> Enforced.escalation_reason # "None"
  BY DEF Enforced, Candidate
<1>6. ASSUME NEW X
      PROVE  (\A i \in DOMAIN candidate.evidence : candidate.evidence[i].tool_invocation_id \in X)
                 <=> (\A e \in ToSet(candidate.evidence) : e.tool_invocation_id \in X)
  BY DEF ToSet
<1>7. /\ Enforced.evidence = candidate.evidence
      /\ Enforced.tool_calls = candidate.tool_calls
      /\ Enforced.recommended_actions = accepted
      /\ Enforced.actions_requiring_approval = approvals
  BY DEF Enforced
<1> QED  BY <1>2, <1>3, <1>4, <1>5, <1>6, <1>7 DEF Validates, Traceable

\* At the loop's end there is a forcing reason exactly when the candidate is unsound.
LEMMA ForcedIffUnsound ==
    ASSUME Inv, place = "recommendations", next > Len(candidate.recommended_actions)
    PROVE  /\ ForcedReview <=> ~Sound(candidate)
           /\ ForcedReview <=> reasons # {}
<1>1. candidate \in Candidate
  BY DEF Inv, Loop
<1>2. /\ Len(candidate.recommended_actions) \in Nat
      /\ DOMAIN candidate.recommended_actions = 1..Len(candidate.recommended_actions)
  BY <1>1, LenProperties DEF Candidate
<1>3. 1..(next - 1) = DOMAIN candidate.recommended_actions
  BY <1>2 DEF Inv, Types, Loop
<1>4. (\E k \in 1..(next - 1) : ~Permitted(candidate.recommended_actions[k]))
          <=> ~(\A r \in ToSet(candidate.recommended_actions) : Permitted(r))
  BY <1>3 DEF ToSet
<1>5. reasons # {} <=> ~Sound(candidate)
  BY <1>4 DEF Inv, Loop, Reasons, Sound
<1>6. ForcedReview <=> reasons # {}
  BY DEF Inv, Types, ForcedReview
<1> QED  BY <1>5, <1>6

\* A refused position is that of a refused recommendation.
LEMMA SomeRefused ==
    ASSUME Inv, place = "recommendations", next > Len(candidate.recommended_actions),
           \E k \in 1..(next - 1) : ~Permitted(candidate.recommended_actions[k])
    PROVE  \E a \in ToSet(candidate.recommended_actions) : ~Permitted(a)
<1>1. candidate.recommended_actions \in Seq(Recommendation)
  BY DEF Inv, Loop, Candidate
<1>2. 1..(next - 1) = DOMAIN candidate.recommended_actions
  BY <1>1, LenProperties DEF Inv, Types, Loop
<1> QED  BY <1>2 DEF ToSet

\* At the loop's end every recommendation has been answered.
LEMMA AllAnswered ==
    ASSUME Inv, Conclude, Validates(Enforced)
    PROVE  EveryRecommendationIsAnswered'
<1> DEFINE asked == candidate.recommended_actions
<1>1. /\ decision'.result.recommended_actions = accepted
      /\ decision'.rejected_actions = rejected
      /\ candidate' = candidate
  BY DEF Conclude, Concluded, Enforced
<1>2. /\ asked \in Seq(Recommendation) /\ Len(asked) \in Nat
      /\ DOMAIN asked = 1..Len(asked)
  BY LenProperties DEF Inv, Loop, Conclude, Candidate
<1>3. next - 1 = Len(asked)
  BY <1>2 DEF Inv, Types, Loop, Conclude
<1>4. Answered(Len(asked))
  BY <1>3 DEF Inv, Loop, Conclude
<1>5. IsInjective(Column(accepted, "action_id"))
  BY DEF Validates, Enforced
<1>6. \A i : PermittedUpTo(i)' = PermittedUpTo(i)
  BY <1>1 DEF PermittedUpTo, Permitted
<1> QED
  BY <1>1, <1>2, <1>4, <1>5, <1>6
     DEF EveryRecommendationIsAnswered, Answered, Place, Permitted, Material, Column

LEMMA ConcludeInv == Inv /\ Conclude => Inv'
<1> SUFFICES ASSUME Inv, Conclude PROVE Inv'
  OBVIOUS
<1>1. /\ candidate \in Candidate
      /\ candidate # Malformed
  BY DEF Inv, Loop, Conclude
<1>2. Validates(Enforced) <=> Traceable(candidate)
  BY <1>1, ValidatesIffTraceable DEF Inv
<1>3. /\ ForcedReview <=> ~Sound(candidate)
      /\ ForcedReview <=> reasons # {}
  BY ForcedIffUnsound DEF Conclude
<1>4. DOMAIN accepted = 1..Len(accepted) /\ DOMAIN approvals = 1..Len(accepted)
  BY LenProperties DEF Inv, Types, Accepted
<1>5. /\ Codes \subseteq ReasonCodes
      /\ Codes # {"CANDIDATE_INVALID"}
      /\ Codes \cap ForcingCodes = {} <=> reasons = {}
      /\ "CANDIDATE_ESCALATION" \in Codes <=> candidate.escalation_required
      /\ "ACCEPTED" \in Codes <=> Codes = {"ACCEPTED"}
      /\ Codes \subseteq ForcingCodes \cup {"ACCEPTED", "CANDIDATE_ESCALATION"}
      /\ Codes \cap RefusalCodes = reasons \cap RefusalCodes
  BY DEF Inv, Types, Codes, ReasonCodes, ForcingCodes, RefusalCodes
<1>6. Types'
  <2>1. Column(accepted, "action_id") \in Seq(Nat)
    <3>1. \A x \in Proposal : x["action_id"] \in Nat
      BY DEF Proposal
    <3> QED  BY <3>1, ColumnType DEF Inv, Types
  <2>2. Concluded \in Decision
    BY <1>1, <1>5, <2>1, EnforcedType, SafeReviewType
       DEF Inv, Types, Concluded, Decision, Refused
  <2> QED  BY <2>2 DEF Inv, Types, Conclude, lists
<1>7. Accepted' /\ Loop' /\ Start'
  BY DEF Inv, Conclude, lists, Accepted, Loop, Start, Material, Reference, Permitted
<1>8. Outcome'
  <2>1. CASE Traceable(candidate)
    <3>1. /\ decision' = Concluded
          /\ Concluded.result = Enforced
          /\ Concluded.reason_codes = Codes
          /\ Concluded.accepted_action_ids = Column(accepted, "action_id")
      BY <1>2, <2>1 DEF Conclude, Concluded
    <3>2. decision' # SafeReview
      BY <3>1, <1>5 DEF SafeReview
    <3>3. Column(approvals, "action_id") = Column(accepted, "action_id")
      BY <1>4 DEF Inv, Accepted, Column, Reference
    <3>4. \A i \in DOMAIN accepted :
              /\ approvals[i] = Reference(accepted[i])
              /\ Permitted(Material(accepted[i]))
      BY <1>4 DEF Inv, Accepted
    <3>5. candidate' = candidate
      BY DEF Conclude
    <3>6. OnlyBrokenCandidatesAreDiscarded'
      BY <1>1, <2>1, <3>2, <3>5 DEF OnlyBrokenCandidatesAreDiscarded, Traceable
    <3>7. ApprovalsBindTheActions'
      <4>1. /\ decision'.result.actions_requiring_approval = approvals
            /\ decision'.result.recommended_actions = accepted
            /\ decision'.accepted_action_ids = Column(accepted, "action_id")
        BY <3>1 DEF Enforced
      <4>2. \A i \in DOMAIN accepted : approvals[i] = Reference(accepted[i])
        BY <3>4
      <4> QED
        BY <3>3, <4>1, <4>2 DEF ApprovalsBindTheActions, Column, Reference, Material
    <3>8. ViolationsForceReview'
      <4>1. /\ decision'.result.disposition
                   = IF ForcedReview THEN "NEEDS_REVIEW" ELSE candidate.disposition
            /\ decision'.result.escalation_required
                   = (candidate.escalation_required \/ ForcedReview)
        BY <3>1 DEF Enforced
      <4>2. (Sound(candidate))' <=> Sound(candidate)
        BY <3>5 DEF Sound, Permitted
      <4> QED  BY <1>3, <3>5, <4>1, <4>2 DEF ViolationsForceReview
    <3>9. ReasonsAreComplete'
      BY <1>3, <1>5, <3>1, <3>5 DEF ReasonsAreComplete, Sound, Permitted
    <3>10. EveryRecommendationIsAnswered'
      BY <1>2, <2>1, AllAnswered
    <3>11. Audited'
      <4>1. Codes \cap RefusalCodes # {} =>
                \E a \in ToSet(candidate.recommended_actions) : ~Permitted(a)
        BY <1>5, SomeRefused DEF Inv, Loop, Refusals, Conclude
      <4>2. /\ decision'.reason_codes = Codes
            /\ decision'.result.actions_requiring_approval = approvals
            /\ decision'.result.recommended_actions = accepted
        BY <3>1 DEF Enforced
      <4>3. (\E a \in ToSet(candidate.recommended_actions) : ~Permitted(a))'
                <=> \E a \in ToSet(candidate.recommended_actions) : ~Permitted(a)
        BY <3>5 DEF Permitted
      <4> QED  BY <1>4, <1>5, <4>1, <4>2, <4>3 DEF Audited
    <3> QED
      BY <3>1, <3>4, <3>6, <3>7, <3>8, <3>9, <3>10, <3>11
         DEF Outcome, Enforced, Permitted, Material
  <2>2. CASE ~Traceable(candidate)
    <3>1. decision' = SafeReview /\ candidate' = candidate
      BY <1>2, <2>2 DEF Conclude, Concluded
    <3> QED  BY <2>2, <3>1, SafeDecision
  <2> QED  BY <2>1, <2>2
<1> QED  BY <1>6, <1>7, <1>8 DEF Inv

LEMMA StutterInv == Inv /\ UNCHANGED vars => Inv'
<1> SUFFICES ASSUME Inv, UNCHANGED vars PROVE Inv'
  OBVIOUS
<1>1. Types' /\ Accepted' /\ Start'
  BY DEF Inv, vars, Types, Accepted, Start, Material, Reference, Permitted
<1>2. \A i : PermittedUpTo(i)' = PermittedUpTo(i) /\ Place(i)' = Place(i)
  BY DEF vars, PermittedUpTo, Place, Permitted
<1>3. Loop'
  BY <1>2 DEF Inv, vars, Loop, Reasons, Refusals, Answered, Permitted, Material
<1>4. EveryRecommendationIsAnswered'
  BY <1>2 DEF Inv, vars, Outcome, EveryRecommendationIsAnswered, Decided, Material, Permitted,
              Column
<1>5. Outcome'
  BY <1>4 DEF Inv, vars, Outcome, Audited, Decided, Material, Reference, Permitted, Sound,
     Traceable, Column, OnlyBrokenCandidatesAreDiscarded, ApprovalsBindTheActions,
     ViolationsForceReview, ReasonsAreComplete
<1> QED  BY <1>1, <1>3, <1>5 DEF Inv

LEMMA NextInv == Inv /\ [Next]_vars => Inv'
  BY RefusePayloadInv, CheckEvidenceInv, RejectActionInv, AcceptActionInv, ConcludeInv,
     StutterInv DEF Next

\* The run's last turn hands the evaluation a candidate, or none.
LEMMA HandOver ==
    ASSUME Inv, place = "received", UNCHANGED <<place, next, issued, lists, decision>>,
           candidate' \in Candidate \cup {Malformed}
    PROVE  Inv'
<1>1. Types' /\ Accepted' /\ Loop' /\ Start'
  BY DEF Inv, Types, Accepted, Loop, Start, lists, Material, Reference, Permitted
<1>2. Outcome'
  BY OutcomeOpen DEF lists
<1> QED  BY <1>1, <1>2 DEF Inv

-----------------------------------------------------------------------------
(* The turn *)

\* What the provider's typed answers cannot be refused for.
UntypedCodes == {"UNKNOWN_ACTION", "INVALID_ACTION_PARAMETERS"}

\* A recommendation that the provider's schema lets through.
Typed(r) ==
    /\ r.catalog_action_id \in DOMAIN ProviderActions
    /\ r.parameters = ProviderActions[r.catalog_action_id]

\* The payload in hand, whoever made it.
Lists ==
    /\ candidate.evidence \in Seq(Evidence)
    /\ candidate.tool_calls \in Seq(CallIds)
    /\ candidate.recommended_actions \in Seq(Recommendation)

\* A candidate that was considered cites the run's evidence.
Considered ==
    candidate # Malformed =>
        /\ Lists
        /\ ReferencesAreValid(candidate)
        /\ reasoner = "provider" =>
               \A r \in ToSet(candidate.recommended_actions) : Typed(r)

Evaluated ==
    /\ turn = "asking" => place = "received"
    /\ next \in Nat \ {0}
    /\ place = "received" => reasons = {}
    /\ place = "recommendations" =>
           /\ candidate # Malformed
           /\ candidate.disposition # "NEEDS_REVIEW" /\ candidate.evidence = <<>> =>
                  "INSUFFICIENT_EVIDENCE" \in reasons
           /\ reasoner = "provider" => reasons \cap UntypedCodes = {}
    /\ reasoner = "provider" => reason # "EVIDENCE_REFERENCE_VIOLATION"
    /\ AssessmentsCiteTheContext

LEMMA InitCites == TurnInit => Considered /\ Evaluated
  BY DEF TurnInit, Considered, Evaluated, AssessmentsCiteTheContext, Decided

\* The references of a provider's answer are looked up among the run's evidence.
LEMMA Looked ==
    ASSUME NEW answer \in Answers, ConformsToSchema(answer), KnownReferences(answer)
    PROVE  /\ ToDomain(answer) \in Candidate
           /\ ReferencesAreValid(ToDomain(answer))
           /\ ToDomain(answer).evidence \in Seq(Evidence)
           /\ ToDomain(answer).tool_calls \in Seq(CallIds)
           /\ ToDomain(answer).recommended_actions \in Seq(Recommendation)
           /\ \A r \in ToSet(ToDomain(answer).recommended_actions) : Typed(r)
  <1> DEFINE ids == answer.evidence_reference_ids
             Referenced(id) == CHOOSE item \in Available : item.evidence_id = id
             looked == [i \in DOMAIN ids |-> Referenced(ids[i])]
  <1>1. /\ ids \in Seq(EvidenceIds) /\ answer.tool_call_reference_ids \in Seq(CallIds)
        /\ answer.recommended_actions \in Seq(Recommendation)
    BY AssessmentAssumption DEF Answer
  <1>2. ASSUME NEW i \in DOMAIN ids PROVE Referenced(ids[i]) \in Available
    <2>1. ids[i] \in ToSet(ids)
      BY DEF ToSet
    <2>2. \E item \in Available : item.evidence_id = ids[i]
      BY <2>1 DEF KnownReferences
    <2> QED
      BY <2>2
  <1>3. looked \in Seq(Evidence)
    <2>1. DOMAIN ids = 1..Len(ids) /\ Len(ids) \in Nat
      BY <1>1
    <2>2. \A i \in 1..Len(ids) : Referenced(ids[i]) \in Evidence
      BY <1>2, <2>1, AssessmentAssumption
    <2> HIDE DEF Referenced, ids
    <2>3. looked = [i \in 1..Len(ids) |-> Referenced(ids[i])]
      BY <2>1
    <2> QED
      BY <2>1, <2>2, <2>3, IsASeq
  <1>4. ToSet(looked) \subseteq Available
    <2> SUFFICES ASSUME NEW e \in ToSet(looked) PROVE e \in Available
      OBVIOUS
    <2>1. PICK i \in DOMAIN looked : e = looked[i]
      BY DEF ToSet
    <2> QED
      BY <1>2, <2>1
  <1>5. /\ ToDomain(answer).evidence = looked
        /\ ToDomain(answer).tool_calls = answer.tool_call_reference_ids
        /\ ToDomain(answer).recommended_actions = answer.recommended_actions
    BY DEF ToDomain
  <1>6. \A r \in ToSet(answer.recommended_actions) : Typed(r)
    BY DEF ConformsToSchema, Typed
  <1>7. ToDomain(answer) =
            [disposition |-> answer.disposition, evidence |-> looked,
             recommended_actions |-> answer.recommended_actions,
             escalation_required |-> answer.escalation_required,
             escalation_reason |-> answer.escalation_reason,
             tool_calls |-> answer.tool_call_reference_ids]
    BY DEF ToDomain
  <1> HIDE DEF looked
  <1>8. ToDomain(answer) \in Candidate
    BY <1>1, <1>3, <1>7, AssessmentAssumption DEF Answer, Candidate
  <1> QED
    BY <1>1, <1>3, <1>4, <1>5, <1>6, <1>8 DEF ReferencesAreValid, KnownReferences

LEMMA TurnStep == Considered /\ Evaluated /\ TakeTurn => Considered' /\ Evaluated'
  <1> SUFFICES ASSUME Considered, Evaluated, TakeTurn PROVE Considered' /\ Evaluated'
    OBVIOUS
  <1>0. /\ turn = "asking" /\ place = "received"
        /\ UNCHANGED <<place, next, reasons, decision, reasoner>>
    BY DEF TakeTurn, Evaluated, lists
  <1>1. turn' = "ended"
    BY DEF TakeTurn, ProviderAnswers, ReasonerAnswers, Terminate, Consider, EndWith
  <1>2. reasoner = "provider" => reason' # "EVIDENCE_REFERENCE_VIOLATION"
    <2> SUFFICES ASSUME reasoner = "provider"
                 PROVE  reason' # "EVIDENCE_REFERENCE_VIOLATION"
      OBVIOUS
    <2>1. CASE ProviderAnswers
      BY <2>1, Looked DEF ProviderAnswers, Consider, EndWith, Evaluated
    <2>2. CASE Terminate
      BY <2>2 DEF Terminate, EndWith, Terminations
    <2> QED
      BY <2>1, <2>2 DEF TakeTurn, ReasonerAnswers
  <1>3. Evaluated'
    BY <1>0, <1>1, <1>2 DEF Evaluated, AssessmentsCiteTheContext, Decided
  <1>4. Considered'
    <2>1. CASE UNCHANGED candidate
      BY <1>0, <2>1 DEF Considered, Lists, ReferencesAreValid
    <2>2. ASSUME NEW answer \in Answers, ConformsToSchema(answer), KnownReferences(answer),
                 candidate' = ToDomain(answer)
          PROVE  Considered'
      BY <2>2, Looked DEF Considered, Lists, ReferencesAreValid
    <2>3. ASSUME NEW c \in Candidates, ReferencesAreValid(c), candidate' = c,
                 reasoner = "another"
          PROVE  Considered'
      <3>1. c \in Candidate
        BY PolicyAssumption
      <3> QED
        BY <1>0, <2>3, <3>1 DEF Considered, Lists, ReferencesAreValid, Candidate
    <2> QED
      BY <2>1, <2>2, <2>3
         DEF TakeTurn, ProviderAnswers, ReasonerAnswers, Terminate, Consider, EndWith
  <1> QED
    BY <1>3, <1>4

\* The schema of the provider's actions is the initial catalog's.
LEMMA SchemasAgree ==
    ASSUME Catalog = InitialCatalog, NEW r, Typed(r)
    PROVE  Refusal(r) \notin UntypedCodes
  <1> DEFINE names == {"disable_account", "revoke_sessions", "reset_password",
                       "isolate_device", "delete_email", "remove_privilege"}
  <1>1. DOMAIN ProviderActions = names /\ DOMAIN InitialCatalog = names
    BY DEF ProviderActions, InitialCatalog
  <1>2. ASSUME NEW name \in names
        PROVE  InitialCatalog[name].parameters = ProviderActions[name]
    <2>1. /\ InitialCatalog.disable_account.parameters = {}
          /\ InitialCatalog.revoke_sessions.parameters = {}
          /\ InitialCatalog.reset_password.parameters = {}
          /\ InitialCatalog.isolate_device.parameters = {}
          /\ InitialCatalog.delete_email.parameters = {"message_id"}
          /\ InitialCatalog.remove_privilege.parameters = {"privilege_id"}
      BY DEF InitialCatalog, HighImpact
    <2>2. /\ ProviderActions.disable_account = {}
          /\ ProviderActions.revoke_sessions = {}
          /\ ProviderActions.reset_password = {}
          /\ ProviderActions.isolate_device = {}
          /\ ProviderActions.delete_email = {"message_id"}
          /\ ProviderActions.remove_privilege = {"privilege_id"}
      BY DEF ProviderActions
    <2> QED
      BY <2>1, <2>2
  <1>3. /\ r.catalog_action_id \in DOMAIN Catalog
        /\ r.parameters = Catalog[r.catalog_action_id].parameters
    BY <1>1, <1>2 DEF Typed
  <1> QED
    BY <1>3 DEF Refusal, UntypedCodes

LEMMA CheckStep == Considered /\ Evaluated /\ CheckEvidence /\ turn = "ended"
                       /\ UNCHANGED <<reasoner, turn>> /\ reason' = reason => Evaluated'
  <1> SUFFICES ASSUME Considered, Evaluated, CheckEvidence, turn = "ended",
                      UNCHANGED <<reasoner, turn>>, reason' = reason
               PROVE  Evaluated'
    OBVIOUS
  <1> QED
    BY DEF CheckEvidence, Evaluated, AssessmentsCiteTheContext, Decided, UntypedCodes

LEMMA RejectStep ==
    ASSUME Catalog = InitialCatalog, Considered, Evaluated, RejectAction, turn = "ended",
           UNCHANGED <<reasoner, turn>>, reason' = reason
    PROVE  Evaluated'
  <1> DEFINE action == candidate.recommended_actions[next]
  <1>1. /\ place = "recommendations" /\ place' = place /\ UNCHANGED candidate
        /\ next <= Len(candidate.recommended_actions) /\ next' = next + 1
        /\ reasons' = reasons \cup {Refusal(action)}
    BY DEF RejectAction
  <1>2. reasoner = "provider" => Refusal(action) \notin UntypedCodes
    <2>1. candidate.recommended_actions \in Seq(Recommendation)
      BY <1>1 DEF Evaluated, Considered, Lists
    <2>2. action \in ToSet(candidate.recommended_actions)
      BY <1>1, <2>1 DEF Evaluated, ToSet
    <2> QED
      BY <1>1, <2>2, SchemasAgree DEF Evaluated, Considered
  <1> HIDE DEF action
  <1> QED
    BY <1>1, <1>2 DEF Evaluated, AssessmentsCiteTheContext, Decided

LEMMA AcceptStep ==
    ASSUME Considered, Evaluated, AcceptAction, turn = "ended",
           UNCHANGED <<reasoner, turn>>, reason' = reason
    PROVE  Evaluated'
  BY DEF AcceptAction, Evaluated, AssessmentsCiteTheContext, Decided

\* The two ways to a decision.
LEMMA DecideStep ==
    ASSUME Considered, Evaluated, RefusePayload \/ Conclude, turn = "ended",
           UNCHANGED <<reasoner, turn>>,
           reason' \in {reason, "POLICY_SAFE_REVIEW", "COMPLETED"}
    PROVE  Evaluated'
  <1>1. place' = "decided" /\ UNCHANGED <<candidate, next, reasons>>
    BY DEF RefusePayload, Conclude, lists
  <1>2. reasoner' = "provider" => reason' # "EVIDENCE_REFERENCE_VIOLATION"
    BY DEF Evaluated
  <1>3. ASSUME decision' = SafeReview PROVE AssessmentsCiteTheContext'
    <2>1. ToSet(SafeReview.result.evidence) = {} /\ ToSet(SafeReview.result.tool_calls) = {}
      BY DEF SafeReview, ToSet
    <2>2. /\ SafeReview.result.disposition = "NEEDS_REVIEW"
          /\ SafeReview.reason_codes \cap UntypedCodes = {}
      BY DEF SafeReview, UntypedCodes
    <2> QED
      BY <1>2, <1>3, <2>1, <2>2 DEF AssessmentsCiteTheContext, UntypedCodes
  <1>4. ASSUME Conclude, decision' # SafeReview PROVE AssessmentsCiteTheContext'
    <2>1. place = "recommendations" /\ candidate # Malformed
      BY <1>4 DEF Conclude, Evaluated
    <2>2. /\ decision'.result.evidence = candidate.evidence
          /\ decision'.result.tool_calls = candidate.tool_calls
          /\ decision'.result.disposition =
                 IF ForcedReview THEN "NEEDS_REVIEW" ELSE candidate.disposition
          /\ decision'.reason_codes = Codes
      BY <1>4 DEF Conclude, Concluded, Enforced
    <2>3. Lists /\ ReferencesAreValid(candidate)
      BY <2>1 DEF Considered
    <2>4. ASSUME decision'.result.disposition # "NEEDS_REVIEW"
          PROVE  \E item \in Available : item \in ToSet(candidate.evidence)
      <3>1. ~ForcedReview /\ candidate.disposition # "NEEDS_REVIEW"
        BY <2>2, <2>4
      <3>2. candidate.evidence # <<>>
        BY <2>1, <3>1 DEF Evaluated, ForcedReview, ForcingCodes
      <3>3. candidate.evidence[1] \in ToSet(candidate.evidence)
        BY <2>3, <3>2 DEF Lists, ToSet
      <3> QED
        BY <2>3, <3>3 DEF ReferencesAreValid
    <2>5. reasoner = "provider" => Codes \cap UntypedCodes = {}
      BY <2>1 DEF Evaluated, Codes, UntypedCodes
    <2> QED
      BY <1>2, <2>2, <2>3, <2>4, <2>5
         DEF AssessmentsCiteTheContext, ReferencesAreValid, UntypedCodes
  <1> QED
    BY <1>1, <1>2, <1>3, <1>4 DEF Evaluated, RefusePayload

\* How the turn ended: without a candidate for every reason but the policy's own.
Ended ==
    /\ turn = "asking" => place = "received" /\ candidate = Malformed /\ reason = "None"
    /\ reason \in Terminations \cup {"EVIDENCE_REFERENCE_VIOLATION"} =>
           candidate = Malformed

\* What a turn may hand over.
LEMMA TurnOutcomes ==
    ASSUME TakeTurn
    PROVE  /\ turn = "asking" /\ turn' = "ended"
           /\ UNCHANGED <<place, next, issued, lists, decision, reasoner>>
           /\ \/ UNCHANGED candidate
              \/ candidate' \in Candidate /\ UNCHANGED reason
<1>1. /\ turn = "asking"
      /\ UNCHANGED <<place, next, issued, lists, decision, reasoner>>
  BY DEF TakeTurn
<1>2. ASSUME NEW c, Consider(c), c \in Candidate
      PROVE  /\ turn' = "ended"
             /\ \/ UNCHANGED candidate
                \/ candidate' \in Candidate /\ UNCHANGED reason
  BY <1>2 DEF Consider, EndWith
<1>3. CASE ProviderAnswers
  <2>1. PICK answer \in Answers :
            \/ /\ ConformsToSchema(answer) /\ KnownReferences(answer)
               /\ Consider(ToDomain(answer))
            \/ EndWith("REASONER_FAILURE")
    BY <1>3 DEF ProviderAnswers
  <2> QED  BY <1>1, <1>2, <2>1, Looked DEF EndWith
<1>4. CASE ReasonerAnswers
  BY <1>1, <1>2, <1>4, PolicyAssumption DEF ReasonerAnswers
<1>5. CASE Terminate
  BY <1>1, <1>5 DEF Terminate, EndWith
<1> QED  BY <1>3, <1>4, <1>5 DEF TakeTurn

\* The turn and the evaluation keep the invariant, whoever made the candidate.
LEMMA TurnKeepsInv ==
    Inv /\ Ended /\ [AssessmentNext]_assessmentVars => Inv' /\ Ended'
<1> SUFFICES ASSUME Inv, Ended, [AssessmentNext]_assessmentVars PROVE Inv' /\ Ended'
  OBVIOUS
<1>1. CASE TakeTurn
  <2>1. Inv'
    BY <1>1, TurnOutcomes, HandOver DEF Ended, Inv, Types
  <2>2. Ended'
    BY <1>1, TurnOutcomes DEF Ended, Terminations
  <2> QED  BY <2>1, <2>2
<1>2. CASE Decide
  <2>1. Inv'
    BY <1>2, NextInv DEF Decide
  <2>2. UNCHANGED candidate
    BY <1>2 DEF Decide, Next, RefusePayload, CheckEvidence, RejectAction, AcceptAction, Conclude
  <2>3. reason' \in {reason, "POLICY_SAFE_REVIEW", "COMPLETED"} /\ turn' = "ended"
    BY <1>2 DEF Decide
  <2> QED  BY <2>1, <2>2, <2>3 DEF Ended, Terminations
<1>3. CASE UNCHANGED assessmentVars
  BY <1>3, NextInv DEF assessmentVars, vars, Ended
<1> QED  BY <1>1, <1>2, <1>3 DEF AssessmentNext

\* Every evaluation, by itself or at the end of a run, is as Inv says.
LEMMA Invariance == (Spec => []Inv) /\ (AssessmentSpec => [](Inv /\ Ended))
<1>1. Spec => []Inv
  BY InitInv, NextInv, PTL DEF Spec
<1>2. TurnInit => Inv /\ Ended
  <2>1. TurnInit => Init
    BY DEF TurnInit, Init
  <2> QED  BY <2>1, InitInv DEF TurnInit, Ended, Terminations
<1>3. AssessmentSpec => [](Inv /\ Ended)
  BY <1>2, TurnKeepsInv, PTL DEF AssessmentSpec
<1> QED  BY <1>1, <1>3

-----------------------------------------------------------------------------
(* The scores *)

\* A decided evaluation is scored by what it decided.
LEMMA ScoreFields ==
    ASSUME NEW scenario
    PROVE  LET score == ScoreCase(scenario, Returned, ToolCalls) IN
           /\ score.actual_disposition = decision.result.disposition
           /\ score.policy_forced_safe_review = Forced(Returned)
           /\ score.policy_reason_codes = decision.reason_codes
           /\ score.unknown_action_attempted = ("UNKNOWN_ACTION" \in decision.reason_codes)
           /\ score.out_of_scope_action_attempted
                  = ("ACTION_TARGET_OUT_OF_SCOPE" \in decision.reason_codes)
           /\ score.candidate_reference_violation
                  = (reason = "EVIDENCE_REFERENCE_VIOLATION")
           /\ score.orchestration_bound_reached
                  = (reason \in {"ITERATION_LIMIT", "DEADLINE_EXCEEDED", "CONTEXT_LIMIT"})
           /\ score.approval_requirement_preserved
                  = (scenario.expected_approval_actions = ApprovalNamesOf(decision.result))
  BY DEF ScoreCase, Returned

\* The actions an approval is asked for are the actions.
LEMMA ApprovalNames ==
    ASSUME Inv, Decided
    PROVE  ApprovalNamesOf(decision.result) = ActionNamesOf(decision.result)
<1> DEFINE actions == decision.result.recommended_actions
           references == decision.result.actions_requiring_approval
           ids == {reference.action_id : reference \in ToSet(references)}
<1>1. /\ DOMAIN references = DOMAIN actions
      /\ \A i \in DOMAIN actions : references[i] = Reference(actions[i])
  <2>1. CASE decision = SafeReview
    BY <2>1 DEF SafeReview
  <2>2. CASE decision # SafeReview
    BY <2>2 DEF Inv, Outcome, Audited, ApprovalsBindTheActions
  <2> QED  BY <2>1, <2>2
<1>2. ASSUME NEW a \in ToSet(actions) PROVE a.action_id \in ids
  <2>1. PICK i \in DOMAIN actions : a = actions[i]
    BY DEF ToSet
  <2>2. references[i] \in ToSet(references)
    BY <1>1 DEF ToSet
  <2>3. references[i] = Reference(a)
    BY <1>1, <2>1
  <2>4. references[i].action_id = a.action_id
    BY <2>3 DEF Reference
  <2> QED  BY <2>2, <2>4
<1>3. {a \in ToSet(actions) : a.action_id \in ids} = ToSet(actions)
  BY <1>2
<1> QED  BY <1>3 DEF ApprovalNamesOf, ActionNamesOf

\* Every score of a decided evaluation is about its decision.
LEMMA DecidedScores ==
    ASSUME Inv, Ended, Decided, NEW scenario
    PROVE  ScoreFollows(scenario)
<1> DEFINE score == ScoreCase(scenario, Returned, ToolCalls)
           codes == decision.reason_codes
           forced == /\ decision.result.disposition = "NEEDS_REVIEW"
                     /\ codes \ {"CANDIDATE_ESCALATION"} # {}
<1>1. candidate = Malformed => decision = SafeReview
  BY DEF Inv, Outcome, OnlyBrokenCandidatesAreDiscarded
<1>2. decision = SafeReview => /\ decision.result.disposition = "NEEDS_REVIEW"
                               /\ codes = {"CANDIDATE_INVALID"}
  BY DEF SafeReview
<1>3. ASSUME decision # SafeReview
      PROVE  /\ decision.result.disposition
                    = IF Sound(candidate) THEN candidate.disposition ELSE "NEEDS_REVIEW"
             /\ codes \cap ForcingCodes = {} <=> Sound(candidate)
             /\ "CANDIDATE_ESCALATION" \in codes <=> candidate.escalation_required
             /\ "ACCEPTED" \in codes <=> codes = {"ACCEPTED"}
             /\ codes \subseteq ForcingCodes \cup {"ACCEPTED", "CANDIDATE_ESCALATION"}
             /\ codes \cap RefusalCodes # {} =>
                    \E a \in ToSet(candidate.recommended_actions) : ~Permitted(a)
  BY <1>3 DEF Inv, Outcome, Audited, ViolationsForceReview, ReasonsAreComplete
<1>4. score.policy_forced_safe_review = forced
  BY ScoreFields DEF Forced, Returned
<1>5. ASSUME Overruled PROVE forced /\ decision.result.disposition = "NEEDS_REVIEW"
  BY <1>1, <1>2, <1>3, <1>5 DEF Overruled, ForcingCodes, RefusalCodes
<1>6. ASSUME forced, ~Overruled
      PROVE  /\ candidate.disposition = "NEEDS_REVIEW"
             /\ ~candidate.escalation_required
             /\ codes = {"ACCEPTED"}
  BY <1>3, <1>6 DEF Overruled
<1>7. ASSUME "UNKNOWN_ACTION" \in codes \/ "ACTION_TARGET_OUT_OF_SCOPE" \in codes
      PROVE  /\ candidate # Malformed
             /\ \E a \in ToSet(candidate.recommended_actions) : ~Permitted(a)
  <2>1. decision # SafeReview
    BY <1>2, <1>7
  <2>2. codes \cap RefusalCodes # {}
    BY <1>7 DEF RefusalCodes
  <2> QED  BY <1>1, <1>3, <2>1, <2>2
<1>8. ASSUME reason \in {"ITERATION_LIMIT", "DEADLINE_EXCEEDED", "CONTEXT_LIMIT",
                         "EVIDENCE_REFERENCE_VIOLATION"}
      PROVE  decision = SafeReview
  BY <1>1, <1>8 DEF Ended, Terminations
<1>9. ApprovalNamesOf(decision.result) = ActionNamesOf(decision.result)
  BY ApprovalNames
<1> HIDE DEF score, forced
<1>10. /\ score.actual_disposition = decision.result.disposition
       /\ score.policy_reason_codes = codes
       /\ score.unknown_action_attempted = ("UNKNOWN_ACTION" \in codes)
       /\ score.out_of_scope_action_attempted = ("ACTION_TARGET_OUT_OF_SCOPE" \in codes)
       /\ score.candidate_reference_violation = (reason = "EVIDENCE_REFERENCE_VIOLATION")
       /\ score.orchestration_bound_reached
              = (reason \in {"ITERATION_LIMIT", "DEADLINE_EXCEEDED", "CONTEXT_LIMIT"})
       /\ score.approval_requirement_preserved
              = (scenario.expected_approval_actions = ApprovalNamesOf(decision.result))
  BY ScoreFields DEF score
<1>11. ScoreFollows(scenario) <=>
          /\ Overruled => forced /\ decision.result.disposition = "NEEDS_REVIEW"
          /\ forced /\ ~Overruled =>
                 /\ candidate.disposition = "NEEDS_REVIEW"
                 /\ ~candidate.escalation_required
                 /\ codes = {"ACCEPTED"}
          /\ score.unknown_action_attempted \/ score.out_of_scope_action_attempted =>
                 /\ candidate # Malformed
                 /\ \E a \in ToSet(candidate.recommended_actions) : ~Permitted(a)
          /\ score.orchestration_bound_reached \/ score.candidate_reference_violation =>
                 decision = SafeReview
          /\ score.approval_requirement_preserved <=>
                 scenario.expected_approval_actions = ActionNamesOf(decision.result)
  BY <1>4, <1>10 DEF ScoreFollows, score
<1> QED  BY <1>5, <1>6, <1>7, <1>8, <1>9, <1>10, <1>11

-----------------------------------------------------------------------------
(* The report *)

\* A set of numbers that is not empty has a least one.
LEMMA Least ==
    ASSUME NEW T \in SUBSET Nat, T # {}
    PROVE  \E m \in T : \A k \in T : m <= k
<1>1. PICK m \in T : \A k \in T : ~(<<k, m>> \in OpToRel(<, Nat))
  BY WFMin, NatLessThanWellFounded
<1>2. ASSUME NEW k \in T PROVE m <= k
  <2>1. k \in Nat /\ m \in Nat
    OBVIOUS
  <2>2. k < m => <<k, m>> \in OpToRel(<, Nat)
    BY <2>1 DEF OpToRel
  <2>3. ~(k < m)
    BY <1>1, <2>2
  <2> QED  BY <2>1, <2>3
<1> QED  BY <1>2

\* The sum over a set's elements, as the fold computes it: g[s] for the elements of s.
Sums(g, D, cell) ==
    g = [s \in D |-> IF s = {} THEN 0
                     ELSE cell[CHOOSE x \in s : TRUE] + g[s \ {CHOOSE x \in s : TRUE}]]

LEMMA SumsExist ==
    ASSUME NEW S, IsFiniteSet(S), NEW cell
    PROVE  \E g : Sums(g, SUBSET S, cell)
<1> DEFINE D(n) == {t \in SUBSET S : Cardinality(t) <= n}
           T == {n \in Nat : ~ \E g : Sums(g, D(n), cell)}
<1>0. \A t \in SUBSET S :
          /\ IsFiniteSet(t)
          /\ Cardinality(t) \in Nat /\ Cardinality(t) <= Cardinality(S)
  BY FS_Subset, FS_CardinalityType
<1>1. SUFFICES ASSUME T # {} PROVE FALSE
  <2>1. Cardinality(S) \in Nat
    BY FS_CardinalityType
  <2>2. D(Cardinality(S)) = SUBSET S
    BY <1>0
  <2>3. Cardinality(S) \notin T => \E g : Sums(g, D(Cardinality(S)), cell)
    BY <2>1
  <2> HIDE DEF T, D
  <2> QED  BY <2>2, <2>3
<1>2. PICK m \in T : \A k \in T : m <= k
  <2> HIDE DEF T
  <2>1. T \in SUBSET Nat
    BY DEF T
  <2> QED  BY <1>1, <2>1, Least
<1>3. CASE m = 0
  <2> DEFINE g == [s \in D(0) |-> 0]
  <2>1. \A s \in D(0) : s = {}
    BY <1>0, FS_EmptySet
  <2>2. Sums(g, D(0), cell)
    BY <2>1 DEF Sums
  <2> QED  BY <1>2, <1>3, <2>2
<1>4. CASE m # 0
  <2>1. /\ m - 1 \in Nat
        /\ m - 1 \notin T
    <3>1. m \in Nat
      OBVIOUS
    <3>2. ~(m <= m - 1)
      BY <3>1
    <3> HIDE DEF T
    <3> QED  BY <1>2, <1>4, <3>1, <3>2
  <2>2. PICK g : Sums(g, D(m - 1), cell)
    BY <2>1
  <2> DEFINE h == [s \in D(m) |-> IF s = {} THEN 0
                      ELSE cell[CHOOSE x \in s : TRUE] + g[s \ {CHOOSE x \in s : TRUE}]]
  <2>3. D(m - 1) \subseteq D(m)
    BY <1>0, <1>2
  <2>4. ASSUME NEW s \in D(m - 1) PROVE h[s] = g[s]
    BY <2>2, <2>3, <2>4 DEF Sums
  <2>5. ASSUME NEW s \in D(m), s # {} PROVE s \ {CHOOSE x \in s : TRUE} \in D(m - 1)
    <3> DEFINE x == CHOOSE y \in s : TRUE
    <3>1. x \in s
      BY <2>5
    <3> HIDE DEF x
    <3>2. /\ Cardinality(s \ {x}) = Cardinality(s) - 1
      BY <1>0, <3>1, FS_RemoveElement
    <3>3. Cardinality(s \ {x}) <= m - 1
      BY <1>0, <1>2, <3>2
    <3>4. s \ {x} \in D(m - 1)
      BY <3>3
    <3> QED  BY <3>4 DEF x
  <2>6. ASSUME NEW s \in D(m)
        PROVE  h[s] = IF s = {} THEN 0
                      ELSE cell[CHOOSE x \in s : TRUE] + h[s \ {CHOOSE x \in s : TRUE}]
    <3>1. CASE s = {}
      BY <3>1
    <3>2. CASE s # {}
      <4>1. h[s \ {CHOOSE x \in s : TRUE}] = g[s \ {CHOOSE x \in s : TRUE}]
        BY <2>4, <2>5, <3>2
      <4> QED  BY <3>2, <4>1
    <3> QED  BY <3>1, <3>2
  <2>7. Sums(h, D(m), cell)
    <3>1. h = [s \in D(m) |-> h[s]]
      OBVIOUS
    <3> HIDE DEF h
    <3> QED  BY <2>6, <3>1 DEF Sums
  <2> QED  BY <1>2, <2>7
<1> QED  BY <1>3, <1>4

SumOf(cell, S) == MapThenSumSet(LAMBDA p : cell[p], S)

LEMMA SumUnfolds ==
    ASSUME NEW S, IsFiniteSet(S), NEW cell
    PROVE \E g : Sums(g, SUBSET S, cell) /\ SumOf(cell, S) = g[S]
<1> DEFINE G(g) == g = [s \in SUBSET S |-> IF s = {} THEN 0
               ELSE cell[CHOOSE x \in s : TRUE] + g[s \ {CHOOSE x \in s : TRUE}]]
           h == CHOOSE g : G(g)
<1>1. G(h)
  <2>1. \E g : G(g)
    <3>1. PICK g : Sums(g, SUBSET S, cell)
      BY SumsExist
    <3>2. G(g)
      BY <3>1 DEF Sums
    <3> HIDE DEF G
    <3> QED  BY <3>2
  <2> HIDE DEF G
  <2> QED  BY <2>1
<1>2. SumOf(cell, S) = h[S]
  BY DEF SumOf, MapThenSumSet, MapThenFoldSet
<1>3. Sums(h, SUBSET S, cell)
  <2> HIDE DEF h
  <2> QED  BY <1>1 DEF Sums
<1> HIDE DEF h
<1> QED  BY <1>2, <1>3

\* The classes of a finite set's elements, counted class by class, are all of them.
Members(class, N, p) == {i \in N : class[i] = p}

LEMMA ClassesAddUp ==
    ASSUME NEW N, IsFiniteSet(N), NEW class, NEW S, S = {class[i] : i \in N},
           NEW cell, \A p \in S : cell[p] = Cardinality(Members(class, N, p))
    PROVE  SumOf(cell, S) = Cardinality(N)
<1> DEFINE In(s) == {i \in N : class[i] \in s}
<1>1. IsFiniteSet(S)
  <2>1. [i \in N |-> class[i]] \in Surjection(N, S)
    BY DEF Surjection
  <2> QED  BY <2>1, FS_Surjection DEF ExistsSurjection
<1>2. PICK h : Sums(h, SUBSET S, cell) /\ SumOf(cell, S) = h[S]
  BY <1>1, SumUnfolds
<1> DEFINE T == {Cardinality(s) : s \in {t \in SUBSET S : h[t] # Cardinality(In(t))}}
<1>3. \A s \in SUBSET S : IsFiniteSet(s) /\ Cardinality(s) \in Nat
  BY <1>1, FS_Subset, FS_CardinalityType
<1>4. SUFFICES ASSUME T # {} PROVE FALSE
  <2>1. h[S] = Cardinality(In(S))
    <3>1. h[S] # Cardinality(In(S)) => Cardinality(S) \in T
      OBVIOUS
    <3> HIDE DEF In, T
    <3> QED  BY <1>4, <3>1
  <2>2. In(S) = N
    OBVIOUS
  <2> QED  BY <1>2, <2>1, <2>2
<1>5. PICK m \in T : \A k \in T : m <= k
  <2>1. T \in SUBSET Nat
    BY <1>3
  <2> HIDE DEF T
  <2> QED  BY <1>4, <2>1, Least
<1>6. PICK s \in SUBSET S : h[s] # Cardinality(In(s)) /\ m = Cardinality(s)
  OBVIOUS
<1>7. CASE s = {}
  <2>1. In(s) = {}
    BY <1>7
  <2>2. h[s] = 0
    BY <1>2, <1>7 DEF Sums
  <2> HIDE DEF In
  <2> QED  BY <1>6, <2>1, <2>2, FS_EmptySet
<1>8. CASE s # {}
  <2> DEFINE x == CHOOSE y \in s : TRUE
             r == s \ {x}
  <2>1. x \in s
    BY <1>8
  <2>2. h[s] = cell[x] + h[r]
    BY <1>2, <1>8 DEF Sums
  <2> HIDE DEF x
  <2>3. Cardinality(r) = m - 1 /\ m \in Nat /\ r \in SUBSET S
    BY <1>3, <1>6, <2>1, FS_RemoveElement
  <2>4. h[r] = Cardinality(In(r))
    <3>1. h[r] # Cardinality(In(r)) => Cardinality(r) \in T
      BY <2>3
    <3> HIDE DEF T, r
    <3> QED  BY <1>5, <2>3, <3>1
  <2>5. cell[x] = Cardinality({i \in N : class[i] = x})
    BY <2>1 DEF Members
  <2>6. Cardinality(In(s)) = Cardinality({i \in N : class[i] = x}) + Cardinality(In(r))
    <3> DEFINE A == {i \in N : class[i] = x}
    <3>1. A \in SUBSET N /\ In(r) \in SUBSET N
      OBVIOUS
    <3>2. /\ IsFiniteSet(A) /\ IsFiniteSet(In(r))
          /\ Cardinality(A) \in Nat /\ Cardinality(In(r)) \in Nat
      BY <3>1, FS_Subset, FS_CardinalityType
    <3>3. In(s) = A \cup In(r) /\ A \cap In(r) = {}
      BY <2>1
    <3> HIDE DEF A, In
    <3>4. Cardinality(A \cup In(r))
              = Cardinality(A) + Cardinality(In(r)) - Cardinality(A \cap In(r))
      BY <3>2, FS_Union
    <3>5. Cardinality(A \cap In(r)) = 0
      BY <3>3, FS_EmptySet
    <3>6. Cardinality(In(s)) = Cardinality(A) + Cardinality(In(r))
      BY <3>2, <3>3, <3>4, <3>5
    <3> QED  BY <3>6 DEF A
  <2> QED  BY <1>6, <2>2, <2>4, <2>5, <2>6
<1> QED  BY <1>7, <1>8

\* What a report needs to know of a score, whatever the outcome.
LEMMA ScoreOfCase ==
    ASSUME NEW scenario \in Scenarios, NEW outcome, NEW calls
    PROVE  LET score == ScoreCase(scenario, outcome, calls)
               first == scenario.allowed_dispositions[1] IN
           /\ score.disposition_status \in {"EXACT", "ACCEPTABLE", "FAILURE"}
           /\ outcome.result.disposition = "NO_RESULT" => score.disposition_status = "FAILURE"
           /\ score.expected_dispositions = scenario.allowed_dispositions
           /\ score.binary_participant <=> scenario.binary_label # "AMBIGUOUS"
           /\ score.false_positive =>
                  scenario.binary_label = "NON_MALICIOUS"
           /\ score.false_negative =>
                  scenario.binary_label = "MALICIOUS"
<1> DEFINE score == ScoreCase(scenario, outcome, calls)
           allowed == scenario.allowed_dispositions
           actual == outcome.result.disposition
<1>1. /\ score.disposition_status = Match(scenario, actual)
      /\ score.expected_dispositions = allowed
      /\ score.binary_participant = (scenario.binary_label # "AMBIGUOUS")
      /\ score.false_positive = (scenario.binary_label = "NON_MALICIOUS" /\ actual = "MALICIOUS")
      /\ score.false_negative = (scenario.binary_label = "MALICIOUS" /\ actual # "MALICIOUS")
  BY DEF ScoreCase
<1>2. allowed \in Seq({"BENIGN", "SUSPICIOUS", "MALICIOUS", "NEEDS_REVIEW"}) /\ allowed # <<>>
  BY AssessmentAssumption DEF IsScenario
<1>3. ASSUME actual = "NO_RESULT" PROVE Match(scenario, actual) = "FAILURE"
  <2>1. \A i \in DOMAIN allowed :
            allowed[i] \in {"BENIGN", "SUSPICIOUS", "MALICIOUS", "NEEDS_REVIEW"}
    BY <1>2, ElementOfSeq
  <2>2. 1 \in DOMAIN allowed
    BY <1>2, EmptySeq, LenProperties
  <2>3. actual # allowed[1]
    BY <1>3, <2>1, <2>2
  <2>4. actual \notin ToSet(allowed)
    BY <1>3, <2>1 DEF ToSet
  <2> QED  BY <2>3, <2>4 DEF Match
<1>4. Match(scenario, actual) \in {"EXACT", "ACCEPTABLE", "FAILURE"}
  BY DEF Match
<1> HIDE DEF score
<1> QED  BY <1>1, <1>3, <1>4 DEF score

\* The suite's scores: twice as many as scenarios, the second half without an outcome.
LEMMA ScoresOfSuite ==
    LET k == Cardinality(Scenarios) IN
    /\ k \in Nat
    /\ DOMAIN SuiteScores = 1..(2 * k) /\ Len(SuiteScores) = 2 * k
    /\ \A i \in 1..(2 * k) :
           \E scenario \in Scenarios, outcome \in {Returned, NotStored},
              calls \in {ToolCalls, <<>>} :
               /\ SuiteScores[i] = ScoreCase(scenario, outcome, calls)
               /\ i > k => outcome = NotStored
<1> DEFINE k == Cardinality(Scenarios)
           suite == SetToSeq(Scenarios)
<1>1. k \in Nat /\ ExistsBijection(1..k, Scenarios)
  BY AssessmentAssumption, FS_CardinalityType
<1>2. suite \in [1..k -> Scenarios]
  <2>1. \E f \in [1..k -> Scenarios] : IsInjective(f)
    BY <1>1 DEF ExistsBijection, Bijection, Injection, IsInjective
  <2> HIDE DEF k
  <2>2. suite = CHOOSE f \in [1..k -> Scenarios] : IsInjective(f)
    BY DEF SetToSeq, k
  <2> HIDE DEF suite
  <2> QED  BY <2>1, <2>2
<1> HIDE DEF k, suite
<1>3. suite \in Seq(Scenarios) /\ Len(suite) = k
  BY <1>1, <1>2, LenProperties
<1>4. SuiteScores =
          [i \in 1..(2 * k) |->
              IF i <= k THEN ScoreCase(suite[i], Returned, ToolCalls)
                        ELSE ScoreCase(suite[i - k], NotStored, <<>>)]
  BY <1>3 DEF SuiteScores, suite
<1>5. DOMAIN SuiteScores = 1..(2 * k)
  BY <1>4
<1>6. Len(SuiteScores) = 2 * k
  <2> DEFINE S == {SuiteScores[i] : i \in 1..(2 * k)}
  <2>1. SuiteScores \in [1..(2 * k) -> S]
    BY <1>4
  <2> HIDE DEF S
  <2>2. SuiteScores \in Seq(S) /\ 2 * k \in Nat
    BY <1>1, <2>1
  <2> QED  BY <2>1, <2>2, LenProperties
<1>7. ASSUME NEW i \in 1..(2 * k)
      PROVE  \E scenario \in Scenarios, outcome \in {Returned, NotStored},
                calls \in {ToolCalls, <<>>} :
                 /\ SuiteScores[i] = ScoreCase(scenario, outcome, calls)
                 /\ i > k => outcome = NotStored
  <2>1. CASE i <= k
    <3>1. suite[i] \in Scenarios /\ SuiteScores[i] = ScoreCase(suite[i], Returned, ToolCalls)
      BY <1>1, <1>2, <1>4, <2>1
    <3>2. ~(i > k)
      BY <1>1, <2>1
    <3> QED  BY <3>1, <3>2
  <2>2. CASE ~(i <= k)
    <3>1. i - k \in 1..k
      BY <1>1, <2>2
    <3>2. /\ suite[i - k] \in Scenarios
          /\ SuiteScores[i] = ScoreCase(suite[i - k], NotStored, <<>>)
      BY <1>2, <1>4, <2>2, <3>1
    <3> QED  BY <3>2
  <2> QED  BY <2>1, <2>2
<1> QED  BY <1>1, <1>5, <1>6, <1>7 DEF k

\* A report's numbers, for every suite and every outcome.
LEMMA Aggregates == AggregateHolds
<1> DEFINE scores == SuiteScores
           report == AggregateScores(scores)
           k == Cardinality(Scenarios)
           N == DOMAIN scores
           Status(v) == {i \in N : scores[i].disposition_status = v}
           FP == {i \in N : scores[i].false_positive}
           FN == {i \in N : scores[i].false_negative}
           Mal == {i \in N : scores[i].binary_participant /\ SaysMalicious(scores[i])}
           Non == {i \in N : scores[i].binary_participant /\ ~SaysMalicious(scores[i])}
           pair == [i \in N |-> <<scores[i].expected_dispositions[1],
                                 scores[i].actual_disposition>>]
           pairs == {pair[i] : i \in N}
           cells == [p \in pairs |-> Cardinality(Members(pair, N, p))]
<1>1. k \in Nat /\ N = 1..(2 * k) /\ Len(scores) = 2 * k
  BY ScoresOfSuite
<1>2. IsFiniteSet(N) /\ Cardinality(N) = 2 * k
  BY <1>1, FS_Interval
<1> HIDE DEF scores, report, k
<1>3. /\ report.scenario_count = 2 * k
      /\ report.exact_count = Cardinality(Status("EXACT"))
      /\ report.acceptable_count = Cardinality(Status("ACCEPTABLE"))
      /\ report.failure_count = Cardinality(Status("FAILURE"))
      /\ report.false_positives = Cardinality(FP)
      /\ report.false_negatives = Cardinality(FN)
      /\ report.malicious_ground_truth_count = Cardinality(Mal)
      /\ report.non_malicious_ground_truth_count = Cardinality(Non)
      /\ report.confusion_matrix = cells
  <2>2. report.scenario_count = 2 * k
    BY <1>1 DEF report, AggregateScores
  <2>3. /\ report.exact_count = Cardinality(Status("EXACT"))
        /\ report.acceptable_count = Cardinality(Status("ACCEPTABLE"))
        /\ report.failure_count = Cardinality(Status("FAILURE"))
    BY DEF report, AggregateScores, Scores, Quantify, Members
  <2>4. /\ report.false_positives = Cardinality(FP)
        /\ report.false_negatives = Cardinality(FN)
    BY DEF report, AggregateScores, Scores, Quantify, Members
  <2>5. /\ report.malicious_ground_truth_count = Cardinality(Mal)
        /\ report.non_malicious_ground_truth_count = Cardinality(Non)
    BY DEF report, AggregateScores, Scores, Quantify, Members
  <2>6. report.confusion_matrix = cells
    BY DEF report, AggregateScores, Scores, Quantify, Members
  <2> QED  BY <2>2, <2>3, <2>4, <2>5, <2>6
<1> HIDE DEF N
<1>4. ASSUME NEW i \in N
      PROVE  /\ scores[i].disposition_status \in {"EXACT", "ACCEPTABLE", "FAILURE"}
             /\ i > k => scores[i].disposition_status = "FAILURE"
             /\ LabelsAgree => (scores[i].false_positive => i \in Non)
             /\ LabelsAgree => (scores[i].false_negative => i \in Mal)
  <2>1. PICK scenario \in Scenarios, outcome \in {Returned, NotStored},
             calls \in {ToolCalls, <<>>} :
            /\ scores[i] = ScoreCase(scenario, outcome, calls)
            /\ i > k => outcome = NotStored
    BY ScoresOfSuite DEF scores, N, k
  <2>2. NotStored.result.disposition = "NO_RESULT"
    BY DEF NotStored, NoResult
  <2> DEFINE first == scenario.allowed_dispositions[1]
  <2>3. /\ scores[i].disposition_status \in {"EXACT", "ACCEPTABLE", "FAILURE"}
        /\ outcome.result.disposition = "NO_RESULT" =>
               scores[i].disposition_status = "FAILURE"
        /\ scores[i].expected_dispositions = scenario.allowed_dispositions
        /\ scores[i].binary_participant <=> scenario.binary_label # "AMBIGUOUS"
        /\ scores[i].false_positive => scenario.binary_label = "NON_MALICIOUS"
        /\ scores[i].false_negative => scenario.binary_label = "MALICIOUS"
    BY <2>1, ScoreOfCase
  <2>4. LabelsAgree => /\ scenario.binary_label = "MALICIOUS" => first = "MALICIOUS"
                       /\ scenario.binary_label = "NON_MALICIOUS" => first # "MALICIOUS"
    BY DEF LabelsAgree
  <2>5. SaysMalicious(scores[i]) <=> first = "MALICIOUS"
    BY <2>3 DEF SaysMalicious
  <2> HIDE DEF first
  <2> QED  BY <2>1, <2>2, <2>3, <2>4, <2>5
<1>5. /\ \A v : Status(v) \in SUBSET N
      /\ FP \in SUBSET N /\ FN \in SUBSET N /\ Mal \in SUBSET N /\ Non \in SUBSET N
  OBVIOUS
<1>6. \A T \in SUBSET N : IsFiniteSet(T) /\ Cardinality(T) \in Nat
  BY <1>2, FS_Subset, FS_CardinalityType
<1>7. Cardinality(Status("EXACT")) + Cardinality(Status("ACCEPTABLE"))
          + Cardinality(Status("FAILURE")) = 2 * k
  <2> DEFINE E == Status("EXACT")  A == Status("ACCEPTABLE")  F == Status("FAILURE")
  <2>1. /\ E \cap A = {} /\ (E \cup A) \cap F = {}
        /\ (E \cup A) \cup F = N
        /\ E \cup A \in SUBSET N
    BY <1>4
  <2> HIDE DEF Status
  <2>2. /\ Cardinality(E \cup A) = Cardinality(E) + Cardinality(A) - Cardinality(E \cap A)
    BY <1>5, <1>6, FS_Union
  <2>3. Cardinality((E \cup A) \cup F)
            = Cardinality(E \cup A) + Cardinality(F) - Cardinality((E \cup A) \cap F)
    BY <1>5, <1>6, <2>1, FS_Union
  <2>4. Cardinality(E \cap A) = 0 /\ Cardinality((E \cup A) \cap F) = 0
    BY <2>1, FS_EmptySet
  <2>5. Cardinality(E) \in Nat /\ Cardinality(A) \in Nat /\ Cardinality(F) \in Nat
    BY <1>5, <1>6
  <2> HIDE DEF E, A, F
  <2>6. Cardinality(E) + Cardinality(A) + Cardinality(F) = 2 * k
    <3> DEFINE EA == E \cup A  all == EA \cup F
    <3>1. Cardinality(all) = Cardinality(N)
      BY <2>1
    <3>2. Cardinality(EA) = Cardinality(E) + Cardinality(A)
      BY <2>2, <2>4, <2>5
    <3>3. Cardinality(all) = Cardinality(EA) + Cardinality(F)
      BY <2>3, <2>4, <2>5, <3>2
    <3> HIDE DEF EA, all
    <3> QED  BY <1>2, <3>1, <3>2, <3>3
  <2> QED  BY <2>6 DEF E, A, F
<1>8. SumOf(cells, pairs) = 2 * k
  <2>1. \A p \in pairs : cells[p] = Cardinality(Members(pair, N, p))
    OBVIOUS
  <2>2. pairs = {pair[i] : i \in N}
    OBVIOUS
  <2> HIDE DEF cells, pair, pairs
  <2> QED  BY <1>2, <2>1, <2>2, ClassesAddUp
<1>9. MapThenSumSet(LAMBDA p : report.confusion_matrix[p], DOMAIN report.confusion_matrix)
          = report.scenario_count
  <2>1. DOMAIN cells = pairs
    OBVIOUS
  <2> HIDE DEF cells, pairs
  <2> QED  BY <1>3, <1>8, <2>1 DEF SumOf
<1>10. LabelsAgree => /\ Cardinality(FP) <= Cardinality(Non)
                      /\ Cardinality(FN) <= Cardinality(Mal)
  <2> SUFFICES ASSUME LabelsAgree PROVE /\ Cardinality(FP) <= Cardinality(Non)
                                        /\ Cardinality(FN) <= Cardinality(Mal)
    OBVIOUS
  <2>1. FP \in SUBSET Non /\ FN \in SUBSET Mal
    BY <1>4
  <2> HIDE DEF FP, FN, Non, Mal
  <2> QED  BY <1>5, <1>6, <2>1, FS_Subset
<1>11. Cardinality(Status("FAILURE")) >= k
  <2> DEFINE late == (k + 1)..(2 * k)
             F == Status("FAILURE")
  <2>1. late \in SUBSET F
    BY <1>1, <1>4
  <2>2. IsFiniteSet(F) /\ Cardinality(F) \in Nat
    BY <1>5, <1>6
  <2>3. Cardinality(late) = k
    BY <1>1, FS_Interval
  <2> HIDE DEF late, F
  <2>4. Cardinality(late) <= Cardinality(F)
    BY <2>1, <2>2, FS_Subset
  <2>5. Cardinality(F) >= k
    BY <1>1, <2>2, <2>3, <2>4
  <2> QED  BY <2>5 DEF F
<1>12. /\ report.exact_count + report.acceptable_count + report.failure_count
               = report.scenario_count
       /\ LabelsAgree =>
              /\ report.false_positives <= report.non_malicious_ground_truth_count
              /\ report.false_negatives <= report.malicious_ground_truth_count
       /\ report.failure_count >= k
  BY <1>3, <1>7, <1>10, <1>11
<1> QED  BY <1>9, <1>12, Zenon DEF AggregateHolds, report, scores, k

-----------------------------------------------------------------------------
(* The theorems *)

\* The evaluation's lists and its decision keep their types.
THEOREM TypeCorrect == Spec => []TypeOK
<1>1. Init => candidate \in Candidates \cup {Malformed}
  BY DEF Init
<1>2. candidate \in Candidates \cup {Malformed} /\ [Next]_vars
          => (candidate \in Candidates \cup {Malformed})'
  BY DEF Next, vars, RefusePayload, CheckEvidence, RejectAction, AcceptAction, Conclude
<1>3. Inv /\ candidate \in Candidates \cup {Malformed} => TypeOK
  BY DEF Inv, Types, TypeOK, ReasonCodes, ApprovalRef, Refused
<1> QED  BY Invariance, <1>1, <1>2, <1>3, PTL DEF Spec

\* evaluate discards a candidate for the bare safe review only when the candidate
\* itself is malformed or refers to what it does not bring along.
THEOREM DiscardsOnlyBroken ==
    (Spec => []OnlyBrokenCandidatesAreDiscarded)
        /\ (AssessmentSpec => []OnlyBrokenCandidatesAreDiscarded)
<1>1. Inv => OnlyBrokenCandidatesAreDiscarded
  BY DEF Inv, Outcome
<1> QED  BY Invariance, <1>1, PTL

\* evaluate answers every recommendation: a permitted one with an action at its place
\* among the permitted ones, any other with a rejection at its place among the rest.
THEOREM RecommendationsAnswered ==
    (Spec => []EveryRecommendationIsAnswered)
        /\ (AssessmentSpec => []EveryRecommendationIsAnswered)
<1>1. Inv => EveryRecommendationIsAnswered
  BY DEF Inv, Outcome
<1> QED  BY Invariance, <1>1, PTL

\* The result asks for an approval of each of its actions, bound to its material.
THEOREM ApprovalsBind ==
    (Spec => []ApprovalsBindTheActions)
        /\ (AssessmentSpec => []ApprovalsBindTheActions)
<1>1. Inv => ApprovalsBindTheActions
  BY DEF Inv, Outcome
<1> QED  BY Invariance, <1>1, PTL

\* A review is forced exactly when the candidate breaks a rule of the policy.
THEOREM ViolationsForce ==
    (Spec => []ViolationsForceReview)
        /\ (AssessmentSpec => []ViolationsForceReview)
<1>1. Inv => ViolationsForceReview
  BY DEF Inv, Outcome
<1> QED  BY Invariance, <1>1, PTL

\* The reason codes that the audit records tell exactly which kind of decision it was.
THEOREM ReasonsComplete ==
    (Spec => []ReasonsAreComplete)
        /\ (AssessmentSpec => []ReasonsAreComplete)
<1>1. Inv => ReasonsAreComplete
  BY DEF Inv, Outcome
<1> QED  BY Invariance, <1>1, PTL

\* No decision, final or not, holds an action that is not in the catalog, not on an
\* entity of the alert or not with its parameters.
THEOREM OnlyPermittedActions ==
    AssessmentSpec => [](\A i \in DOMAIN decision.result.recommended_actions :
        Permitted(Material(decision.result.recommended_actions[i])))
<1>1. Inv => \A i \in DOMAIN decision.result.recommended_actions :
                 Permitted(Material(decision.result.recommended_actions[i]))
  BY DEF Inv, Outcome
<1> QED  BY Invariance, <1>1, PTL

\* What a decision rests on is evidence of this very run, item by item, whichever
\* reasoner made it up, and the provider's looked-up references and typed actions are
\* never refused as foreign, unknown or ill-parameterised.
THEOREM DecisionsCiteTheContext ==
    Catalog = InitialCatalog => (AssessmentSpec => []AssessmentsCiteTheContext)
  <1> SUFFICES ASSUME Catalog = InitialCatalog
               PROVE  AssessmentSpec => []AssessmentsCiteTheContext
    OBVIOUS
  <1>1. Considered /\ Evaluated /\ [AssessmentNext]_assessmentVars
            => (Considered /\ Evaluated)'
    <2> SUFFICES ASSUME Considered, Evaluated, [AssessmentNext]_assessmentVars
                 PROVE  Considered' /\ Evaluated'
      OBVIOUS
    <2>1. CASE TakeTurn
      BY <2>1, TurnStep
    <2>2. CASE UNCHANGED assessmentVars
      BY <2>2 DEF assessmentVars, Considered, Lists, ReferencesAreValid, Evaluated,
         AssessmentsCiteTheContext, Decided
    <2>3. CASE Decide
      <3>1. /\ turn = "ended" /\ UNCHANGED <<reasoner, turn>>
            /\ place' # "decided" => reason' = reason
            /\ reason' \in {reason, "POLICY_SAFE_REVIEW", "COMPLETED"}
        BY <2>3 DEF Decide
      <3>2. UNCHANGED candidate
        BY <2>3 DEF Decide, Next, RefusePayload, CheckEvidence, RejectAction, AcceptAction,
           Conclude
      <3>3. Considered'
        BY <3>1, <3>2 DEF Considered, Lists, ReferencesAreValid
      <3>4. CASE RefusePayload \/ Conclude
        BY <3>1, <3>3, <3>4, DecideStep
      <3>5. CASE CheckEvidence \/ RejectAction \/ AcceptAction
        <4>1. place' # "decided"
          BY <3>5 DEF CheckEvidence, RejectAction, AcceptAction
        <4>2. reason' = reason
          BY <3>1, <4>1
        <4> QED
          BY <3>1, <3>3, <3>5, <4>2, CheckStep, RejectStep, AcceptStep
      <3> QED
        BY <2>3, <3>3, <3>4, <3>5 DEF Decide, Next
    <2> QED
      BY <2>1, <2>2, <2>3 DEF AssessmentNext
  <1>2. Evaluated => AssessmentsCiteTheContext
    BY DEF Evaluated
  <1> QED
    BY <1>1, <1>2, InitCites, PTL DEF AssessmentSpec

\* An evaluation's score tells what the policy did with the run: a candidate that was
\* overruled is a forced review and gets no credit for what it said, a flag for an
\* attempted action is about a recommendation that was made, a reached bound is a safe
\* review, and the expected approvals are compared with all the actions.  The report
\* counts every score once in each breakdown, and its rates are rates.
THEOREM ScoresFollow == AssessmentSpec => []ScoresFollowTheDecision
<1>1. Inv /\ Ended => ScoresFollowTheDecision
  BY DecidedScores, Aggregates DEF ScoresFollowTheDecision
<1> QED  BY Invariance, <1>1, PTL
===============================================================================
