SPECIFICATION AssessmentSpec
CONSTANTS
    user = user
    device = device
    stranger = stranger
    e1 = e1
    e2 = e2
    e3 = e3
    c1 = c1
    c2 = c2
    c3 = c3
    NoCall = NoCall
    Malformed = Malformed
    Catalog <- InitialCatalog
    ActionNames <- Names
    Identifiers = {user, device, stranger}
    Scope <- AlertScope
    EvidenceIds = {e1, e2, e3}
    CallIds = {c1, c2, c3}
    Candidates <- Assessments
    Available <- Collected
    Answers <- ProviderAnswersTried
    Scenarios <- Suite
    ToolCalls <- Invocations
CHECK_DEADLOCK FALSE
INVARIANTS
    OnlyBrokenCandidatesAreDiscarded
    EveryRecommendationIsAnswered
    ApprovalsBindTheActions
    ViolationsForceReview
    ReasonsAreComplete
    AssessmentsCiteTheContext
    ScoresFollowTheDecision
