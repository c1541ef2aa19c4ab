SPECIFICATION ViewSpec
CONSTANTS
    a1 = a1
    Calls = {c1, c2, c3}
    Actions = {a1}
    Actors = {p1, p2}
    Reviewers = {p1, p2}
    ApprovalLifetime = 1
    StaleAfter = 1
    CallBudget = 9
    MaxTime = 2
    LastCall = 1
    MaxFaults = 1
    Shown = a1
SYMMETRY Symmetry
INVARIANTS
    SimulatedAtMostOnce
    OnlyApprovedActionsRun
    RecordedDecisionsStand
    SuccessIsEarned
    AuditExplainsStage
    ViewsStayTrue
