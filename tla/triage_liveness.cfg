SPECIFICATION ViewSpec
CONSTANTS
    r1 = r1
    r2 = r2
    k1 = k1
    Runs = {r1, r2}
    Keys = {k1}
    MaxIterations = 1
    MaxEvidence = 1
    StaleAfter = 1
    RunBudget = 1
    MaxTime = 3
    LastRequest = 1
    MaxFaults = 2
    Shown = r1
INVARIANTS
    PagesHangTogether
PROPERTIES
    RunsAnswer
    NoExecutionRunsForever
    TerminalStatesAreFinal
    FollowsLifecycle
