SPECIFICATION Spec
CONSTANTS
    Runs = {r1}
    Keys = {k1}
    MaxIterations = 1
    MaxEvidence = 1
    StaleAfter = 1
    RunBudget = 9
    MaxTime = 4
    LastRequest = 4
    MaxFaults = 2
SYMMETRY Symmetry
PROPERTIES
    FollowsLifecycle
