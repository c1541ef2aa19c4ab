SPECIFICATION Spec
CONSTANTS
    Runs = {r1, r2}
    Keys = {k1}
    MaxIterations = 1
    MaxEvidence = 1
    StaleAfter = 1
    RunBudget = 1
    MaxTime = 1
    LastRequest = 1
    MaxFaults = 0
SYMMETRY Symmetry
INVARIANTS
    ReplayReturnsTheResult
