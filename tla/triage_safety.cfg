SPECIFICATION Spec
CONSTANTS
    Runs = {r1, r2}
    Keys = {k1, k2}
    MaxIterations = 2
    MaxEvidence = 1
    StaleAfter = 1
    RunBudget = 9
    MaxTime = 2
    LastRequest = 2
    MaxFaults = 2
SYMMETRY Symmetry
INVARIANTS
    TypeOK
    OneExecutionPerKey
    OneWorkerPerKey
    AuditExplainsState
    ResultMatchesState
    AssessmentRestsOnStoredEvidence
    DurableRepliesAreStored
PROPERTIES
    OnlyRecoveryFailsFinished
    RunsFollowLoop
