SPECIFICATION Spec
CONSTANTS
    ToolNames = {t1, t2, unknown}
    Registered = {t1, t2}
    Entities = {e1, e2, e3, foreign}
    Scope = {e1, e2, e3}
    MaxIterations = 5
    MaxEvidence = 3
    Deadline = 2
    TotalCalls = 3
    PerToolCalls = 2
    ToolTimeout = 1
    CommitTime = 1
SYMMETRY Symmetry
CHECK_DEADLOCK FALSE
INVARIANTS
    CallsStayInBudget
    NoCallIsRepeated
    EvidenceIsGenuine
    EndsInTime
    OneThreadLeftBehind
PROPERTIES
    IsAdvisoryLoop
