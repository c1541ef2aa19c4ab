SPECIFICATION Spec
CONSTANTS
    i1 = i1
    i2 = i2
    q1 = q1
    q2 = q2
    v1 = v1
    v2 = v2
    s1 = s1
    s2 = s2
    a1 = a1
    a2 = a2
    k1 = k1
    d1 = d1
    d2 = d2
    t1 = t1
    t2 = t2
    None = None
    Ingests = {i1, i2}
    Requests = {q1, q2}
    Evaluations = {v1, v2}
    Scenarios = {s1, s2}
    Alerts = {a1, a2}
    Keys = {k1}
    Contents <- Sent
    MaxCalls = 3
    MaxFaults = 1
SYMMETRY Interchangeable
CHECK_DEADLOCK FALSE
INVARIANTS
    AcknowledgedAlertsAreStored
    AnswersConcernTheAlert
    ReportsAreComplete
