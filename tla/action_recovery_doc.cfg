SPECIFICATION Spec
CONSTANTS
    Calls = {c1, c2}
    Actions = {a1}
    Actors = {p1}
    Reviewers = {p1}
    ApprovalLifetime = 2
    StaleAfter = 1
    CallBudget = 9
    MaxTime = 3
    LastCall = 1
    MaxFaults = 0
PROPERTIES
    FailedStaysFailed
