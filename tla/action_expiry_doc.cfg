SPECIFICATION Spec
CONSTANTS
    Calls = {c1, c2}
    Actions = {a1}
    Actors = {p1}
    Reviewers = {p1}
    ApprovalLifetime = 1
    StaleAfter = 9
    CallBudget = 9
    MaxTime = 2
    LastCall = 1
    MaxFaults = 0
PROPERTIES
    ExpiredCannotExecute
