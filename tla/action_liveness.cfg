SPECIFICATION FairSpec
CONSTANTS
    Calls = {c1, c2, c3}
    Actions = {a1}
    Actors = {p1, p2}
    Reviewers = {p1}
    ApprovalLifetime = 2
    StaleAfter = 1
    CallBudget = 1
    MaxTime = 3
    LastCall = 0
    MaxFaults = 1
INVARIANTS
    TypeOK
PROPERTIES
    CallsAreAnswered
    NoActionExecutesForever
    FollowsLifecycle
