CONSTANTS
    Items = {1, 2, 3}
    NoItem = 0
    Scopes = {s1, s2}
    NoScope = NoScope
    Gated = {1}
    Delays = {1}
    Floors = {0, 1}
    MaxWaits = {NoLimit, 2}
    NoLimit = NoLimit
    Plans <- MCPlans
    MaxTime = 2
SPECIFICATION Spec
INVARIANTS TypeOK WaitsForSomebody ProbeBelongsToScope SoleProbe DeadlineShown
PROPERTIES LimitShown NoAttemptInCooldown RepairedAtRestart
CHECK_DEADLOCK FALSE
