CONSTANTS
    Repositories = {"a", "b"}
    Heal = "heal"
    LinearKey = "linear"
    Workers = {w1, w2}
    Nobody = Nobody
    Callers = {c1, c2}
    Plans <- MCPlans
SPECIFICATION Spec
INVARIANTS TypeOK HealIsExact
PROPERTIES SchedulesSurvive PollingRecovers
CHECK_DEADLOCK FALSE
