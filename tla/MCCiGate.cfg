CONSTANTS
    Branches = {"main", "next"}
    NoBranch = "none"
    MaxAttempts = 4
    Definitions = {1, 2}
    Page = 2
    Observers = {"refresh", "settings"}
    Items = {"i"}
    Plans <- MCPlans
SPECIFICATION Spec
INVARIANTS TypeOK IncidentMatchesGate CompleteMeansRead
PROPERTIES CatchUpRespectsNewest NoRepairForHandledFailure NewFailureIsRepaired ReleasedAfterOpening
CHECK_DEADLOCK FALSE
