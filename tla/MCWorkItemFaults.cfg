CONSTANTS
    a = a
    b = b
    c = c
    s = s
    t = t
    Items <- OneItem
    NoItem = NoItem
    Steps <- TwoSteps
    FirstStep = s
    Limits <- OneSlot
    Passes <- OnePass
    NoJob = NoJob
    Allowed <- Faults
    MaxCalls = 2
SPECIFICATION FairSpec
CHECK_DEADLOCK FALSE
INVARIANTS
    SlotHasReason
    ActiveHasJob
PROPERTIES
    InterruptedStaysPut
    ActiveHoldsSlot
    OrphansStay
    RunEnds
