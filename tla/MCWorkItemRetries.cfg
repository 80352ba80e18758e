CONSTANTS
    a = a
    b = b
    c = c
    s = s
    t = t
    Items <- TwoItems
    NoItem = NoItem
    Steps <- OneStep
    FirstStep = s
    Limits <- OneOrTwo
    Passes <- OnePass
    NoJob = NoJob
    Allowed <- Retries
    MaxCalls = 1
SPECIFICATION Spec
CHECK_DEADLOCK FALSE
SYMMETRY Symmetry
INVARIANTS
    TypeOK
    SlotHasReason
    FreeSlotIsOffered
PROPERTIES
    RefinesWorkerSlots
