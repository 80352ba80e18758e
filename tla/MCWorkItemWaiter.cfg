CONSTANTS
    a = a
    b = b
    c = c
    s = s
    t = t
    Items <- ThreeItems
    NoItem = NoItem
    Steps <- OneStep
    FirstStep = s
    Limits <- OneSlot
    Passes <- OnePass
    NoJob = NoJob
    Allowed <- Handoffs
    MaxCalls = 1
SPECIFICATION Spec
CHECK_DEADLOCK FALSE
INVARIANTS
    WaiterIsOffered
