CONSTANTS
    a = a
    b = b
    c = c
    s = s
    t = t
    Items <- TwoItems
    NoItem = NoItem
    Steps <- OneStep
    FirstStep = s
    Limits <- OneSlot
    Passes <- OnePass
    NoJob = NoJob
    Allowed <- RetryOrAbandon
    MaxCalls = 1
SPECIFICATION Spec
CHECK_DEADLOCK FALSE
INVARIANTS
    TerminalHoldsNoSlot
