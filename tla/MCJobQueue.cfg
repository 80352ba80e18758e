SPECIFICATION Spec
CONSTANTS
    j1 = j1
    j2 = j2
    c1 = c1
    c2 = c2
    JobIds <- MCJobIds
    NoJob = NoJob
    Queues = {"refresh", "poll"}
    Keys = {"repository"}
    NoKey = "none"
    Claimants <- MCClaimants
    Limits = {1, 2}
SYMMETRY JobSymmetry
INVARIANTS TypeOK LeaseIsExclusive
PROPERTIES DeadLettersStayDead
