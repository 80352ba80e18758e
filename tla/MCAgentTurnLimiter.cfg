SPECIFICATION FairSpec
CONSTANTS
    a1 = a1
    a2 = a2
    b1 = b1
    Repositories <- MCRepositories
    Callers <- MCCallers
    RepositoryOf <- MCRepositoryOf
    ConfiguredMax = {1}
    ConfiguredMin <- OneGuarantee
    DefaultMax = 1
    DbMayFail = FALSE
INVARIANTS RunningTurnIsNotShownQueued
PROPERTIES SomebodyIsAdmitted
