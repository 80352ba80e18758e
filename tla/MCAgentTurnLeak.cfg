SPECIFICATION LeakSpec
CONSTANTS
    a1 = a1
    a2 = a2
    Repositories <- MCRepositories
    Callers <- MCCallers
    RepositoryOf <- MCRepositoryOf
    ConfiguredMax = {1, 2}
    ConfiguredMin <- NoGuarantees
    DefaultMax = 2
    DbMayFail = FALSE
INVARIANTS NoPermitLeaks
