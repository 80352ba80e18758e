SPECIFICATION HSpec
CONSTANTS
    a1 = a1
    a2 = a2
    b1 = b1
    Repositories <- MCRepositories
    Callers <- MCCallers
    RepositoryOf <- MCRepositoryOf
    ConfiguredMax = {1}
    ConfiguredMin <- NoGuarantees
    DefaultMax = 1
    DbMayFail = FALSE
SYMMETRY CallerSymmetry
PROPERTIES LeastRecentlyGrantedFirst
