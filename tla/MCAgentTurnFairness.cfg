SPECIFICATION HSpec
CONSTANTS
    a1 = a1
    a2 = a2
    b1 = b1
    Repositories <- MCRepositories
    Callers <- MCCallers
    RepositoryOf <- MCRepositoryOf
    ConfiguredMax = {1, 2}
    ConfiguredMin <- EitherMin
    DefaultMax = 2
    DbMayFail = TRUE
SYMMETRY CallerSymmetry
INVARIANTS TypeOK PermitsAreHeld DemandIsReal IdleRepositoriesAreForgotten
PROPERTIES AdmissionRespectsLimit OvertakenAtMostOnce
