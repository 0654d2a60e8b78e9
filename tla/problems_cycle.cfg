\* A problem whose two versions of a package are merged into a cycle.
SPECIFICATION ProblemSpecification
CONSTANTS
    SolvableName <- MCSolvableName
    DepName <- MCDepName
    DepProviders <- MCDepProviders
    NameDep <- MCNameDep
    Problems <- MCOneProblem
INVARIANTS
    PathFits
CHECK_DEADLOCK FALSE
