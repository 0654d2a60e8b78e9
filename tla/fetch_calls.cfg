SPECIFICATION FairSpec
CONSTANTS
    p1 = p1
    p2 = p2
    p3 = p3
    None = None
    Packages <- MCPackages
    Unverifiable <- MCUnverifiable
    Elsewhere <- MCElsewhere
    ExtractThreads <- MCExtractThreads
    Cores = 4

INVARIANTS
    SlotsExact
    FetchedIsUsable
    AbortLeavesNoTrap
PROPERTY
    FetchEnds
