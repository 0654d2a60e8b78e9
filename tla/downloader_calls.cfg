\* A check whose failure is ignored, a local file and a plain request, a plain and an authenticated mirror, fail_fast.
SPECIFICATION FairSpec
CONSTANTS
    r1 = r1
    r2 = r2
    r3 = r3
    http = http
    oci = oci
    None = None
    Requests <- MCThreeRequests
    Mirrors <- MCMirrors
    MirrorsOf <- MCMixedMirrors
    Rank <- MCRank
    Steps <- MCSteps
    MaxRetries <- MCOneRetry
    MaxMirrorTries = 2
    Parallel = 2
    CheckOnly <- MCFirst
    LocalFile <- MCSecond
    IgnoreFailure <- MCFirst
    FailFast = TRUE
    PastTransfers = 1
INVARIANTS
    MirrorLoadExact
    TransfersTracked
    ResultsHonest
PROPERTIES
    DownloadEnds
    KeepsContract
