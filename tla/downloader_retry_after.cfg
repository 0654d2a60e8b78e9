\* A server asks for a wait before the retry.
SPECIFICATION Spec
CONSTANTS
    r1 = r1
    r2 = r2
    r3 = r3
    http = http
    oci = oci
    None = None
    Requests <- MCRequests
    Mirrors <- MCMirrors
    MirrorsOf <- MCSomeMirrors
    Rank <- MCRank
    Steps <- MCSteps
    MaxRetries <- MCOneRetry
    MaxMirrorTries = 2
    Parallel = 2
    CheckOnly <- MCNone
    LocalFile <- MCNone
    IgnoreFailure <- MCNone
    FailFast = TRUE
    PastTransfers = 1
PROPERTIES
    RetryAfterRespected
