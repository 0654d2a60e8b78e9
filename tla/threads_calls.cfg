\* Calls of the executor, of a synchronizer, of progress bars, the explanation of problems, and
\* the lock and the lists that processes share.
SPECIFICATION MCSpecification
CONSTANTS
    m1 = m1
    m2 = m2
    w1 = w1
    w2 = w2
    h1 = h1
    t1 = t1
    t2 = t2
    t3 = t3
    None = None
    Main <- MCMain
    Tasks <- MCTasks
    Handlers <- MCHandlers
    Callers <- MCMain
    Closers <- MCMain
    Callables <- MCCallables
    MaxEpoch = 1
    MaxManagers = 2
    MaxWatches = 2
    MaxMessages = 2
    SolvableName <- MCSolvableName
    DepName <- MCDepName
    DepProviders <- MCDepProviders
    NameDep <- MCNameDep
    Problems <- MCProblems
    EnvPrefixes <- MCEnvPrefixes
    Mambas <- MCMambas
    MaxEnvCommands = 3
    PrefixFiles <- MCPrefixFiles
    MaxTrash = 1
    MaxUnlinks = 2
INVARIANTS
    LockIsReal
    Exclusion
    NoTaskOutlivesClose
    NoHandlerMissed
    BodiesAreRight
    ExplanationIsRight
    BarsAreRight
    SharedFilesAreRight
PROPERTIES
    JoinLoopUndisturbed
    AttemptEnds
    CallsEnd
