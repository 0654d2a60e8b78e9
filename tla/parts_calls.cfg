\* The parts that keep their state apart, one in each behaviour.
SPECIFICATION MCSpecification
CONSTANTS
    pkgA1 = pkgA1
    pkgA2 = pkgA2
    pkgA2Other = pkgA2Other
    pkgB = pkgB
    pkgC = pkgC
    pkgD = pkgD
    pkgE = pkgE
    file1 = file1
    file2 = file2
    file3 = file3
    file4 = file4
    file5 = file5
    file6 = file6
    None = None
    Packages <- MCPackages
    Str <- MCStr
    Paths <- MCPaths
    PathsOf <- MCPathsOf
    Installed <- MCInstalled
    Unlinks <- MCUnlinks
    Links <- MCLinks
    CacheCount = 2
    WritableCaches <- MCWritable
    MaxVersion = 2
    Alphabet <- MCAlphabet
    MaxSpec = 2
    MaxSpecs = 2
    Requests <- MCRequests
    MaxEntries = 3
    MaxNodeId = 3
    RecordNames <- MCRecordNames
    RecordFiles <- MCRecordFiles
    VersionsCompared <- MCVersions
    RegularLiterals <- MCRegular
    MaxTokens = 8
    Environments <- MCEnvironments
    StartPaths <- MCStartPaths
    Condabin = "condabin"
    MaxShlvl = 4
    ShellsAsked <- MCShells
    RootPrefixes <- MCPrefixes
    MaxLines = 1
    PyPackages <- MCPyPackages
    BadFiles <- MCBadFiles
    PipeRoom = 1
    Callers <- MCCallers
    MaxExecutors = 2
    MaxRoot = 3
    EnvNames <- MCEnvNames
    RcChoices <- MCRcChoices
    MaxGiven = 2
    MaxLoads = 2
    PackageNames <- MCPackageNames
    NoarchNames <- MCNoarchNames
    VersionsOf <- MCVersionsOf
    MinorOf <- MCMinorOf
    Needs <- MCNeeds
    SpecChoices <- MCSpecChoices
INVARIANTS
    TypeOK
    PrefixMatchesRecords
    RollbackRestores
    DoneIsComplete
    FetchedCanBeLinked
    LinkedFromItsOwn
    IndexIsTrusted
    HistoryIsRight
    RecordsAreRight
    VersionsAgree
    RootMovesOn
    SettingsAreRight
    CommandsDoAsAsked
    HandedOverAreCompiled
    InstanceOutlivesTasks
PROPERTIES
    ShellsAreRight
    PartsEnd
CHECK_DEADLOCK FALSE
