\* Three runs of two pids, over a lock that starts without a file.
SPECIFICATION MCSpecification
CONSTANTS
    p1 = p1
    p2 = p2
    Pids <- MCPids
    Labels <- MCLabels
    GeneratedNames <- MCGeneratedNames
    MaxRuns = 3
INVARIANTS
    ProcessesAreKnown
