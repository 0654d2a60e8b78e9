\* The first two threads share a process, locks time out.
SPECIFICATION Spec
CONSTANTS
    t1 = t1
    t2 = t2
    t3 = t3
    p1 = p1
    p2 = p2
    p3 = p3
    i1 = i1
    i2 = i2
    i3 = i3
    i4 = i4
    None = None
    Threads <- MCThreads
    Processes <- MCTwoProcesses
    ProcessOf <- MCTogether
    Inodes <- MCInodes
    FileAtStart = FALSE
    OpenMayFail = TRUE
    Timed = TRUE
INVARIANTS
    NoStrayLock
