\* A call that comes too late, while the owner joins.
SPECIFICATION SyncFairSpec
CONSTANTS
    t1 = t1
    t2 = t2
    Callables <- MCCallables
    MaxEpoch = 1
PROPERTIES
    JoinReturns
CHECK_DEADLOCK FALSE
