CONSTANTS
    w1 = w1
    w2 = w2
    w3 = w3
    Workers = {w1, w2}
    MaxRegions = 2
    Kernel = TRUE
    Bounded = TRUE
    Yielding = TRUE
    Failing = 1
    Quanta = {5}
    MaxEpochs = 2
    None = None
SPECIFICATION Spec
CHECK_DEADLOCK FALSE
INVARIANTS
    WorkWithinGrant
    EveryThreadPassed
    WorkRemains
PROPERTIES
    ServiceReturns
    PoolJoined
