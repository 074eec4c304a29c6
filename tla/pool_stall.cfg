CONSTANTS
    w1 = w1
    w2 = w2
    w3 = w3
    Workers = {w1, w2}
    MaxRegions = 2
    Kernel = TRUE
    Bounded = FALSE
    Yielding = FALSE
    Failing = 0
    Quanta = {5}
    MaxEpochs = 1
    None = None
SPECIFICATION Spec
CHECK_DEADLOCK FALSE
PROPERTIES
    ServiceReturns
