CONSTANTS
    t1 = t1
    t2 = t2
    f1 = f1
    f2 = f2
    o1 = o1
    NoSession = NoSession
    Threads = {t1}
    Sessions = {f1, f2}
    OneShots = {}
    Threshold <- MCSameThreshold
    Batches <- QueueBatches
    MaxEpochs = 2
    WorkUnits = 1
    MaxReady = 1
    MaxTasks = 2
SPECIFICATION Spec
CHECK_DEADLOCK FALSE
INVARIANTS
    GenerationsDistinct
    NoStrandedPermit
    RoundRobin
PROPERTIES
    CallsReturn
    PermitsServed
    PoolJoins
