CONSTANTS
    t1 = t1
    t2 = t2
    f1 = f1
    f2 = f2
    o1 = o1
    NoSession = NoSession
    Threads = {t1, t2}
    Sessions = {f1, o1}
    OneShots = {o1}
    Threshold <- MCThreshold
    Batches <- ArmBatches
    MaxEpochs = 3
    WorkUnits = 1
    MaxReady = 2
    MaxTasks = 3
SPECIFICATION Spec
SYMMETRY ThreadSymmetry
CHECK_DEADLOCK FALSE
INVARIANTS
    OneShotExclusive
