CONSTANTS
    RootBound = 1
    SeedWidth = 4
    Work = 2
    PbGap = 2
    DescendingSteps = 2
    MaxStops = 1
    Modes <- SerialModes
    None = None
SPECIFICATION Spec
CHECK_DEADLOCK FALSE
INVARIANTS
    CheckpointUsable
