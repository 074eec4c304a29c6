CONSTANTS
    RootBound = 1
    SeedWidth = 4
    Work = 3
    PbGap = 2
    DescendingSteps = 2
    MaxStops = 1
    Modes <- AllModes
    None = None
SPECIFICATION Spec
CHECK_DEADLOCK FALSE
INVARIANTS
    IntervalSound
PROPERTIES
    ProgressKept
    Ends
