CONSTANTS
    w1 = w1
    w2 = w2
    l1 = l1
    l2 = l2
    Controller = ctl
    Workers = {w1, w2}
    Leaves = {l1, l2}
    Searches <- MCSearches
    MaxRegions = 3
    Bound = 2
    MaxCredit = 1
SPECIFICATION FairSpec
CHECK_DEADLOCK FALSE
PROPERTIES
    Decides
INVARIANTS
    AnswerSound
    WitnessKept
    RegionsExclusive
    RegionsCounted
    FailuresFindParent
    NothingStranded
    SnapshotAcceptable
