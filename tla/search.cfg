SPECIFICATION Spec
CONSTANTS
    Graphs <- MCGraphs
    Thresholds <- MCThresholds
    Options <- MCOptions
    MaxRegions = 4
    MaxInterrupts = 1
    FrontierTarget = 4
    MemoryBudget = 8
    FirstPage = 1
    PageLimit = 2
    MaxRoom = 3
    MaxEntries = 0
    NoVertex = NoVertex
    NoRegion = NoRegion
INVARIANTS CacheSound AnswerSound Covered StateExact
PROPERTY Decided
