SPECIFICATION Spec
CONSTANTS
    Graphs <- MCGraphs
    Thresholds <- MCThresholds
    Options <- MCOptions
    Workers = {1, 2, 3}
    MaxThrows = 1
    FirstPage = 1
    PageLimit = 2
    MaxRoom = 3
    MaxEntries = 3
    NoSearch = NoSearch
INVARIANTS CacheSound AnswerSound
