SPECIFICATION FairSpec
CONSTANTS
    Workers = {w1, w2}
    R = R  A = A  B = B  C = C  D = D
    Regions = {R, A, B, C}
    Root = R
    Parent <- MCParent
    Key <- MCKey
    MaxEntries = 2
    None = None
INVARIANTS ClaimsAgree NoLostWaiter NoWaitCycle
PROPERTY Decides
CHECK_DEADLOCK FALSE
