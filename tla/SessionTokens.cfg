SPECIFICATION Spec
CONSTANTS
    c1 = c1
    c2 = c2
    c3 = c3
    k1 = k1
    None = None
    Callers <- MCCallers
    Keys <- MCKeys
    MaxRewrites = 1
    MaxForgets = 2
INVARIANTS
    NoOldAccount
    OneBuildPerGeneration
PROPERTIES
    EveryCallReturns
CHECK_DEADLOCK FALSE
