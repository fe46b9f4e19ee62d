CONSTANTS
    t1 = t1
    t2 = t2
    k1 = k1
    k2 = k2
    k3 = k3
    Threads <- MCThreads
    Keys <- MCKeys
    FallbackKeys <- MCFallback
    MaxEntries = 2
    MaxCalls = 4
    MaxVersion = 1
SPECIFICATION Spec
SYMMETRY Symmetry
INVARIANTS
    CacheBounded
    AnswersFromTables
PROPERTY EvictsOldestOnly
CHECK_DEADLOCK FALSE
