CONSTANTS
    t1 = t1
    t2 = t2
    k1 = k1
    k2 = k2
    k3 = k3
    Threads <- MCThreads
    Keys <- OneKey
    FallbackKeys <- NoKeys
    MaxEntries = 2
    MaxCalls = 3
    MaxVersion = 2
SPECIFICATION Spec
PROPERTY HitsAreCurrent
CHECK_DEADLOCK FALSE
