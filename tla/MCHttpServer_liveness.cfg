SPECIFICATION LiveSpec
CONSTANTS
    c1 = c1
    c2 = c2
    c3 = c3
    Conns <- TwoConns
    MaxConns = 1
    KeepaliveLimit = 3
    MaxLineBytes = 2
    MaxHeaderBytes = 5
    MaxHeaderCount = 2
    MaxBodyBytes = 2
INVARIANT RequestsWithinLimits
PROPERTIES
    EveryConnectionEnds
    EveryClientAnswered
    ShutdownCompletes
CHECK_DEADLOCK FALSE
