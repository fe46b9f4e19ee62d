SPECIFICATION Spec
CONSTANTS
    c1 = c1
    c2 = c2
    c3 = c3
    Conns <- ThreeConns
    MaxConns = 2
    KeepaliveLimit = 2
    MaxLineBytes = 1
    MaxHeaderBytes = 2
    MaxHeaderCount = 2
    MaxBodyBytes = 1
SYMMETRY Symmetry
INVARIANTS
    WithinMaxConns
    ShutdownReportIsTrue
PROPERTY ImplementsPool
CHECK_DEADLOCK FALSE
