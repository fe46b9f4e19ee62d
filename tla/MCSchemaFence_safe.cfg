SPECIFICATION Spec
CONSTANTS
    p1 = p1
    p2 = p2
    p3 = p3
    Procs <- SafeProcs
    Version <- SafeVersion
    MinVersion <- SafeMin
    Build <- SafeBuild
    Found <- FreshOrStamped
INVARIANTS
    ServesWithinWindow
    RefusedLeavesNoTrace
PROPERTIES
    NeverUnstamped
    VersionKept
