CONSTANTS
    t1 = t1
    t2 = t2
    t3 = t3
    Threads <- MCThreads
    Concurrency = 2
    CheapAdmission = 1
    WaitIsZero = FALSE
    MaxCalls = 4
SPECIFICATION FairSpec
INVARIANTS
    WithinConcurrency
    NoLostWakeup
PROPERTIES
    ImplementsSemaphore
    EveryCallAnswered
    GaugesConverge
