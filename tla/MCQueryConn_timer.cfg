CONSTANTS
    q1 = q1
    q2 = q2
    Queries <- MCQueries
    SpuriousWakeups = TRUE
    MaxScans = 2
SPECIFICATION FairSpec
INVARIANTS
    TimeoutIffInterrupted
PROPERTIES
    InterruptHitsOwnQuery
    ReturnsUnlessWokenEarly
    EveryTimerExits
CHECK_DEADLOCK FALSE
