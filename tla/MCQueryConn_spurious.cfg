CONSTANTS
    q1 = q1
    q2 = q2
    Queries <- OneQuery
    SpuriousWakeups = TRUE
    MaxScans = 1
SPECIFICATION FairSpec
PROPERTY EveryCallReturns
CHECK_DEADLOCK FALSE
