SPECIFICATION FairSpec
CONSTANTS
    BufBytes = 2
    SockRoom = 1
    MaxSend = 3
INVARIANTS
    CloseMeansComplete
PROPERTIES
    ImplementsPipes
    EndsAfterBothCloses
    EndsWhenPeersClose
    HalfClosePassedOn
CHECK_DEADLOCK FALSE
