SPECIFICATION FairSpec
CONSTANTS
    t1 = t1
    t2 = t2
    Threads <- TwoThreads
    RouteTemplates <- TwoTemplates
    Reasons <- SixReasons
    RunReasons <- TwoResults
    Capacity <- OneSlotEach
    Shards = 2
    StorageParts <- TwoParts
    Scans <- TwoScans
    GaugeOrder <- BytesFirst
    Loads <- FiveCases
    ShardOf <- TwoShards
    MaxData = 1
INVARIANTS
    CountedOnce
    ScrapeWithinItsTime
    NoFalseAlarm
PROPERTIES
    RefusedOnlyByKeyHolders
    EveryRequestAnswered
    HealthConverges
    GaugesSettle
