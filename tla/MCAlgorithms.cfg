SPECIFICATION Spec
CONSTANTS
    Methods = {"GET", "POST", "DELETE"}
    Paths <- MCPaths
    QueryParams <- MCQueryParams
    Bodies <- MCBodies
    TimeParams <- MCTimeParams
    MaxRangeSecs = 3600
    Now <- MCNow
    Layers <- MCLayers
    Listens <- MCListens
    Images <- MCImages
    Instants <- MCInstants
    LogQueries <- MCLogQueries
    TraceQueries <- MCTraceQueries
    PromQueries <- MCPromQueries
    MetricWords <- MCMetricWords
    LabelNames <- MCLabelNames
    Columns <- MCColumns
    MatchValues <- MCMatchValues
    LogTables <- MCLogTables
    MetricTables <- MCMetricTables
    SpanTables <- MCSpanTables
    LogPlans <- MCLogPlans
    MetricPlans <- MCMetricPlans
    GroupBys <- MCGroupBys
    LimitParams <- MCLimitParams
    DefaultLimit = 2
    MaxLimit = 2
    Steps <- MCSteps
    MilliTicks = 2
    SecondTicks = 4
    InstantSecs = 1
    MaxStepSecs = 2
    SeriesLimit = 2
INVARIANTS
    ListsAgree
    RequestsSound
    
    AnswersExact
    StartsAsConfigured
