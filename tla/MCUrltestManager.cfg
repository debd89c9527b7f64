SPECIFICATION FairSpec
CONSTANTS
    a = a
    b = b
    Children = {a, b}
    Marked = {a, b}
    Groups <- MCGroups
    Latencies = {1, 4, 6}
    Word = 8
    Tolerance = 10
    None = None
    Failed = Failed
    FailureThreshold = 2
    SuccessThreshold = 2
    HalfOpenMaxRequests = 2
    MaxGeneration = 4
    MaxRegistrations = 2
INVARIANTS
    StaleProbesNeverCount
    BreakerNeverStarves
    SelectionBest
    RoutingFollows
PROPERTIES
    ProbesEnd
CHECK_DEADLOCK FALSE
