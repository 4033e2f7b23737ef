\* evictor.go:90: until no more can be evicted
CONSTANTS
    Resource = {"a", "b"}
    KeyOf <- MCTwo
    Version = {1, 2}
    WeightOf <- MCShrink
    DigestOf <- MCSharp
    Handler = {h1}
    MaxEntries = 3
    MaxActive = 1
    MaxRefresh = 1
    MaxClears = 0
    Eviction = TRUE
    Threshold = 1
    BalancerMem = 0
    Nil = nil
SPECIFICATION FairSpec
PROPERTIES EvictorReturns
CHECK_DEADLOCK FALSE
