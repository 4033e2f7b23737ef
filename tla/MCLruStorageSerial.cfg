\* One operation at a time: a and b collide, the evictor runs, one Clear
CONSTANTS
    Resource = {"a", "b", "c"}
    KeyOf <- MCColliding
    Version = {1}
    WeightOf <- MCOne
    DigestOf <- MCOne
    Handler = {h1}
    MaxEntries = 4
    MaxActive = 1
    MaxRefresh = 0
    MaxClears = 1
    Eviction = TRUE
    Threshold = 2
    BalancerMem = 0
    Nil = nil
SPECIFICATION FairSpec
INVARIANTS RingSound MapListAgree
PROPERTIES UsedIsFront EvictorReturns
