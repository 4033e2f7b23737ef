\* Everything at once: two handlers on colliding resources, the evictor, a refresh
CONSTANTS
    Resource = {"a", "b"}
    KeyOf <- MCSame
    Version = {1, 2}
    WeightOf <- MCEven
    DigestOf <- MCSharp
    Handler = {h1, h2}
    MaxEntries = 3
    MaxActive = 2
    MaxRefresh = 1
    MaxClears = 0
    Eviction = TRUE
    Threshold = 2
    BalancerMem = 0
    Nil = nil
SPECIFICATION Spec
SYMMETRY Symmetry
INVARIANTS MemExact 
CHECK_DEADLOCK FALSE
