\* Counters of a shard under concurrent calls and one Clear
CONSTANTS
    Key <- MCKey
    Weight <- MCWeight
    ActiveShards = 2
    Thread = {t1, t2, t3}
    Scanner <- MCNoScanner
    MaxOps = 3
    MaxClears = 1
SPECIFICATION Spec
SYMMETRY Symmetry
INVARIANTS LenExact MemExact
CHECK_DEADLOCK FALSE
