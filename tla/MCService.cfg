\* The parts that stand alone, one of them in each behaviour
CONSTANTS
    Handler = {h1, h2}
    Error = {e1}
    ErrCap = 1
    LogInterval = 2
    MaxServed = 2
    RWorker = {w1, w2}
    Rates = {5, 10}
    MaxInFlight = 1
    Client = {c1, c2}
    TTL = 1
    MaxTime = 1
    MaxTokens = 2
    Forever = 0
    ProbeCall = {p1, p2}
    Key = {1, 2}
    Weight = {2}
    ActiveShards = 2
    Thread = {t1}
    Scanner = {"refresher", "realMem"}
    MaxOps = 2
    MaxClears = 0
SPECIFICATION SSpec
INVARIANTS CountedOnce SingleUse FreshUnlessLate 
PROPERTIES HandlersGoOn LoggerEnds  RefresherEnds ShutdownEnds SumsConverge
CHECK_DEADLOCK FALSE
