\* Two shards, up to three dumps, one crash, one failure, two versions kept
CONSTANTS
    NumOfShards = 2
    Item = {1}
    MaxVersions = 2
    Gzip = FALSE
    MaxDumps = 3
    MaxCrashes = 1
    MaxFailures = 1
    MaxChanges = 1
SPECIFICATION FairSpec
INVARIANTS RenamedIsWhole DumpSurvives VersionsBounded
PROPERTIES LoadRestores DumpReturns
CHECK_DEADLOCK FALSE
