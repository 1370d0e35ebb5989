SPECIFICATION FairSpec
CONSTANTS
    NPages = 3
    MaxRev = 2
    Jobs = 2
    MaxStalled = 1
    MaxRuns = 2
    Requests <- SomeRequests
INVARIANTS
    TypeOK
    OracleIsOfRevision
    StalledBounded
PROPERTIES
    EveryPageGetsARow
CHECK_DEADLOCK FALSE
