SPECIFICATION Spec
CONSTANTS
    NPages = 2
    MaxRev = 2
    Jobs = 1
    MaxStalled = 1
    MaxRuns = 1
    Requests <- OnlinePinned
INVARIANTS
    RevisionsAgree
CHECK_DEADLOCK FALSE
