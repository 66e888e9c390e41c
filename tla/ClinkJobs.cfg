SPECIFICATION FairSpec
CONSTANTS
    Jobs = {j1, j2}
    Requests = {r1}
    Keys = {k1}
    NoKey = NoKey
    NoJob = NoJob
    Caps = {1, 2}
INVARIANTS
    CleansUp
    SessionLimits
    CompletedMeansOwnExit
PROPERTIES
    JobsAreAccounted
    CancelEnds
    EveryJobEnds
CHECK_DEADLOCK FALSE
