SPECIFICATION FairSpec
CONSTANTS
    Calls = {c1, c2, c3}
    FailureThreshold = 2
    ResetTimeout = 2
    HalfOpenMaxCalls = 1
    MaxAttempts = 2
    Errors <- ListedErrors
INVARIANTS
    ClosedMeansFewFailures
    ProbesMetered
    CallerFaultsNeverTrip
PROPERTIES
    OnlyCooldownLeavesOpen
    NeverWedged
    Recovers
