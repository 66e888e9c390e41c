SPECIFICATION StorageSpec
CONSTANTS
    t1 = t1  t2 = t2  p1 = p1  p2 = p2  chat = chat  debug = debug
    Threads <- MCThreads
    Processes <- MCProcesses
    Tools <- MCTools
    Deployments <- MCDeployments
    MaxTurns = 2
    TTL = 2
    MaxWait = 1
INVARIANTS
    AckedTurnsKept
PROPERTIES
    SoleOwnerImplementsLog
    MemoryImplementsLog
    ExpiredIsCollected
