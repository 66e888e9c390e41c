SPECIFICATION Spec
CONSTANTS
    Threads = {t1}
    Processes = {p1, p2}
    MaxTurns = 2
    TTL = 2
    MaxWait = 1
PROPERTIES
    LiveThreadNeverRemoved
