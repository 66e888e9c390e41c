SPECIFICATION Spec
CONSTANTS
    Tools = {debug, consensus}
    Consulting = {consensus}
    OtherTool = chat
    Requests = {r1, r2}
    NoRequest = NoRequest
    Threads = {t1}
    NoThread = NoThread
    MaxTurns = 3
    MaxHistory = 3
SYMMETRY WorkflowSymmetry
INVARIANTS
    AckedStepsKept
    LockHandedOn
PROPERTIES
    SessionsAreLogs
