SPECIFICATION Spec
CONSTANTS
    Calls = {c1, c2, c3}
    Requests <- Named
    Threads = {t1, t2}
    NoThread = NoThread
    Models = {m1, m2}
    NoModel = NoModel
    DefaultModel = m1
    MaxTurns = 4
    Window <- Windows
    LargeWindow = 60
    MidWindow = 200
    HugeWindow = 400
    Reserve = 1
    PathCount = 4
    Content <- Contents
    Oversize <- TooLarge
    NoteSize = 1
    Size <- Sizes
    TurnSize = 3
SYMMETRY CallSymmetry
INVARIANTS
    ExchangesRecorded
    FilesReachModelOnce
    PromptFits
    NewestTurnsShown
CHECK_DEADLOCK FALSE
