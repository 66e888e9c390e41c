SPECIFICATION StreamSpec
CONSTANTS
    MaxChunks = 4
    MinSize = 2
    Interval = 2
INVARIANTS
    AnswerIsWhole
    ProgressInOrder
    OneCancelWaits
PROPERTIES
    EveryCallEnds
CHECK_DEADLOCK FALSE
