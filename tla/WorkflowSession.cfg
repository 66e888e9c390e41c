SPECIFICATION Spec
CONSTANTS
    Tools = {"debug", "codereview", "precommit", "secaudit", "refactor", "analyze", "testgen", "thinkdeep", "docgen", "planner", "tracer"}
    Threads = {t1, t2}
    NoThread = NoThread
    Schedule <- FirstAndLater
    Levels = {"low", "partial", "certain", "complete"}
    TableSteps = {1, 2, 3, 4, 5, 7}
    MaxTurns = 2
    MaxHistory = 2
INVARIANTS
    FoundMatchesHistory
    HooksAgree
PROPERTIES
    ExpertKnowsItsSession
    SessionsAreLogs
CHECK_DEADLOCK FALSE
