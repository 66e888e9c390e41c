SPECIFICATION Spec
CONSTANTS
    Tools = {consensus}
    Consulting = {consensus}
    OtherTool = chat
    Requests = {r1, r2}
    NoRequest = NoRequest
    Threads = {t1, t2}
    NoThread = NoThread
    MaxTurns = 2
    MaxHistory = 2
INVARIANTS
    ConsultedOnOwnProposal
