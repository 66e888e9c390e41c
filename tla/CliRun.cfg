SPECIFICATION Spec
CONSTANTS
    InlineFlag <- MCInlineFlag
    InlineValue <- MCInlineValue
    Secrets <- MCSecrets
    FlagLike <- MCFlagLike
    Settings <- MCSettings
    NestedRequests <- MCNestedRequests
    Wired <- MCWired
    Outputs <- MCOutputs
    Sizes <- MCSizes
    Order <- MCOrder
    Initially <- MCInitially
    Pruned <- MCPruned
    Bookkeeping <- MCBookkeeping
    MaxEntries = 2
    MaxResponse = 20
    MaxEdits = 2
    MaxChain = 4
INVARIANTS
    ReportIsExact
    FilesAsFound
    OneModelAsked
    NestedInherits
    AnswerIsSound
CHECK_DEADLOCK FALSE
