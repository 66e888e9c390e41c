SPECIFICATION SchemaSpec
CONSTANTS
    Catalog <- MCCatalog
    Deployment <- MCDeployment
    BaseOf <- MCBaseOf
    KeptWhole <- MCKeptWhole
    Slashed <- MCSlashed
    FastNames <- MCFastNames
    NameOrder <- MCNameOrder
    Defaults = {"o4-mini", "sonnet-v1:0", "team-mini", "b"}
    TailOf <- MCTailOf
    Settings <- MCSettings
    Temperatures = {5, 12}
    Categories = {"extended", "fast", "balanced"}
INVARIANTS
    OnlyAllowedServed
    AnswersStable
    ShownIsServed
    RequestsAreSound
CHECK_DEADLOCK FALSE
