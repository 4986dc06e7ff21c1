SPECIFICATION FairSpec
CONSTANTS
    N = 3
    OpenMax = 7
    OpenBefore = {0, 1, 2, 3}
    Capacity = 1
    Items = 2
    CallsFail = TRUE
INVARIANTS
    TypeOK
    StageWired
    ShellLetsGo
    NothingLost
    LeakOnFailure
PROPERTIES
    PipelineReturns
    EndWithShell
CHECK_DEADLOCK FALSE
