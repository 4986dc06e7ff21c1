SPECIFICATION Spec
CONSTANTS
    Name <- MCName
    SpecialBuiltin <- MCSpecial
    ListId <- MCListId
    List <- MCList
    Rejected = "rejected"
    Empty = "empty"
    Inputs <- MCInputs
    MaxDepth = 4
    MaxLines = 4
INVARIANTS
    TypeOK
    UsesLive
    FindsLatest
    AllFreed
CHECK_DEADLOCK FALSE
