SPECIFICATION Spec
CONSTANTS
    Name <- MCName
    SpecialBuiltin <- MCSpecial
    ListId <- MCListId
    List <- MCList
    Rejected = "rejected"
    Empty = "empty"
    Inputs <- MCInputs
    MaxDepth = 4
    MaxLines = 1
INVARIANT FreedOnce
CHECK_DEADLOCK FALSE
