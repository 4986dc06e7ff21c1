SPECIFICATION FairSpec
CONSTANTS
    p1 = p1
    p2 = p2
    p3 = p3
    p4 = p4
    Pid <- MCPid
    Shell = p1
    Node <- MCNode
    Ast <- MCAst
    Word <- MCWord
    SpecialBuiltin <- MCSpecial
    RegularBuiltin <- MCRegular
    Session <- MCSession
    ForkFails = TRUE
    NoNode = NoNode
INVARIANTS
    TypeOK
    NoReturnPastFork
    ForegroundAwaited
PROPERTIES
    SessionEnds
