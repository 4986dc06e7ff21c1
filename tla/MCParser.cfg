SPECIFICATION FairSpec
CONSTANTS
    Input <- MCInput
INVARIANTS
    TypeOK
    TreeFits
    NothingDropped
    ErrorFreesAll
    ProgramsAccepted
PROPERTIES
    Terminates
