SPECIFICATION Spec
CONSTANTS
    MaxLength = 3
    MaxLines = 2
    Pid = 7
    LastBg = 0
    Letter <- MCLetter
    Digit <- MCDigit
    Home <- MCHome
    Users <- MCUsers
    Pwd <- MCPwd
    OldPwd <- MCOldPwd
    Path <- MCPath
    Dirs <- MCDirs
    Launches <- MCLaunches
INVARIANTS
    TypeOK
    ArgumentsRight
    DirectoriesRight
PROPERTIES
    Terminates
CHECK_DEADLOCK FALSE
