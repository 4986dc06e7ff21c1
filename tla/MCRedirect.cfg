SPECIFICATION Spec
CONSTANTS
    file1 = file1
    file2 = file2
    MaxFd = 7
    File <- MCFile
    Item <- MCItem
    Starts <- MCStarts
    Sessions <- MCSessions
INVARIANTS
    TypeOK
    FdsRestored
    RunsRedirected
    Delivered
CHECK_DEADLOCK FALSE
