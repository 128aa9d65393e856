CONSTANTS
    Dirs <- MCDirs
    KillUsed = TRUE
    CloseBusy = FALSE
SPECIFICATION FairSpec
INVARIANTS RequestTracked
PROPERTIES RequestProtocol RequestEnds CloseReturns
CHECK_DEADLOCK FALSE
