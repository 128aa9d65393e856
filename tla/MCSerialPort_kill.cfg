CONSTANTS
    Dirs <- MCDirs
    KillUsed = TRUE
    CloseBusy = FALSE
SPECIFICATION Spec
PROPERTIES KilledNotCompleted
CHECK_DEADLOCK FALSE
