CONSTANTS
    XPRAM_SIZE = 2
    Bytes = {0, 1}
SPECIFICATION FairSpec
INVARIANTS SuspendedStops DriverAlive SavedAtExit
PROPERTIES ClosesOrHangs ChangesSaved QuitSaves
CHECK_DEADLOCK FALSE
