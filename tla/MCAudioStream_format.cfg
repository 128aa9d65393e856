CONSTANTS
    MaxOpen = 2
    MaxSources = 2
    Reformat = TRUE
    Restarts = FALSE
SPECIFICATION Spec
INVARIANTS AlwaysRunning
