CONSTANTS
    MaxOpen = 2
    MaxSources = 2
    Reformat = TRUE
    Restarts = TRUE
SPECIFICATION FairSpec
INVARIANT ExclusiveBlock
PROPERTIES DisposedUnused BlockDelivered
