CONSTANTS
    Width = 16
    SG_TABLE_SIZE = 4
    Ids = {3, 5}
    Targets = {3}
    Loops <- MCLoops
    OtherTibs <- MCOtherTibs
    MaxTransfers = 4
SPECIFICATION ScsiFairSpec
INVARIANTS TableIsTransfers TotalIsSum
PROPERTIES AllRounds TibEnds
