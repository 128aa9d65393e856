SPECIFICATION Spec
CONSTANTS
    Buttons = {left, third}
    ThirdButton = {third}
    Positions <- MCPositions
    KEY_BUFFER_SIZE = 3
    Range = 4
    ExtendedRange = 8
    MaxKeys = 3
    MaxMoves = 2
    MaxModes = 2
INVARIANTS NothingLeft MotionKept
PROPERTIES KeysInOrder
