SPECIFICATION Spec
CONSTANTS
    Counts <- MCCounts
    Keys <- MCKeys
    Cells = {c1, c2, c3}
    QUEUE_LENGTH = 2
    Garbage = Garbage
INVARIANTS
    TypeOK
    OneOwner
    RoomForCommand
    OnlyFreshMessages
    LogShowsWhatWasSent
PROPERTIES
    ImplementsCommands
SYMMETRY CellSymmetry
CHECK_DEADLOCK FALSE
