SPECIFICATION FairSpec
CONSTANTS
    Counts <- MCCounts
    Keys <- MCKeysLive
    Cells = {c1, c2, c3}
    QUEUE_LENGTH = 2
    Garbage = Garbage
PROPERTIES
    ListensForever
    PacketsAreRead
    ImplementsFairCommands
CHECK_DEADLOCK FALSE
