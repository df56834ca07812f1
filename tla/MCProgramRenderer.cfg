SPECIFICATION FairSpec
CONSTANTS
    NUM_LAMPS = 2
    Channels = {"r"}
    MaxByte = 3
    PRG_MAX_TRANSITION_STEPS = 3
    programList <- MCSmallPrograms
    Speeds = {0}
    StaticColors <- MCSmallColors
INVARIANTS
    BetweenColors
PROPERTIES
    Smooth
    EveryColorIsShown
