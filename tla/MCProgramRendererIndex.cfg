SPECIFICATION Spec
CONSTANTS
    NUM_LAMPS = 2
    Channels <- MCChannels
    MaxByte = 255
    PRG_MAX_TRANSITION_STEPS = 64
    programList <- MCPresets
    Speeds = {252}
    StaticColors = {}
INVARIANTS
    IndexInList
