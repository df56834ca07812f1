SPECIFICATION TimedSpec
CONSTANTS
    NUM_LAMPS = 1
    MAXIMUM_NUM_LAMPS = 2
    NumFrames = 3
    StartCode = StartCode
    Empty = Empty
    Regimes <- MCPrompt
    ClockLimit = 20
INVARIANTS
    OutputBeginsWithFront
