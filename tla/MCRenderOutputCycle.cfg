SPECIFICATION FairSpec
CONSTANTS
    NUM_LAMPS = 2
    MAXIMUM_NUM_LAMPS = 3
    NumFrames = 3
    StartCode = StartCode
    Empty = Empty
INVARIANTS
    SingleToken
    TokenNotLost
    RendererSeesPreviousFrame
    WireInOrder
    WireComplete
PROPERTIES
    FramesInOrder
    ImplementsHandoff
    ImplementsFairHandoff
