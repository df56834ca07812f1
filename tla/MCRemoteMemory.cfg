SPECIFICATION Spec
CONSTANTS
    bufferSize = 4
    Layouts <- MCLayouts
    QUEUE_LENGTH = 2
INVARIANTS
    AtMostOneBehind
    MessageOfOneReading
    HeapWellFormed
    NeverOutOfMemory
