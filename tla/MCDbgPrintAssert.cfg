SPECIFICATION Spec
CONSTANTS
    Remote = Remote
    DMX = DMX
    Prg = Prg
    Tasks = {Remote, Prg}
    BasePriority <- MCPriorityTwo
    DBG_BUFFER_SIZE = 3
    Lengths <- MCLengths
    None = None
INVARIANTS
    AssertionsHold
