SPECIFICATION QuietFairSpec
CONSTANTS
    Remote = Remote
    DMX = DMX
    Prg = Prg
    Tasks = {Remote, DMX, Prg}
    BasePriority <- MCPriority
    DBG_BUFFER_SIZE = 3
    Lengths <- MCLengths
    None = None
INVARIANTS
    HolderPuts
    FitsInFreeSpace
    RequestCanBeMet
PROPERTIES
    NoInversion
    ImplementsByteStream
    ImplementsFairByteStream
    RemotePrints
