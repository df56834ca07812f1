SPECIFICATION Spec
CONSTANTS
    remote = remote
    output = output
    Tasks = {remote, output}
    configMAX_PRIORITIES = 5
    Priority <- MCPriority
    Delayers = {remote}
    Sleepers = {output}
    Receivers = {remote, output}
    Abortable = {remote}
    uxLength = 2
    TickModulus = 4
    OverflowModulus = 2
    Waits = {1, 2}
    PendLimit = 1
    HoldUp = 2
INVARIANTS
    PlaceHolds
CHECK_DEADLOCK FALSE
