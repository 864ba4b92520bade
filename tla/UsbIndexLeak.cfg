SPECIFICATION Spec
CONSTANTS
    d1 = d1
    d2 = d2
    d3 = d3
    Ifaces = {d1}
    Luns <- OtherLuns
    DriveMax = 5
    Updater = updater
    Ipc = ipc
    MaxCalls = 6
    Faults = {}
    NoThread = NoThread
    Null = Null
    Dangling = Dangling
    Moved = Moved
INVARIANTS
    ListedIsMounted
CHECK_DEADLOCK FALSE
