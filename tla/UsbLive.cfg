SPECIFICATION FairSpec
CONSTANTS
    d1 = d1
    d2 = d2
    d3 = d3
    Ifaces = {d1, d2}
    Luns <- MixedLuns
    DriveMax = 3
    Updater = updater
    Ipc = ipc
    MaxCalls = 1
    Faults = {}
    NoThread = NoThread
    Null = Null
    Dangling = Dangling
    Moved = Moved
INVARIANTS
    SessionsOwned
PROPERTIES
    HotplugNoticed
    CallReturns
CHECK_DEADLOCK FALSE
