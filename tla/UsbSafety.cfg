SPECIFICATION Spec
CONSTANTS
    d1 = d1
    d2 = d2
    d3 = d3
    Ifaces = {d1, d2, d3}
    Luns <- MixedLuns
    DriveMax = 2
    Updater = updater
    Ipc = ipc
    MaxCalls = 1
    Faults = {"acquired", "available", "acquire", "setup", "max_lun", "scsi", "mount"}
    NoThread = NoThread
    Null = Null
    Dangling = Dangling
    Moved = Moved
INVARIANTS
    ListWhole
    IndicesOwned
    LiveSessionsOpen
PROPERTIES
    TableSpec
    DropOnlyUnplugged
CHECK_DEADLOCK FALSE
