SPECIFICATION Spec
CONSTANTS
    FsTypes = {"fat32", "exfat"}
    NClusters = 4
    PerSector = 3
    Slots = {s1, s2}
    DirSector <- MCDirSector
    Sizes = {0, 1, 2, 4}
    MaxCalls = 4
    MaxPulls = 1
SYMMETRY Symmetry
INVARIANTS
    AllocationExact
    FreeCountRight
    ClosedFilesOnDisk
    PullLosesClustersOnly
PROPERTIES
    OneOwner
CHECK_DEADLOCK FALSE
