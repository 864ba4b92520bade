SPECIFICATION Spec
CONSTANTS
    FsTypes = {"fat32", "exfat"}
    Names <- MCNames
    PerSector = 3
    MaxClusters = 3
    MaxNumber = 2
    MaxCalls = 4
    MaxPulls = 1
INVARIANTS
    NamesLead
    TableSound
    DiskKeepsNames
    TornOnlyAcrossSectors
    ReadersRight
CHECK_DEADLOCK FALSE
