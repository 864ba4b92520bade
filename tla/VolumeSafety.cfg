SPECIFICATION Spec
CONSTANTS
    Media <- MCMedia
    Heap <- MCHeap
    BlockSizes = {0, 4, 8, 12, 32}
    MinSS = 8
    MaxSS = 16
    SZDIRE = 4
    MaxFat12 = 4
    MaxFat16 = 8
    MaxFat32 = 16
    MaxExFat = 32
    Word = 256
    CountWord = 32
    MaxFaults = 2
    MaxCalls = 2
INVARIANTS
    UnsizedNeverRead
    FirstVolumeMounts
    MountTrue
    LaidOut
    AddressedExactly
CHECK_DEADLOCK FALSE
