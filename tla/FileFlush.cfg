SPECIFICATION Spec
CONSTANTS
    FsTypes = {"fat", "exfat"}
    NClusters = 2
    SS = 2
    csize = 2
    Word = 6
    Offsets = {0, 3, 4, 6}
    Lengths = {1, 5}
    MaxCalls = 3
    MaxOthers = 2
INVARIANT WrittenRightAway
CHECK_DEADLOCK FALSE
