SPECIFICATION Spec
CONSTANTS
    Volumes = {v1, v2}
    Clusters = {c1}
    Offsets = {1}
    Root = Root
    File = File
    Null = Null
    Handles = {h1, h2, h3}
    FF_FS_LOCK = 2
    MaxMounts = 2
SYMMETRY Symmetry
INVARIANTS
    WriterAlone
    OpenFilesStay
    LocksRight
CHECK_DEADLOCK FALSE
