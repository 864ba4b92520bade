SPECIFICATION Spec
CONSTANTS
    Drives = {d1, d2, d3}
    Blocks = {b1, b2}
    MaxSteps = 2
    IdWord = 2
    Null = Null
SYMMETRY DriveSymmetry
INVARIANTS
    PathsStayOnDrive
    StrayOnlyUnlisted
PROPERTIES
    ValidatedIsOwn
CHECK_DEADLOCK FALSE
