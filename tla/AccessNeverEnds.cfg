SPECIFICATION FairSpec
CONSTANTS
    Drives = {d1}
    Blocks = {b1, b2}
    MaxSteps = 1
    IdWord = 2
    Null = Null
PROPERTY
    Returns
CHECK_DEADLOCK FALSE
