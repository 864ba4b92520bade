SPECIFICATION FairSpec
CONSTANTS
    MaxLen = 4
    MaxCalls = 3
    MaxFaults = 4
INVARIANTS
    InsideBuffer
    ExactUnlessResumed
    EndsInStep
    RetriesRecover
PROPERTIES
    CommandSpec
    Returns
CHECK_DEADLOCK FALSE
