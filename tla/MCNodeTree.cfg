SPECIFICATION Spec
CONSTANTS
    NDIRECT = 2
    PTRS = 3
    MaxSize = 492
INVARIANTS
    TreeHasItsBlocks
    LoadsWhatWasWritten
    VisitsLeftmostPath
CHECK_DEADLOCK FALSE
