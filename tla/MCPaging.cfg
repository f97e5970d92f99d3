SPECIFICATION PagingSpec
CONSTANTS
    PAGE_ENTRY_COUNT = 7
    KernelPage = 3
    Memory = 6
INVARIANTS
    FramesAreApart
    TableIsDirectory
CHECK_DEADLOCK FALSE
