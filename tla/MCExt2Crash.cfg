SPECIFICATION CrashSpec
CONSTANTS
    NDIRECT = 2
    PTRS = 2
    GROUPS_COUNT = 2
    BLOCKS_PER_GROUP = 10
    INODES_PER_GROUP = 2
    INODES_TABLE_BLOCK_COUNT = 4
    COUNT_MOD = 16
    MaxFileBlocks = 2
    MaxCuts = 1
\* after a cut the only allocation left may be one that the model excludes
CHECK_DEADLOCK FALSE
VIEW CutView
INVARIANTS
    
    
    OnlyCutsLose
    
