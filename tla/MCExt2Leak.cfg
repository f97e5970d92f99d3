SPECIFICATION Spec
CONSTANTS
    NDIRECT = 1
    PTRS = 2
    GROUPS_COUNT = 2
    BLOCKS_PER_GROUP = 8
    INODES_PER_GROUP = 2
    INODES_TABLE_BLOCK_COUNT = 1
    MaxDirDeletes = 1
    COUNT_MOD = 9
    MaxFileBlocks = 3
VIEW LiveView
CONSTRAINT DirDeletes
INVARIANT NoLeak
