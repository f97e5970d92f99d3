SPECIFICATION Spec
CONSTANTS
    NDIRECT = 1
    PTRS = 2
    GROUPS_COUNT = 2
    BLOCKS_PER_GROUP = 7
    INODES_PER_GROUP = 2
    INODES_TABLE_BLOCK_COUNT = 1
    COUNT_MOD = 8
    MaxDirDeletes = 1
    MaxFileBlocks = 3
VIEW LiveView
CONSTRAINT DirDeletes
INVARIANTS
    TypeOK
    NoSharedBlocks
    OwnedAreMarked
    EntriesHaveTables
    InodeCountsExact
PROPERTY LiveNodesStay
