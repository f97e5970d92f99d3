------------------------------ MODULE Ext2Alloc -----------------------------
(***************************************************************************)
(* The allocation layer of the EXT2 driver (filesystem/ext2.c): block and  *)
(* inode bitmaps, the cached block group descriptors with their counters,  *)
(* the inode table, and what the three handlers that change the disk,      *)
(* write, delete and move_dir, do to them.  A directory is known here by   *)
(* the blocks of its tables and by which table block holds each inode's    *)
(* entry; names and the bytes of a table are in DirTable.                  *)
(*                                                                         *)
(* The handlers run in a system call with interrupts off and one CPU, so   *)
(* each is one action.  The two preconditions the code states, "assume     *)
(* blocks always available" and "assume node always available", are        *)
(* guards here.                                                            *)
(***************************************************************************)
EXTENDS BlockMap, FiniteSets

CONSTANTS GROUPS_COUNT,
          BLOCKS_PER_GROUP,
          INODES_PER_GROUP,
          INODES_TABLE_BLOCK_COUNT,
          COUNT_MOD,      \* range of the uint16_t counters of a descriptor
          MaxFileBlocks   \* bound: blocks of the largest file written

ASSUME GeometryAssumption ==
    /\ GROUPS_COUNT \in Nat \ {0}
    /\ BLOCKS_PER_GROUP \in Nat
    /\ INODES_PER_GROUP \in Nat \ {0}
    /\ INODES_TABLE_BLOCK_COUNT \in Nat
    /\ BLOCKS_PER_GROUP > INODES_TABLE_BLOCK_COUNT + 5
    /\ COUNT_MOD \in Nat
    /\ COUNT_MOD > BLOCKS_PER_GROUP
    /\ COUNT_MOD > INODES_PER_GROUP
    /\ MaxFileBlocks \in Nat

Group == 0 .. GROUPS_COUNT - 1

\* <<b / BLOCKS_PER_GROUP, b % BLOCKS_PER_GROUP>> stands for block b
Block == {<<g, k>> : g \in Group, k \in 0 .. BLOCKS_PER_GROUP - 1}

\* <<inode_to_bgd(i), inode_to_local(i)>> stands for inode i
Inode == {<<g, k>> : g \in Group, k \in 0 .. INODES_PER_GROUP - 1}
Root  == <<0, 0>>

\* the boot sector holds no directory entry: it stands for "no entry"
NoEntry == <<0, 0>>

Counter == 0 .. COUNT_MOD - 1

BlocksOf(g) == {b \in Block : b[1] = g}
InodesOf(g) == {i \in Inode : i[1] = g}

\* both bitmaps and the inode table; boot sector, superblock and descriptors
\* as well in group 0
ReservedCount(g) == INODES_TABLE_BLOCK_COUNT + (IF g = 0 THEN 5 ELSE 2)
Reserved == {b \in Block : b[2] < ReservedCount(b[1])}

VARIABLES block_bitmap,       \* blocks whose bit is set
          inode_bitmap,       \* inodes whose bit is set
          free_blocks_count,  \* the counters of bgd_table
          free_inodes_count,
          used_dirs_count,
          node,               \* the inode table
          tables,             \* chained table blocks of a directory
          home                \* table block that holds an inode's entry

vars == <<block_bitmap, inode_bitmap, free_blocks_count, free_inodes_count,
          used_dirs_count, node, tables, home>>

\* freed: the blocks of the node that deallocate_blocks reaches; rest: the
\* others; again: how many visits it makes, per group, beyond one per block
NodeType == [mode  : {"none", "IFDIR", "IFREG"},
             freed : SUBSET Block,
             rest  : SUBSET Block,
             again : [Group -> Nat]]

TypeOK ==
    /\ block_bitmap \in SUBSET Block
    /\ inode_bitmap \in SUBSET Inode
    /\ free_blocks_count \in [Group -> Counter]
    /\ free_inodes_count \in [Group -> Counter]
    /\ used_dirs_count \in [Group -> Counter]
    /\ node \in [Inode -> NodeType]
    /\ tables \in [Inode -> SUBSET Block]
    /\ home \in [Inode -> Block]

IsDir(i)       == node[i].mode = "IFDIR"
TableBlocks(i) == node[i].freed \cup tables[i]
Kids(t)        == {c \in inode_bitmap \ {Root} : home[c] = t}

\* every block that belongs to inode i
Own(i) == node[i].freed \cup node[i].rest \cup tables[i]

-----------------------------------------------------------------------------
(* search_blocks: the preferred group first, then the others in order, and  *)
(* in a group the clear bits in order, as many as its counter says.         *)

\* mutant: the last bit looked at is one past the bitmap, the counter unused
AvailPastEnd(bitmap, count) == (Group \X (0 .. BLOCKS_PER_GROUP)) \ bitmap

\* mutant: the bit tested is the next block's
AvailNextBit(bitmap, count) == {b \in Block : <<b[1], b[2] + 1>> \notin bitmap}

Avail(bitmap, count) ==
    {b \in Block \ bitmap :
        Cardinality({a \in Block \ bitmap : a[1] = b[1] /\ a[2] < b[2]}) < count[b[1]]}

Before(pref, a, b) ==
    \/ a[1] = b[1] /\ a[2] < b[2]
    \/ a[1] # b[1] /\ a[1] = pref
    \/ a[1] < b[1] /\ b[1] # pref

Rank(S, pref, b) == Cardinality({a \in S : Before(pref, a, b)})
Take(S, pref, k) == {b \in S : Rank(S, pref, b) < k}

\* the bits search_blocks sets
SearchBlocks(bitmap, count, pref, k) == Take(Avail(bitmap, count), pref, k)

\* uint16_t counters after the blocks of S are allocated, or freed
Debit(count, S) ==
    [g \in Group |-> (count[g] - Cardinality(S \cap BlocksOf(g))) % COUNT_MOD]

Credit(count, S) ==
    [g \in Group |-> (count[g] + Cardinality(S \cap BlocksOf(g))) % COUNT_MOD]

-----------------------------------------------------------------------------
(* allocate_node_blocks and map_node_blocks: all data blocks first, then    *)
(* the pointer blocks one by one, a tree's root before its children.        *)

DataBlocks(bitmap, count, g, n) == SearchBlocks(bitmap, count, g, n)

PtrBlocks(bitmap, count, n) == SearchBlocks(bitmap, count, 0, PointerBlocks(n))

\* the block of level k on the leftmost path of the tree of depth d: the
\* first data block of the tree, or one of its first d pointer blocks
PathBlock(data, ptrs, g, n, d, k) ==
    IF k = 0
    THEN {b \in data : Rank(data, g, b) = SlotStart(d) /\ SlotBlocks(n, d) > 0}
    ELSE {b \in ptrs : Rank(ptrs, 0, b) = PointersBefore(n, d) + d - k
                       /\ SlotBlocks(n, d) > 0 /\ k <= d}

\* the blocks that deallocate_blocks will reach
Reached(data, ptrs, g, n) ==
    {b \in data : Rank(data, g, b) < NDIRECT}
      \cup UNION {PathBlock(data, ptrs, g, n, d, k) : d \in Depth, k \in 0 .. 3}

\* repeated visits, in group h, to the level k block of the tree of depth d
Revisits(data, ptrs, g, n, h, d, k) ==
    IF PathBlock(data, ptrs, g, n, d, k) \cap BlocksOf(h) = {} THEN 0
    ELSE IF PathVisits(n, d, k) > 1 THEN PathVisits(n, d, k) - 1 ELSE 0

TreeRevisits(data, ptrs, g, n, h, d) ==
      Revisits(data, ptrs, g, n, h, d, 0) + Revisits(data, ptrs, g, n, h, d, 1)
    + Revisits(data, ptrs, g, n, h, d, 2) + Revisits(data, ptrs, g, n, h, d, 3)

AgainIn(data, ptrs, g, n) ==
    [h \in Group |->   TreeRevisits(data, ptrs, g, n, h, 1)
                     + TreeRevisits(data, ptrs, g, n, h, 2)
                     + TreeRevisits(data, ptrs, g, n, h, 3)]

NewNode(mode, data, ptrs, g, n) ==
    [mode  |-> mode,
     freed |-> Reached(data, ptrs, g, n),
     rest  |-> (data \cup ptrs) \ Reached(data, ptrs, g, n),
     again |-> AgainIn(data, ptrs, g, n)]

\* allocate_node_blocks for inode i, from the bitmap and counters it finds; the
\* disk has room ("assume blocks always available")
AllocateNodeBlocks(i, mode, n, bitmap, count) ==
    /\ Cardinality(Avail(bitmap, count)) >= n + PointerBlocks(n)
    /\ \E data \in {DataBlocks(bitmap, count, i[1], n)} :
       \E ptrs \in {PtrBlocks(bitmap \cup data, Debit(count, data), n)} :
         /\ block_bitmap' = bitmap \cup data \cup ptrs
         /\ free_blocks_count' = Debit(Debit(count, data), ptrs)
         /\ node' = [node EXCEPT ![i] = NewNode(mode, data, ptrs, i[1], n)]

\* mutant: the group's counter is not looked at
FirstFreeUncounted(i) ==
    /\ i[1] = 0
    /\ \/ /\ i \notin inode_bitmap
          /\ \A j \in InodesOf(0) : j[2] < i[2] => j \in inode_bitmap
       \/ i[2] = 0 /\ InodesOf(0) \subseteq inode_bitmap

\* allocate_node: the first group with a free inode and its first clear bit,
\* or its inode 0 when the counter lies and no bit is clear
FirstFreeInode(i) ==
    /\ free_inodes_count[i[1]] > 0
    /\ \A g \in Group : g < i[1] => free_inodes_count[g] = 0
    /\ \/ /\ i \notin inode_bitmap
          /\ \A j \in InodesOf(i[1]) : j[2] < i[2] => j \in inode_bitmap
       \/ i[2] = 0 /\ InodesOf(i[1]) \subseteq inode_bitmap

-----------------------------------------------------------------------------
(* The state create_ext2 leaves: bitmaps and descriptors, the root inode    *)
(* and its directory table.                                                 *)

InitFrom(bitmap) ==
    LET count == [g \in Group |-> BLOCKS_PER_GROUP - ReservedCount(g)]
        table == SearchBlocks(bitmap, count, 0, 1)
        empty == [mode |-> "none", freed |-> {}, rest |-> {}, again |-> [g \in Group |-> 0]]
    IN  /\ block_bitmap = bitmap \cup table
        /\ inode_bitmap = {Root}
        /\ free_blocks_count = Debit(count, table)
        /\ free_inodes_count = [g \in Group |-> IF g = 0 THEN INODES_PER_GROUP - 1
                                                         ELSE INODES_PER_GROUP]
        /\ used_dirs_count = [g \in Group |-> 0]
        /\ node = [i \in Inode |-> IF i = Root THEN NewNode("IFDIR", table, {}, 0, 1)
                                               ELSE empty]
        /\ tables = [i \in Inode |-> {}]
        /\ home = [i \in Inode |-> NoEntry]

\* the bits that the loops over the bitmaps set are those of Ext2Crash
Init == InitFrom(Reserved)

\* the last table of a directory's chain; which of several chained tables is
\* the last is left open
LastTables(p) == IF tables[p] = {} THEN node[p].freed ELSE tables[p]

\* the block of a new table, when the entry does not fit into the last one:
\* long names fill any table that has an entry
Extension(p, extend) ==
    IF extend THEN SearchBlocks(block_bitmap, free_blocks_count, p[1], 1) ELSE {}
CanExtend(p) == \E t \in LastTables(p) : Kids(t) # {}

\* write: a folder of one block, or a file of n blocks, whose inode and blocks
\* are taken after the table that may be needed for the entry
Write(p, mode, n, extend) ==
    /\ p \in inode_bitmap /\ IsDir(p)
    /\ extend => CanExtend(p) /\ Extension(p, TRUE) # {}
    /\ \E i \in Inode, ext \in {Extension(p, extend)} :
         /\ FirstFreeInode(i)
         /\ inode_bitmap' = inode_bitmap \cup {i}
         /\ free_inodes_count' = [free_inodes_count EXCEPT ![i[1]] = (@ - 1) % COUNT_MOD]
         /\ tables' = [tables EXCEPT ![p] = @ \cup ext]
         /\ \E t \in IF extend THEN ext ELSE LastTables(p) : home' = [home EXCEPT ![i] = t]
         /\ \E bitmap \in {block_bitmap \cup ext}, count \in {Debit(free_blocks_count, ext)} :
               AllocateNodeBlocks(i, mode, n, bitmap, count)
    /\ UNCHANGED used_dirs_count

MakeFolder(p, extend)   == Write(p, "IFDIR", 1, extend)
WriteFile(p, n, extend) == Write(p, "IFREG", n, extend)

\* is_directory_empty: the first record of the first table is the terminator
IsDirectoryEmpty(i) == tables[i] = {} /\ \A t \in node[i].freed : Kids(t) = {}

\* mutant: a chained table goes with any of its entries
UnlinkedWithAny(p, i) == {t \in tables[p] : i \in Kids(t)}

\* the chained table of p that is unlinked and freed when the entry of i, its
\* only one, goes away
Unlinked(p, i) == {t \in tables[p] : Kids(t) = {i}}

\* delete: deallocate_node, then the entry's table if it was the last entry.
\* The inode itself is not touched: sync_node reads the table over dtime
Delete(p, i) ==
    LET unlinked == Unlinked(p, i)
        credited == Credit(free_blocks_count, node[i].freed)
    IN  /\ p \in inode_bitmap /\ IsDir(p)
        /\ i \in inode_bitmap \ {Root} /\ home[i] \in TableBlocks(p)
        /\ IsDir(i) => IsDirectoryEmpty(i)
        /\ block_bitmap' = (block_bitmap \ node[i].freed) \ unlinked
        /\ free_blocks_count' =
              Credit([g \in Group |-> (credited[g] + node[i].again[g]) % COUNT_MOD], unlinked)
        /\ inode_bitmap' = inode_bitmap \ {i}
        /\ free_inodes_count' =
              [free_inodes_count EXCEPT ![i[1]] = (@ + 1) % COUNT_MOD]
        /\ used_dirs_count' = IF IsDir(i)
              THEN [used_dirs_count EXCEPT ![i[1]] = (@ - 1) % COUNT_MOD]
              ELSE used_dirs_count
        /\ tables' = [tables EXCEPT ![p] = @ \ unlinked]
        /\ home' = [home EXCEPT ![i] = NoEntry]
        /\ UNCHANGED node

\* move_dir of directory i from p to q, for names of up to three characters
\* and an extension of another table than the one the entry leaves: the other
\* cases damage a table's bytes and are in DirTable
MoveDir(i, p, q, extend) ==
    LET ext == Extension(q, extend)
    IN  /\ {p, q} \subseteq inode_bitmap /\ IsDir(p) /\ IsDir(q)
        /\ i \in inode_bitmap \ {Root} /\ IsDir(i) /\ home[i] \in TableBlocks(p)
        /\ extend => CanExtend(q) /\ ext # {} /\ LastTables(q) # {home[i]}
        /\ \E t \in IF extend THEN ext ELSE LastTables(q) :
              LET unlinked == Unlinked(p, i) \ {t}
              IN  /\ home' = [home EXCEPT ![i] = t]
                  /\ tables' = [d \in Inode |->
                        (tables[d] \cup IF d = q THEN ext ELSE {}) \
                             (IF d = p THEN unlinked ELSE {})]
                  /\ block_bitmap' = (block_bitmap \cup ext) \ unlinked
                  /\ free_blocks_count' = Credit(Debit(free_blocks_count, ext), unlinked)
        /\ UNCHANGED <<inode_bitmap, free_inodes_count, used_dirs_count, node>>

Next ==
    \/ \E p \in Inode, extend \in BOOLEAN : MakeFolder(p, extend)
    \/ \E p \in Inode, n \in 1 .. MaxFileBlocks, extend \in BOOLEAN : WriteFile(p, n, extend)
    \/ \E p, i \in Inode : Delete(p, i)
    \/ \E i, p, q \in Inode, extend \in BOOLEAN : MoveDir(i, p, q, extend)

Spec == Init /\ [][Next]_vars

-----------------------------------------------------------------------------
(* What must hold of the disk.                                              *)

\* Two live inodes never hold the same block, as data, pointer block or
\* directory table, whatever was written, moved and deleted before
\* (search_blocks, deallocate_blocks).
NoSharedBlocks ==
    \A i, j \in inode_bitmap : i # j => Own(i) \cap Own(j) = {}

\* Every block of a live inode has its bit set and none is a reserved one, so
\* no allocation can hand it out again: deallocate_block leaves blocks behind
\* but never frees a foreign one.
OwnedAreMarked ==
    /\ Reserved \subseteq block_bitmap
    /\ \A i \in inode_bitmap : Own(i) \subseteq block_bitmap \ Reserved

\* Every live inode but the root has its entry in a table of a live directory,
\* and every chained table still holds an entry: delete and move_dir unlink
\* exactly the tables that become empty.
EntriesHaveTables ==
    /\ \A c \in inode_bitmap \ {Root} :
          \E p \in inode_bitmap : IsDir(p) /\ home[c] \in TableBlocks(p)
    /\ \A p \in Inode : \A t \in tables[p] : Kids(t) # {}

\* free_inodes_count says how many bits of the inode bitmap are clear, which is
\* what allocate_node relies on to find one.
InodeCountsExact ==
    \A g \in Group :
        free_inodes_count[g] = INODES_PER_GROUP - Cardinality(inode_bitmap \cap InodesOf(g))

\* A block whose bit is set belongs to the file system or to a live inode:
\* deleting gives back everything.  True as long as no file needs a pointer
\* block.
NoLeak == block_bitmap \ Reserved = UNION {Own(i) : i \in inode_bitmap}

\* The inode of a file or folder is never written over while it is live: the
\* inode allocate_node returns is always a free one.
LiveNodesStay ==
    [][\A i \in inode_bitmap \cap inode_bitmap' : node'[i] = node[i]]_vars
=============================================================================
