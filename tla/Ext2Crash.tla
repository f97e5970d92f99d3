------------------------------ MODULE Ext2Crash -----------------------------
(***************************************************************************)
(* Ext2Alloc on a machine that is switched off in the middle of a write or *)
(* of a delete.  A handler writes to the disk bitmaps, descriptors, inode  *)
(* table and directory one after the other, and nothing is written again   *)
(* or repaired when the system starts: it reads the superblock and the     *)
(* descriptors as they are.  A cut operation is one action whose effect is *)
(* that of the first so many of the disk's writes.                         *)
(*                                                                         *)
(* What is assumed of the operations after a cut: a delete that was cut is *)
(* given again before anything else, and allocate_node finds a clear bit   *)
(* ("assume node always available"), for the counter it goes by may lie.   *)
(***************************************************************************)
EXTENDS Ext2Alloc

CONSTANT MaxCuts        \* bound: times that the machine is switched off

ASSUME CutsAssumption == MaxCuts \in Nat

VARIABLES cuts,         \* times that it was
          torn,         \* the inode of a delete that was cut, or NoInode
          lost          \* history: blocks marked by a write that was cut
crashVars == <<vars, cuts, torn, lost>>

NoInode == <<GROUPS_COUNT, 0>>

-----------------------------------------------------------------------------
(* create_ext2: the bits of the bitmaps, byte by byte.                      *)

\* the bits set for group 0: in byte j the first k of what is left
SetBits(n) == UNION {{8 * j + k : k \in {k \in 0 .. 7 : k < n - 8 * j}} : j \in {j \in 0 .. n : 8 * j < n}}

\* mutant: in the first bit of a byte it goes on in the same byte
BackInByte(at) == IF at[2] = 0 THEN <<at[1], 7>> ELSE <<at[1], at[2] - 1>>

\* the bit before, from byte to byte
Back(at) == IF at[2] = 0 THEN <<at[1] - 1, 7>> ELSE <<at[1], at[2] - 1>>

\* the three bits that are taken back for the other groups, from the last on
TakenBack(n) ==
    LET last == <<(n - 1) \div 8, (n - 1) % 8>>
    IN  {8 * at[1] + at[2] : at \in {last, Back(last), Back(Back(last))}}

Formatted ==
    {b \in Block : b[2] \in SetBits(ReservedCount(0)) \
                                (IF b[1] = 0 THEN {} ELSE TakenBack(ReservedCount(0)))}

CrashInit == InitFrom(Formatted) /\ cuts = 0 /\ torn = NoInode /\ lost = {}

-----------------------------------------------------------------------------
(* Operations that are not cut.                                             *)

\* inodes that a path leads to
Linked == {i \in inode_bitmap : i = Root \/ home[i] # NoEntry}

NodeAvailable == \E i \in Inode \ inode_bitmap : FirstFreeInode(i)

Whole ==
    /\ torn = NoInode
    /\ \/ \E p \in Linked, extend \in BOOLEAN : NodeAvailable /\ MakeFolder(p, extend)
       \/ \E p \in Linked, n \in 1 .. MaxFileBlocks, extend \in BOOLEAN :
             NodeAvailable /\ WriteFile(p, n, extend)
       \/ \E p, i \in Linked : Delete(p, i)
       \/ \E dirs \in {{d \in Linked : IsDir(d)}} :
             \E i, p, q \in dirs, extend \in BOOLEAN : MoveDir(i, p, q, extend)
    /\ UNCHANGED <<cuts, torn, lost>>

-----------------------------------------------------------------------------
(* A write that is cut.                                                     *)

\* the bits that are on the disk after one search after the other: data in the
\* preferred group, in the others, then the pointer blocks
Searched(data, ptrs, g) ==
    {{}, data \cap BlocksOf(g), data} \cup {data \cup Take(ptrs, 0, k) : k \in 0 .. Cardinality(ptrs)}

\* a descriptor is written after its bitmap: it counts all searches, or all but the last
CountsLag(counted, marked, searched) ==
    /\ counted \subseteq marked
    /\ \A s \in searched : counted \subseteq s /\ s \subseteq marked => s \in {counted, marked}

\* mutant: the entry comes before the node that it names
CutWriteEntryFirst(p, n) ==
    /\ p \in Linked /\ IsDir(p)
    /\ \E i \in Inode \ inode_bitmap :
         /\ FirstFreeInode(i)
         /\ inode_bitmap' = inode_bitmap \cup {i}
         /\ free_inodes_count' = [free_inodes_count EXCEPT ![i[1]] = @ - 1]
         /\ \E data \in {DataBlocks(block_bitmap, free_blocks_count, i[1], n)} :
              node' = [node EXCEPT ![i] = NewNode("IFREG", data, {}, i[1], n)]
         /\ \E t \in LastTables(p) : home' = [home EXCEPT ![i] = t]
    /\ UNCHANGED <<block_bitmap, free_blocks_count, lost, used_dirs_count, tables>>

\* the bit of the inode, its counter, then the blocks, then what no path leads to yet
CutWrite(p, n) ==
    /\ p \in Linked /\ IsDir(p)
    /\ \E i \in Inode \ inode_bitmap :
         /\ FirstFreeInode(i)
         /\ inode_bitmap' = inode_bitmap \cup {i}
         /\ \E data \in {DataBlocks(block_bitmap, free_blocks_count, i[1], n)} :
            \E ptrs \in {PtrBlocks(block_bitmap \cup data, Debit(free_blocks_count, data), n)} :
            \E marked, counted \in Searched(data, ptrs, i[1]), c \in 0 .. 1 :
              /\ Cardinality(data \cup ptrs) = n + PointerBlocks(n)
              /\ CountsLag(counted, marked, Searched(data, ptrs, i[1]))
              /\ c = 0 => marked = {}
              /\ free_inodes_count' = [free_inodes_count EXCEPT ![i[1]] = @ - c]
              /\ block_bitmap' = block_bitmap \cup marked
              /\ free_blocks_count' = Debit(free_blocks_count, counted)
              /\ lost' = lost \cup marked
    /\ UNCHANGED <<used_dirs_count, node, tables, home>>

-----------------------------------------------------------------------------
(* A delete that is cut, and given again.                                   *)

\* what the disk's tables hold although the bit of inode i may be clear
HeldIn(t, i) == {c \in (inode_bitmap \cup {i}) \ {Root} : home[c] = t}

\* the bitmaps, the preferred group's first, then all counters of blocks, the bit of
\* the inode, its counters: so far the entry is there; then it is not, but the block
\* of the table that it was in is marked, or free and not counted
CutDelete(p, i) ==
    LET Credited ==
            free_blocks_count' = [g \in Group |->
                (Credit(free_blocks_count, node[i].freed)[g] + node[i].again[g]) % COUNT_MOD]
        Freed(S) ==
            /\ block_bitmap' = block_bitmap \ S
            /\ UNCHANGED free_blocks_count
        FreedAll ==
            /\ block_bitmap' = block_bitmap \ node[i].freed
            /\ Credited
        Cleared(c) ==
            /\ inode_bitmap' = inode_bitmap \ {i}
            /\ free_inodes_count' = [free_inodes_count EXCEPT ![i[1]] = (@ + c) % COUNT_MOD]
            /\ used_dirs_count' = IF IsDir(i)
                  THEN [used_dirs_count EXCEPT ![i[1]] = (@ - c) % COUNT_MOD] ELSE used_dirs_count
        Unlinks ==
            /\ tables' = [tables EXCEPT ![p] = @ \ Unlinked(p, i)]
            /\ home' = [home EXCEPT ![i] = NoEntry]
            /\ torn' = NoInode
    IN  /\ {p, i} \subseteq Linked /\ IsDir(p)
        /\ i # Root /\ home[i] \in TableBlocks(p) /\ (IsDir(i) => IsDirectoryEmpty(i))
        /\ \/ /\ \E S \in {node[i].freed \cap BlocksOf(i[1]), node[i].freed} : Freed(S)
              /\ torn' = i
              /\ UNCHANGED <<inode_bitmap, free_inodes_count, used_dirs_count, tables, home, lost>>
           \/ /\ FreedAll
              /\ torn' = i
              /\ UNCHANGED <<inode_bitmap, free_inodes_count, used_dirs_count, tables, home, lost>>
           \/ /\ FreedAll
              /\ \E c \in 0 .. 1 : Cleared(c)
              /\ torn' = i
              /\ UNCHANGED <<tables, home, lost>>
           \/ /\ FreedAll /\ Cleared(1) /\ Unlinks
              /\ lost' = lost \cup Unlinked(p, i)
           \/ /\ block_bitmap' = (block_bitmap \ node[i].freed) \ Unlinked(p, i)
              /\ Credited /\ Cleared(1) /\ Unlinks
              /\ UNCHANGED lost
        /\ UNCHANGED node

\* mutant: blocks whose bits are clear are not counted again
RedoUncounted(p) ==
    LET i == torn IN
    /\ torn # NoInode /\ home[i] \in TableBlocks(p) /\ p \in Linked
    /\ block_bitmap' = block_bitmap \ node[i].freed
    /\ free_blocks_count' = Credit(free_blocks_count, node[i].freed \cap block_bitmap)
    /\ inode_bitmap' = inode_bitmap \ {i}
    /\ free_inodes_count' = [free_inodes_count EXCEPT ![i[1]] = @ + 1]
    /\ home' = [home EXCEPT ![i] = NoEntry]
    /\ torn' = NoInode
    /\ UNCHANGED <<used_dirs_count, node, tables, cuts, lost>>

\* delete finds the entry and the inode as they were and does all of it again
Redo(p) ==
    LET i        == torn
        unlinked == {t \in tables[p] : HeldIn(t, i) = {i}}
        credited == Credit(free_blocks_count, node[i].freed)
    IN  /\ torn # NoInode /\ p \in Linked /\ home[i] \in TableBlocks(p)
        /\ block_bitmap' = (block_bitmap \ node[i].freed) \ unlinked
        /\ free_blocks_count' =
              Credit([g \in Group |-> (credited[g] + node[i].again[g]) % COUNT_MOD], unlinked)
        /\ inode_bitmap' = inode_bitmap \ {i}
        /\ free_inodes_count' = [free_inodes_count EXCEPT ![i[1]] = (@ + 1) % COUNT_MOD]
        /\ used_dirs_count' = IF IsDir(i)
              THEN [used_dirs_count EXCEPT ![i[1]] = (@ - 1) % COUNT_MOD] ELSE used_dirs_count
        /\ tables' = [tables EXCEPT ![p] = @ \ unlinked]
        /\ home' = [home EXCEPT ![i] = NoEntry]
        /\ torn' = NoInode
        /\ UNCHANGED <<node, cuts, lost>>

\* the machine is switched off in an operation and started again
Cut ==
    /\ torn = NoInode /\ cuts < MaxCuts /\ cuts' = cuts + 1
    /\ \/ \E p \in Inode, n \in 1 .. MaxFileBlocks : CutWrite(p, n) /\ UNCHANGED torn
       \/ \E p, i \in Inode : CutDelete(p, i)

CrashNext == Whole \/ Cut \/ \E p \in Inode : Redo(p)
CrashSpec == CrashInit /\ [][CrashNext]_crashVars

-----------------------------------------------------------------------------
(* What must hold of the disk after a cut as well.                          *)

Sound == Linked \ {torn}

\* Two files or directories that a path leads to never hold the same block, also
\* when the machine was switched off in a write or a delete and the delete was given
\* again: blocks are marked before the entry names them.
LinkedApart ==
    \A i, j \in Sound : i # j => Own(i) \cap Own(j) = {}

\* What the files and directories hold is marked and not reserved, also after a cut,
\* and what create_ext2 has marked as reserved stays so.
LinkedMarked ==
    /\ Reserved \subseteq block_bitmap
    /\ \A i \in Sound : Own(i) \subseteq block_bitmap \ Reserved

\* A block that is marked is in use, or was marked by a write that was cut: a cut
\* loses no block that was in use before, and without a cut nothing is lost at all.
\* True as long as no file needs a pointer block.
OnlyCutsLose ==
    torn = NoInode =>
        block_bitmap \ Reserved = lost \cup UNION {Own(i) : i \in Linked}

\* The counters say how many blocks and inodes are free, and search_blocks finds
\* them by that; a cut makes them say too many, but at most one too few.
\* True as long as no file needs a pointer block.
CountsHideAtMostOne ==
    LET Clear(g)      == BLOCKS_PER_GROUP - Cardinality(block_bitmap \cap BlocksOf(g))
        ClearNodes(g) == INODES_PER_GROUP - Cardinality(inode_bitmap \cap InodesOf(g))
    IN  torn = NoInode => \A g \in Group :
            /\ free_blocks_count[g] >= Clear(g) - cuts
            /\ free_inodes_count[g] >= ClearNodes(g)
            /\ cuts = 0 => /\ free_blocks_count[g] = Clear(g)
                           /\ free_inodes_count[g] = ClearNodes(g)
=============================================================================
