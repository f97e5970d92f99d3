---------------------------- MODULE MCExt2Crash ----------------------------
(* The view under which TLC explores Ext2Crash.                             *)
EXTENDS Ext2Crash

\* used_dirs_count is never read, what an inode that no path leads to still holds
\* only if it is torn, and no file is so large that its rest or again say anything
CutView == <<block_bitmap, inode_bitmap, free_blocks_count, free_inodes_count,
             [i \in Linked \cup ({torn} \cap Inode) |-> <<node[i].mode, node[i].freed>>],
             tables, home, cuts, torn, lost>>
=============================================================================
