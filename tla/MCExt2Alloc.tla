---------------------------- MODULE MCExt2Alloc -----------------------------
(* Bounds and the view under which TLC explores Ext2Alloc.                  *)
EXTENDS Ext2Alloc

CONSTANT MaxDirDeletes

\* bound on the range of used_dirs_count, which only ever counts down
DirDeletes == \A g \in Group : -used_dirs_count[g] % COUNT_MOD <= MaxDirDeletes

\* what a deleted inode still holds is never read by Next
LiveView == <<block_bitmap, inode_bitmap, free_blocks_count, free_inodes_count,
              used_dirs_count, [i \in inode_bitmap |-> node[i]], tables, home>>
=============================================================================
