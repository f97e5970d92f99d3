------------------------------ MODULE BlockMap ------------------------------
(***************************************************************************)
(* The arithmetic of an EXT2 inode's block array: slots 0 .. NDIRECT-1     *)
(* name data blocks, slot NDIRECT-1+d names a tree of pointer blocks of    *)
(* depth d (1, 2 or 3), every pointer block holding PTRS pointers.  The    *)
(* operators say, for a node of n data blocks, how many data and pointer   *)
(* blocks each tree has, and how often deallocate_block visits the blocks  *)
(* of the tree's leftmost path, the only ones it ever reaches.  The        *)
(* recursive functions of the code are in NodeTree, which checks them      *)
(* against these closed forms.                                             *)
(***************************************************************************)
EXTENDS Integers

CONSTANTS NDIRECT,      \* direct slots of a node, 12 in the code
          PTRS          \* pointers in a pointer block, BLOCK_SIZE / 4

ASSUME BlockMapAssumption == NDIRECT \in Nat \ {0} /\ PTRS \in Nat \ {0}

Depth == 1 .. 3

DivCeil(a, b) == (a + b - 1) \div b

\* data blocks under one pointer block of level k; level 0 is a data block
Span(k) == IF k = 0 THEN 1
           ELSE IF k = 1 THEN PTRS
           ELSE IF k = 2 THEN PTRS * PTRS
           ELSE PTRS * PTRS * PTRS

\* data blocks that come before the tree of depth d
SlotStart(d) == IF d = 1 THEN NDIRECT
                ELSE IF d = 2 THEN NDIRECT + Span(1)
                ELSE NDIRECT + Span(1) + Span(2)

\* data blocks of a node of n blocks that the tree of depth d holds
SlotBlocks(n, d) == IF n <= SlotStart(d) THEN 0
                    ELSE IF n - SlotStart(d) > Span(d) THEN Span(d)
                    ELSE n - SlotStart(d)

\* pointer blocks of level k in the tree of depth d
LevelPointers(n, d, k) == IF k <= d THEN DivCeil(SlotBlocks(n, d), Span(k)) ELSE 0

\* pointer blocks of the tree of depth d, as map_node_blocks allocates them
SlotPointers(n, d) ==
    LevelPointers(n, d, 1) + LevelPointers(n, d, 2) + LevelPointers(n, d, 3)

\* pointer blocks of the trees before the one of depth d
PointersBefore(n, d) == IF d = 1 THEN 0
                        ELSE IF d = 2 THEN SlotPointers(n, 1)
                        ELSE SlotPointers(n, 1) + SlotPointers(n, 2)

PointerBlocks(n) == SlotPointers(n, 1) + SlotPointers(n, 2) + SlotPointers(n, 3)

\* mutant: rounds down
PathVisitsFloor(n, d, k) == SlotBlocks(n, d) \div Span(k)

\* deallocate_block never advances child_loc: it visits the block of level k on
\* the leftmost path of the tree of depth d once per block of that level
PathVisits(n, d, k) == DivCeil(SlotBlocks(n, d), Span(k))
=============================================================================
