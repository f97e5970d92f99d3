------------------------------ MODULE NodeTree ------------------------------
(***************************************************************************)
(* The recursive functions behind an inode's block array, on one node:     *)
(* allocate_node_blocks and map_node_blocks write a buffer as a tree of    *)
(* blocks, load_inode_blocks and load_blocks_rec read it back, and         *)
(* deallocate_blocks and deallocate_block clear bits.  Blocks are numbered *)
(* in the order they are allocated: data blocks 1 .. n in the order        *)
(* search_blocks found them, pointer blocks n+1 onwards.  The counts that  *)
(* Ext2Alloc takes from BlockMap are checked here against the recursion.   *)
(***************************************************************************)
EXTENDS BlockMap, Sequences

BLOCK_SIZE == 4 * PTRS      \* a pointer is a uint32_t

CONSTANT MaxSize            \* bound: bytes of the largest node

\* the block array holds it
ASSUME NodeTreeAssumption ==
    MaxSize \in Nat /\ DivCeil(MaxSize, BLOCK_SIZE) <= NDIRECT + Span(1) + Span(2) + Span(3)

VARIABLES phase,   \* "new", "written", "read" or "deleted"
          size,    \* node->size_low
          disk,    \* block -> piece of the buffer, or sequence of pointers
          block,   \* node->block[]
          out,     \* what load_inode_blocks put into the caller's buffer
          visits   \* block -> times deallocate_block cleared its bit
vars == <<phase, size, disk, block, out, visits>>

\* mutant: rounds down
BlocksFloor == size \div BLOCK_SIZE

\* blocks of the node, div_ceil of its size
Blocks == DivCeil(size, BLOCK_SIZE)

\* mutant: pointer blocks start at the last data block
PointersFromLast == Blocks

\* the block search_blocks finds once the data blocks are taken
PointersFrom == Blocks + 1

\* what an entry past the end of a pointer buffer on the stack leads to
Junk == 0

-----------------------------------------------------------------------------
(* map_node_blocks, a level of the tree after the other: s has the disk,    *)
(* mapped_count, the next block that search_blocks will find, and the block *)
(* the last call returned                                                   *)

Write(s, b, what) ==
    [s EXCEPT !.disk = [x \in DOMAIN s.disk \cup {b} |-> IF x = b THEN what ELSE s.disk[x]],
              !.ret = b]

MapData(s, blocks, at) ==
    IF blocks = 0 THEN [s EXCEPT !.ret = 0]
    ELSE [Write(s, at, <<s.mapped>>) EXCEPT !.mapped = @ + 1]

\* a pointer block, with a turn of the loop for each child
MapLevel(MapChild(_, _, _), capacity, s, blocks, at) ==
    LET turn[i \in 0 .. PTRS] ==
            IF i = 0 THEN [s |-> [s EXCEPT !.next = @ + 1], left |-> blocks, buffer |-> <<>>]
            ELSE LET t     == turn[i - 1]
                     child == MapChild(t.s, t.left, at + (i - 1) * capacity)
                 IN  IF t.left = 0 THEN t
                     ELSE [s |-> child, buffer |-> Append(t.buffer, child.ret),
                           left |-> IF t.left <= capacity THEN 0 ELSE t.left - capacity]
    IN  IF blocks = 0 THEN [s EXCEPT !.ret = 0]
        ELSE LET t == turn[PTRS] IN Write(t.s, s.next, t.buffer)

MapLevel1(s, blocks, at) == MapLevel(MapData, Span(0), s, blocks, at)
MapLevel2(s, blocks, at) == MapLevel(MapLevel1, Span(1), s, blocks, at)
MapLevel3(s, blocks, at) == MapLevel(MapLevel2, Span(2), s, blocks, at)

MapNode(s, blocks, at, depth) ==
    CASE depth = 0 -> MapData(s, blocks, at)
      [] depth = 1 -> MapLevel1(s, blocks, at)
      [] depth = 2 -> MapLevel2(s, blocks, at)
      [] depth = 3 -> MapLevel3(s, blocks, at)

\* of the slot'th entry of node->block[], counted from 1
SlotDepth(slot) == IF slot <= NDIRECT THEN 0 ELSE slot - NDIRECT

\* allocate_node_blocks, after each slot
MapSlots ==
    LET after[i \in 0 .. NDIRECT + 3] ==
            IF i = 0 THEN [s |-> [disk |-> disk, mapped |-> 0, next |-> PointersFrom, ret |-> 0],
                           block |-> <<>>]
            ELSE LET t == after[i - 1]
                     r == MapNode(t.s, Blocks - t.s.mapped, t.s.mapped + 1, SlotDepth(i))
                 IN  IF t.s.mapped >= Blocks THEN t ELSE [s |-> r, block |-> Append(t.block, r.ret)]
    IN  after

AllocateNodeBlocks ==
    LET end == MapSlots[NDIRECT + 3]
    IN  /\ phase = "new" /\ phase' = "written"
        /\ disk' = end.s.disk /\ block' = end.block
        /\ UNCHANGED <<size, out, visits>>

-----------------------------------------------------------------------------
(* load_blocks_rec: the pieces read, each with the bytes copied.  The loop  *)
(* runs to BLOCK_SIZE, past the pointers it read, as long as blocks remain. *)

Read(b) == IF b \in DOMAIN disk THEN disk[b] ELSE <<Junk>>
Pointer(b, i) == IF i <= Len(Read(b)) THEN Read(b)[i] ELSE Junk

LoadData(b, blocks, bytes) ==
    << <<Read(b), IF bytes >= BLOCK_SIZE THEN BLOCK_SIZE ELSE bytes>> >>

\* what is left after r is read
Loaded(t, r) == [left  |-> t.left - Len(r), bytes |-> t.bytes - Len(r) * BLOCK_SIZE,
                 got   |-> t.got \o r]

LoadLevel(LoadChild(_, _, _), b, blocks, bytes) ==
    LET turn[i \in 0 .. BLOCK_SIZE] ==
            IF i = 0 THEN [left |-> blocks, bytes |-> bytes, got |-> <<>>]
            ELSE LET t == turn[i - 1]
                 IN  IF t.left = 0 THEN t
                     ELSE Loaded(t, LoadChild(Pointer(b, i), t.left, t.bytes))
    IN  turn[BLOCK_SIZE].got

LoadLevel1(b, blocks, bytes) == LoadLevel(LoadData, b, blocks, bytes)
LoadLevel2(b, blocks, bytes) == LoadLevel(LoadLevel1, b, blocks, bytes)
LoadLevel3(b, blocks, bytes) == LoadLevel(LoadLevel2, b, blocks, bytes)

LoadRec(b, blocks, bytes, depth) ==
    CASE depth = 0 -> LoadData(b, blocks, bytes)
      [] depth = 1 -> LoadLevel1(b, blocks, bytes)
      [] depth = 2 -> LoadLevel2(b, blocks, bytes)
      [] depth = 3 -> LoadLevel3(b, blocks, bytes)

LoadSlots ==
    LET after[i \in 0 .. NDIRECT + 3] ==
            IF i = 0 THEN [left |-> Blocks, bytes |-> size, got |-> <<>>]
            ELSE LET t == after[i - 1]
                 IN  IF t.left <= 0 THEN t
                     ELSE Loaded(t, LoadRec(block[i], t.left, t.bytes, SlotDepth(i)))
    IN  after

LoadInodeBlocks ==
    /\ phase = "written" /\ phase' = "read"
    /\ out' = LoadSlots[NDIRECT + 3].got
    /\ UNCHANGED <<size, disk, block, visits>>

-----------------------------------------------------------------------------
(* deallocate_block: v counts the times each block's bit is cleared.        *)
(* child_loc stays at the first pointer.                                    *)

Clear(v, b) == [x \in DOMAIN v \cup {b} |->
                   IF x # b THEN v[x] ELSE IF b \in DOMAIN v THEN v[b] + 1 ELSE 1]

DeallocateData(v, b, blocks) ==
    IF blocks = 0 THEN [visits |-> v, count |-> 0] ELSE [visits |-> Clear(v, b), count |-> 1]

DeallocateLevel(DeallocateChild(_, _, _), v, b, blocks) ==
    LET turn[i \in 0 .. PTRS] ==
            IF i = 0 THEN [visits |-> Clear(v, b), count |-> 0]
            ELSE LET t == turn[i - 1]
                     r == DeallocateChild(t.visits, Pointer(b, 1), blocks - t.count)
                 IN  IF t.count = blocks THEN t
                     ELSE [visits |-> r.visits, count |-> t.count + r.count]
    IN  IF blocks = 0 THEN [visits |-> v, count |-> 0] ELSE turn[PTRS]

DeallocateLevel1(v, b, blocks) == DeallocateLevel(DeallocateData, v, b, blocks)
DeallocateLevel2(v, b, blocks) == DeallocateLevel(DeallocateLevel1, v, b, blocks)
DeallocateLevel3(v, b, blocks) == DeallocateLevel(DeallocateLevel2, v, b, blocks)

DeallocateBlock(v, b, blocks, depth) ==
    CASE depth = 0 -> DeallocateData(v, b, blocks)
      [] depth = 1 -> DeallocateLevel1(v, b, blocks)
      [] depth = 2 -> DeallocateLevel2(v, b, blocks)
      [] depth = 3 -> DeallocateLevel3(v, b, blocks)

DeallocateSlots ==
    LET after[i \in 0 .. NDIRECT + 3] ==
            IF i = 0 THEN [visits |-> [b \in DOMAIN disk |-> 0], count |-> 0]
            ELSE LET t == after[i - 1]
                     r == DeallocateBlock(t.visits, block[i], Blocks - t.count, SlotDepth(i))
                 IN  IF t.count = Blocks THEN t
                     ELSE [visits |-> r.visits, count |-> t.count + r.count]
    IN  after

DeallocateBlocks ==
    /\ phase = "read" /\ phase' = "deleted"
    /\ visits' = DeallocateSlots[NDIRECT + 3].visits
    /\ UNCHANGED <<size, disk, block, out>>

-----------------------------------------------------------------------------
Init == /\ phase = "new" /\ size \in 1 .. MaxSize
        /\ disk = <<>> /\ block = <<>> /\ out = <<>> /\ visits = <<>>
Next == AllocateNodeBlocks \/ LoadInodeBlocks \/ DeallocateBlocks
Spec == Init /\ [][Next]_vars

\* The tree that map_node_blocks builds has the blocks and pointer blocks that
\* Ext2Alloc takes from BlockMap, each allocated once, and a tree's leftmost
\* path starts where PathBlock looks for it.
TreeHasItsBlocks ==
    phase # "new" =>
       /\ DOMAIN disk = 1 .. Blocks + PointerBlocks(Blocks)
       /\ \A d \in Depth : SlotBlocks(Blocks, d) > 0 =>
             block[NDIRECT + d] = Blocks + PointersBefore(Blocks, d) + 1

\* A buffer written with allocate_node_blocks is read back, piece for piece and
\* to its last byte, by load_inode_blocks (ext2.h: "load inode blocks from disk
\* recursively (indirect blocks too)"), as long as the first pointer block
\* is enough: with more blocks load_blocks_rec goes on past its pointers, to
\* BLOCK_SIZE.
LoadsWhatWasWritten ==
    phase \in {"read", "deleted"} /\ Blocks <= NDIRECT + PTRS =>
        /\ Len(out) = Blocks
        /\ \A k \in 1 .. Len(out) :
              /\ out[k][1] = <<k - 1>>
              /\ out[k][2] = IF k < Blocks THEN BLOCK_SIZE
                                           ELSE size - (Blocks - 1) * BLOCK_SIZE

\* deallocate_block visits direct blocks once, the leftmost path of each tree
\* as often as PathVisits says, and nothing else.
VisitsLeftmostPath ==
    phase = "deleted" =>
        /\ DOMAIN visits = DOMAIN disk
        /\ \A b \in DOMAIN disk :
            LET onPath == {dk \in Depth \X (0 .. 3) :
                    /\ dk[2] <= dk[1] /\ SlotBlocks(Blocks, dk[1]) > 0
                    /\ b = IF dk[2] = 0 THEN SlotStart(dk[1]) + 1
                           ELSE Blocks + PointersBefore(Blocks, dk[1]) + 1 + dk[1] - dk[2]}
            IN  IF b <= NDIRECT THEN visits[b] = 1
                ELSE IF onPath = {} THEN visits[b] = 0
                ELSE \A dk \in onPath : visits[b] = PathVisits(Blocks, dk[1], dk[2])
=============================================================================
