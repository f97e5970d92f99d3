----------------------------- MODULE Ext2Proofs -----------------------------
(* Theorems about Ext2Alloc, for every geometry and every size of file, and *)
(* then about Ext2Crash, for every disk and any number of cuts.             *)
EXTENDS Ext2Crash, FiniteSetTheorems, TLAPS

(***************************************************************************)
(* Arithmetic and finite sets.                                             *)
(***************************************************************************)

\* A uint16_t counter stays in its range, and an operation within the range
\* does not wrap.
LEMMA ModRange ==
    ASSUME NEW m \in Nat \ {0}, NEW x \in Int
    PROVE  /\ x % m \in 0 .. m - 1
           /\ x \in 0 .. m - 1 => x % m = x
  OBVIOUS

\* A node and its trees have a natural number of blocks.
LEMMA SlotBlocksNat ==
    ASSUME NEW n \in Nat, NEW d \in Depth
    PROVE  SlotBlocks(n, d) \in Nat /\ SlotStart(d) \in Nat /\ SlotStart(d) >= NDIRECT
  <1>1. /\ PTRS \in Nat \ {0} /\ NDIRECT \in Nat \ {0}
        /\ PTRS * PTRS \in Nat \ {0}
        /\ PTRS * PTRS * PTRS \in Nat \ {0}
    BY BlockMapAssumption
  <1>2. d \in {1, 2, 3}
    BY DEF Depth
  <1> QED  BY <1>1, <1>2 DEF SlotBlocks, SlotStart, Span

\* A tree of pointer blocks reaches at least one block.
LEMMA SpanPositive == ASSUME NEW k \in 0 .. 3 PROVE Span(k) \in Nat \ {0}
  <1>1. PTRS \in Nat \ {0} /\ PTRS * PTRS \in Nat \ {0} /\ PTRS * PTRS * PTRS \in Nat \ {0}
    BY BlockMapAssumption
  <1> QED  BY <1>1 DEF Span

\* divceil of the code is a number, and 0 of 0.
LEMMA DivCeilNat ==
    ASSUME NEW a \in Nat, NEW b \in Nat \ {0}
    PROVE  DivCeil(a, b) \in Nat /\ (a = 0 => DivCeil(a, b) = 0)
  BY DEF DivCeil

\* Every set of blocks is finite; so is every set of inodes.
LEMMA BlockFinite ==
    /\ IsFiniteSet(Block)
    /\ \A S \in SUBSET Block : IsFiniteSet(S) /\ Cardinality(S) \in Nat
  <1>1. GROUPS_COUNT - 1 \in Int /\ BLOCKS_PER_GROUP - 1 \in Int
    BY GeometryAssumption
  <1>2. IsFiniteSet(Group) /\ IsFiniteSet(0 .. BLOCKS_PER_GROUP - 1)
    BY <1>1, FS_Interval DEF Group
  <1>3. IsFiniteSet(Group \X (0 .. BLOCKS_PER_GROUP - 1))
    BY <1>2, FS_Product
  <1>4. Block \subseteq Group \X (0 .. BLOCKS_PER_GROUP - 1)
    BY DEF Block
  <1>5. IsFiniteSet(Block)
    BY <1>3, <1>4, FS_Subset
  <1> QED  BY <1>5, FS_Subset, FS_CardinalityType

\* The inode table is finite, and so is every part of it.
LEMMA InodeFinite ==
    /\ IsFiniteSet(Inode)
    /\ \A S \in SUBSET Inode : IsFiniteSet(S) /\ Cardinality(S) \in Nat
  <1>1. GROUPS_COUNT - 1 \in Int /\ INODES_PER_GROUP - 1 \in Int
    BY GeometryAssumption
  <1>2. IsFiniteSet(Group) /\ IsFiniteSet(0 .. INODES_PER_GROUP - 1)
    BY <1>1, FS_Interval DEF Group
  <1>3. IsFiniteSet(Group \X (0 .. INODES_PER_GROUP - 1))
    BY <1>2, FS_Product
  <1>4. Inode \subseteq Group \X (0 .. INODES_PER_GROUP - 1)
    BY DEF Inode
  <1>5. IsFiniteSet(Inode)
    BY <1>3, <1>4, FS_Subset
  <1> QED  BY <1>5, FS_Subset, FS_CardinalityType

(***************************************************************************)
(* search_blocks and the counters.                                         *)
(***************************************************************************)

\* search_blocks only ever returns blocks whose bit was clear.
LEMMA SearchFindsFree ==
    ASSUME NEW bitmap, NEW count, NEW pref, NEW k
    PROVE  SearchBlocks(bitmap, count, pref, k) \subseteq Block \ bitmap
  BY DEF SearchBlocks, Take, Avail

\* search_blocks for one block finds at most one.
LEMMA SearchFindsOne ==
    ASSUME NEW bitmap, NEW count, NEW pref \in Group,
           NEW a \in SearchBlocks(bitmap, count, pref, 1),
           NEW b \in SearchBlocks(bitmap, count, pref, 1)
    PROVE  a = b
  <1> DEFINE S == Avail(bitmap, count)
  <1>1. a \in S /\ b \in S /\ S \in SUBSET Block
    BY DEF SearchBlocks, Take, Avail
  <1>2. Rank(S, pref, a) < 1 /\ Rank(S, pref, b) < 1
    BY DEF SearchBlocks, Take
  <1>3. ASSUME NEW c \in S, Rank(S, pref, c) < 1
        PROVE  {x \in S : Before(pref, x, c)} = {}
    <2>1. {x \in S : Before(pref, x, c)} \in SUBSET Block
      BY <1>1
    <2>2. IsFiniteSet({x \in S : Before(pref, x, c)})
            /\ Cardinality({x \in S : Before(pref, x, c)}) = 0
      BY <2>1, <1>3, BlockFinite DEF Rank
    <2> QED  BY <2>2, FS_EmptySet
  <1>4. ~Before(pref, a, b) /\ ~Before(pref, b, a)
    BY <1>1, <1>2, <1>3
  <1>5. PICK ga \in Group, ka \in 0 .. BLOCKS_PER_GROUP - 1 : a = <<ga, ka>>
    BY <1>1 DEF Block
  <1>6. PICK gb \in Group, kb \in 0 .. BLOCKS_PER_GROUP - 1 : b = <<gb, kb>>
    BY <1>1 DEF Block
  <1>7. ga \in Int /\ gb \in Int /\ ka \in Int /\ kb \in Int
    BY <1>5, <1>6, GeometryAssumption DEF Group
  <1> QED  BY <1>4, <1>5, <1>6, <1>7 DEF Before

\* Allocating and freeing keep the counters in their range.
LEMMA CountersTyped ==
    ASSUME NEW count \in [Group -> Counter], NEW S \in SUBSET Block
    PROVE  /\ Debit(count, S) \in [Group -> Counter]
           /\ Credit(count, S) \in [Group -> Counter]
  <1>1. \A g \in Group : Cardinality(S \cap BlocksOf(g)) \in Nat
    BY BlockFinite
  <1>2. \A g \in Group : /\ count[g] - Cardinality(S \cap BlocksOf(g)) \in Int
                         /\ count[g] + Cardinality(S \cap BlocksOf(g)) \in Int
    BY <1>1, GeometryAssumption DEF Counter
  <1>3. COUNT_MOD \in Nat \ {0}
    BY GeometryAssumption
  <1>4. \A g \in Group :
           /\ (count[g] - Cardinality(S \cap BlocksOf(g))) % COUNT_MOD \in Counter
           /\ (count[g] + Cardinality(S \cap BlocksOf(g))) % COUNT_MOD \in Counter
    BY <1>2, <1>3, ModRange DEF Counter
  <1> QED  BY <1>4 DEF Debit, Credit

\* The node that allocate_node_blocks fills in holds the data and pointer
\* blocks it was given and no other.
LEMMA NewNodeTyped ==
    ASSUME NEW mode \in {"IFDIR", "IFREG"}, NEW data \in SUBSET Block,
           NEW ptrs \in SUBSET Block, NEW g \in Group, NEW n \in Nat
    PROVE  LET new == NewNode(mode, data, ptrs, g, n)
           IN  /\ new \in NodeType
               /\ new.mode = mode
               /\ new.freed \cup new.rest = data \cup ptrs
  <1>1. Reached(data, ptrs, g, n) \subseteq data \cup ptrs
    BY DEF Reached, PathBlock
  <1>2. ASSUME NEW h \in Group, NEW d \in Depth, NEW k \in 0 .. 3
        PROVE  Revisits(data, ptrs, g, n, h, d, k) \in Nat
    <2>1. SlotBlocks(n, d) \in Nat /\ Span(k) \in Nat \ {0}
      BY SlotBlocksNat, SpanPositive
    <2>2. PathVisits(n, d, k) \in Nat
      BY <2>1, DivCeilNat DEF PathVisits
    <2> QED  BY <2>2 DEF Revisits
  <1>3. \A h \in Group, d \in Depth : TreeRevisits(data, ptrs, g, n, h, d) \in Nat
    BY <1>2 DEF TreeRevisits
  <1>4. AgainIn(data, ptrs, g, n) \in [Group -> Nat]
    BY <1>3 DEF AgainIn, Depth
  <1>5. NewNode(mode, data, ptrs, g, n) =
          [mode |-> mode, freed |-> Reached(data, ptrs, g, n),
           rest |-> (data \cup ptrs) \ Reached(data, ptrs, g, n),
           again |-> AgainIn(data, ptrs, g, n)]
    BY DEF NewNode
  <1>6. /\ NewNode(mode, data, ptrs, g, n).freed = Reached(data, ptrs, g, n)
        /\ NewNode(mode, data, ptrs, g, n).rest = (data \cup ptrs) \ Reached(data, ptrs, g, n)
        /\ NewNode(mode, data, ptrs, g, n).mode = mode
    BY <1>5
  <1>7. NewNode(mode, data, ptrs, g, n) \in NodeType
    BY <1>1, <1>4, <1>5 DEF NodeType
  <1> QED  BY <1>1, <1>6, <1>7

(***************************************************************************)
(* The steps, with the blocks and the inode they choose named.             *)
(***************************************************************************)

\* What the type invariant says of a node.
LEMMA NodeFields ==
    ASSUME TypeOK, NEW i \in Inode
    PROVE  /\ node[i].mode \in {"none", "IFDIR", "IFREG"}
           /\ node[i].freed \in SUBSET Block
           /\ node[i].rest \in SUBSET Block
           /\ node[i].again \in [Group -> Nat]
           /\ tables[i] \in SUBSET Block
           /\ home[i] \in Block
           /\ TableBlocks(i) \in SUBSET Block
           /\ LastTables(i) \in SUBSET TableBlocks(i)
           /\ Own(i) \in SUBSET Block
           /\ i[1] \in Group
  <1>1. node[i] \in NodeType
    BY DEF TypeOK
  <1>2. tables[i] \in SUBSET Block /\ home[i] \in Block
    BY DEF TypeOK
  <1>3. i[1] \in Group
    BY DEF Inode
  <1> QED  BY <1>1, <1>2, <1>3 DEF NodeType, TableBlocks, LastTables, Own

\* A directory is extended by one block at most, and by a clear one.
LEMMA ExtensionFree ==
    ASSUME NEW p \in Inode, NEW extend \in BOOLEAN
    PROVE  /\ Extension(p, extend) \in SUBSET Block
           /\ Extension(p, extend) \cap block_bitmap = {}
           /\ \A t \in Extension(p, extend) : Extension(p, extend) = {t}
           /\ ~extend => Extension(p, extend) = {}
  <1>1. p[1] \in Group
    BY DEF Inode
  <1> QED  BY <1>1, SearchFindsFree, SearchFindsOne DEF Extension

\* What write does, given the inode, the table extension, the data and pointer
\* blocks it takes and the table t that gets the entry.
WriteEffect(p, mode, n, i, ext, data, ptrs, t) ==
    /\ p \in inode_bitmap /\ IsDir(p)
    /\ FirstFreeInode(i)
    /\ ext \cap block_bitmap = {}
    /\ data \cap (block_bitmap \cup ext) = {}
    /\ ptrs \cap (block_bitmap \cup ext \cup data) = {}
    /\ t \in ext \cup TableBlocks(p)
    /\ ext \subseteq {t}
    /\ inode_bitmap' = inode_bitmap \cup {i}
    /\ free_inodes_count' =
          [free_inodes_count EXCEPT ![i[1]] = (free_inodes_count[i[1]] - 1) % COUNT_MOD]
    /\ block_bitmap' = block_bitmap \cup ext \cup data \cup ptrs
    /\ free_blocks_count' =
          Debit(Debit(Debit(free_blocks_count, ext), data), ptrs)
    /\ node' = [node EXCEPT ![i] = NewNode(mode, data, ptrs, i[1], n)]
    /\ tables' = [tables EXCEPT ![p] = tables[p] \cup ext]
    /\ home' = [home EXCEPT ![i] = t]
    /\ used_dirs_count' = used_dirs_count

\* What write does, with the inode, blocks and table it found as variables.
LEMMA WriteStep ==
    ASSUME TypeOK, NEW p \in Inode, NEW mode \in {"IFDIR", "IFREG"}, NEW n \in Nat,
           NEW extend \in BOOLEAN, Write(p, mode, n, extend)
    PROVE  \E i \in Inode, ext, data, ptrs \in SUBSET Block, t \in Block :
              WriteEffect(p, mode, n, i, ext, data, ptrs, t)
  <1> DEFINE ext == Extension(p, extend)
  <1>1. /\ p \in inode_bitmap /\ IsDir(p) /\ used_dirs_count' = used_dirs_count
        /\ extend => ext # {}
    BY DEF Write, Extension
  <1>2. PICK i \in Inode :
          /\ FirstFreeInode(i)
          /\ inode_bitmap' = inode_bitmap \cup {i}
          /\ free_inodes_count' =
                [free_inodes_count EXCEPT ![i[1]] = (free_inodes_count[i[1]] - 1) % COUNT_MOD]
          /\ tables' = [tables EXCEPT ![p] = tables[p] \cup ext]
          /\ \E t \in IF extend THEN ext ELSE LastTables(p) : home' = [home EXCEPT ![i] = t]
          /\ AllocateNodeBlocks(i, mode, n, block_bitmap \cup ext, Debit(free_blocks_count, ext))
    BY DEF Write
  <1>3. PICK t \in IF extend THEN ext ELSE LastTables(p) : home' = [home EXCEPT ![i] = t]
    BY <1>2
  <1> DEFINE bitmap == block_bitmap \cup ext
             count  == Debit(free_blocks_count, ext)
             data   == DataBlocks(bitmap, count, i[1], n)
             ptrs   == PtrBlocks(bitmap \cup data, Debit(count, data), n)
  <1>4. /\ block_bitmap' = bitmap \cup data \cup ptrs
        /\ free_blocks_count' = Debit(Debit(count, data), ptrs)
        /\ node' = [node EXCEPT ![i] = NewNode(mode, data, ptrs, i[1], n)]
    BY <1>2 DEF AllocateNodeBlocks
  <1>5. data \subseteq Block \ bitmap
    BY SearchFindsFree DEF DataBlocks
  <1>6. ptrs \subseteq Block \ (bitmap \cup data)
    BY SearchFindsFree DEF PtrBlocks
  <1>7. /\ ext \in SUBSET Block /\ ext \cap block_bitmap = {}
        /\ t \in ext \cup TableBlocks(p) /\ t \in Block /\ ext \subseteq {t}
    <2>1. LastTables(p) \subseteq TableBlocks(p) /\ TableBlocks(p) \subseteq Block
      BY NodeFields
    <2>2. CASE extend
      BY <1>3, <2>2, ExtensionFree
    <2>3. CASE ~extend
      BY <1>3, <2>1, <2>3, ExtensionFree
    <2> QED  BY <2>2, <2>3
  <1>8. /\ data \in SUBSET Block /\ ptrs \in SUBSET Block
        /\ data \cap (block_bitmap \cup ext) = {}
        /\ ptrs \cap (block_bitmap \cup ext \cup data) = {}
    BY <1>5, <1>6
  <1> HIDE DEF data, ptrs, ext
  <1>9. i \in Inode /\ ext \in SUBSET Block /\ t \in Block /\ data \in SUBSET Block /\ ptrs \in SUBSET Block
    BY <1>2, <1>7, <1>8
  <1> USE <1>9
  <1> WITNESS i \in Inode, ext \in SUBSET Block, data \in SUBSET Block,
              ptrs \in SUBSET Block, t \in Block
  <1> QED  BY <1>1, <1>2, <1>3, <1>4, <1>7, <1>8 DEF WriteEffect

\* What move_dir does, given the extension of q's tables, the tables of p that
\* are unlinked and the table t that gets the entry.
MoveEffect(i, p, q, ext, unlinked, t) ==
    /\ {p, q} \subseteq inode_bitmap /\ IsDir(p) /\ IsDir(q)
    /\ i \in inode_bitmap \ {Root} /\ IsDir(i) /\ home[i] \in TableBlocks(p)
    /\ ext \cap block_bitmap = {}
    /\ ext \subseteq {t} /\ t \in ext \cup TableBlocks(q)
    /\ unlinked = Unlinked(p, i) \ {t}
    /\ unlinked \subseteq tables[p]
    /\ home' = [home EXCEPT ![i] = t]
    /\ tables' = [d \in Inode |->
          (tables[d] \cup IF d = q THEN ext ELSE {}) \
               (IF d = p THEN unlinked ELSE {})]
    /\ block_bitmap' = (block_bitmap \cup ext) \ unlinked
    /\ free_blocks_count' = Credit(Debit(free_blocks_count, ext), unlinked)
    /\ UNCHANGED <<inode_bitmap, free_inodes_count, used_dirs_count, node>>

\* What move_dir does, with the blocks and the table it found as variables.
LEMMA MoveStep ==
    ASSUME TypeOK, NEW i \in Inode, NEW p \in Inode, NEW q \in Inode,
           NEW extend \in BOOLEAN, MoveDir(i, p, q, extend)
    PROVE  \E ext, unlinked \in SUBSET Block, t \in Block :
              MoveEffect(i, p, q, ext, unlinked, t)
  <1> DEFINE ext == Extension(q, extend)
  <1>1. PICK t \in IF extend THEN ext ELSE LastTables(q) :
          /\ home' = [home EXCEPT ![i] = t]
          /\ tables' = [d \in Inode |->
                (tables[d] \cup IF d = q THEN ext ELSE {}) \
                     (IF d = p THEN Unlinked(p, i) \ {t} ELSE {})]
          /\ block_bitmap' = (block_bitmap \cup ext) \ (Unlinked(p, i) \ {t})
          /\ free_blocks_count' =
                Credit(Debit(free_blocks_count, ext), Unlinked(p, i) \ {t})
    BY DEF MoveDir
  <1> DEFINE unlinked == Unlinked(p, i) \ {t}
  <1>2. unlinked \subseteq tables[p] /\ unlinked \in SUBSET Block
    BY NodeFields DEF Unlinked
  <1>3. /\ ext \in SUBSET Block /\ ext \cap block_bitmap = {}
        /\ t \in ext \cup TableBlocks(q) /\ t \in Block /\ ext \subseteq {t}
    <2>1. LastTables(q) \subseteq TableBlocks(q) /\ TableBlocks(q) \subseteq Block
      BY NodeFields
    <2>2. CASE extend
      BY <1>1, <2>2, ExtensionFree
    <2>3. CASE ~extend
      BY <1>1, <2>1, <2>3, ExtensionFree
    <2> QED  BY <2>2, <2>3
  <1>4. /\ {p, q} \subseteq inode_bitmap /\ IsDir(p) /\ IsDir(q)
        /\ i \in inode_bitmap \ {Root} /\ IsDir(i) /\ home[i] \in TableBlocks(p)
        /\ UNCHANGED <<inode_bitmap, free_inodes_count, used_dirs_count, node>>
    BY DEF MoveDir
  <1> HIDE DEF ext
  <1> USE <1>2, <1>3
  <1> WITNESS ext \in SUBSET Block, unlinked \in SUBSET Block, t \in Block
  <1> QED  BY <1>1, <1>2, <1>3, <1>4 DEF MoveEffect

(***************************************************************************)
(* Type correctness.                                                       *)
(***************************************************************************)

\* The formatted disk is of its type.
LEMMA InitTyped == Init => TypeOK
  <1> SUFFICES ASSUME Init PROVE TypeOK
    OBVIOUS
  <1> DEFINE count == [g \in Group |-> BLOCKS_PER_GROUP - ReservedCount(g)]
             table == SearchBlocks(Reserved, count, 0, 1)
  <1>1. 0 \in Group /\ Root \in Inode /\ NoEntry \in Block
    BY GeometryAssumption DEF Group, Inode, Root, NoEntry, Block
  <1>2. table \in SUBSET Block /\ Reserved \in SUBSET Block
    BY SearchFindsFree DEF Reserved
  <1>3. count \in [Group -> Counter]
    BY GeometryAssumption DEF ReservedCount, Counter
  <1>4. Debit(count, table) \in [Group -> Counter]
    BY <1>2, <1>3, CountersTyped
  <1>5. NewNode("IFDIR", table, {}, 0, 1) \in NodeType
    BY <1>1, <1>2, NewNodeTyped
  <1>6. [mode |-> "none", freed |-> {}, rest |-> {}, again |-> [g \in Group |-> 0]] \in NodeType
    BY DEF NodeType
  <1>7. /\ block_bitmap = Reserved \cup table
        /\ inode_bitmap = {Root}
        /\ free_blocks_count = Debit(count, table)
        /\ free_inodes_count = [g \in Group |-> IF g = 0 THEN INODES_PER_GROUP - 1
                                                         ELSE INODES_PER_GROUP]
        /\ used_dirs_count = [g \in Group |-> 0]
        /\ node = [i \in Inode |->
                     IF i = Root THEN NewNode("IFDIR", table, {}, 0, 1)
                     ELSE [mode |-> "none", freed |-> {}, rest |-> {},
                           again |-> [g \in Group |-> 0]]]
        /\ tables = [i \in Inode |-> {}]
        /\ home = [i \in Inode |-> NoEntry]
    BY DEF Init, InitFrom
  <1> HIDE DEF table, count
  <1>8. block_bitmap \in SUBSET Block /\ inode_bitmap \in SUBSET Inode
    BY <1>1, <1>2, <1>7
  <1>9. /\ free_inodes_count \in [Group -> Counter]
        /\ used_dirs_count \in [Group -> Counter]
    BY <1>7, GeometryAssumption DEF Counter
  <1>10. node \in [Inode -> NodeType] /\ tables \in [Inode -> SUBSET Block]
           /\ home \in [Inode -> Block]
    BY <1>1, <1>5, <1>6, <1>7
  <1> QED  BY <1>4, <1>7, <1>8, <1>9, <1>10 DEF TypeOK

\* write keeps the type.
LEMMA WriteTyped ==
    ASSUME TypeOK, NEW p \in Inode, NEW mode \in {"IFDIR", "IFREG"}, NEW n \in Nat,
           NEW extend \in BOOLEAN, Write(p, mode, n, extend)
    PROVE  TypeOK'
  <1>1. PICK i \in Inode, ext, data, ptrs \in SUBSET Block, t \in Block :
          WriteEffect(p, mode, n, i, ext, data, ptrs, t)
    BY WriteStep
  <1> USE DEF WriteEffect
  <1>2. i[1] \in Group
    BY NodeFields
  <1>3. free_blocks_count' \in [Group -> Counter]
    BY <1>1, CountersTyped DEF TypeOK
  <1>4. NewNode(mode, data, ptrs, i[1], n) \in NodeType
    BY <1>2, NewNodeTyped
  <1>5. (free_inodes_count[i[1]] - 1) % COUNT_MOD \in Counter
    <2>1. free_inodes_count[i[1]] - 1 \in Int /\ COUNT_MOD \in Nat \ {0}
      BY <1>2, GeometryAssumption DEF TypeOK, Counter
    <2> QED  BY <2>1, ModRange DEF Counter
  <1>6. free_inodes_count' \in [Group -> Counter]
    BY <1>1, <1>2, <1>5 DEF TypeOK
  <1>7. node' \in [Inode -> NodeType] /\ tables' \in [Inode -> SUBSET Block]
           /\ home' \in [Inode -> Block]
    BY <1>1, <1>4 DEF TypeOK
  <1>8. block_bitmap' \in SUBSET Block /\ inode_bitmap' \in SUBSET Inode
           /\ used_dirs_count' \in [Group -> Counter]
    BY <1>1 DEF TypeOK
  <1> QED  BY <1>3, <1>6, <1>7, <1>8 DEF TypeOK

\* delete keeps the type.
LEMMA DeleteTyped ==
    ASSUME TypeOK, NEW p \in Inode, NEW i \in Inode, Delete(p, i)
    PROVE  TypeOK'
  <1> DEFINE credited == Credit(free_blocks_count, node[i].freed)
             again    == [g \in Group |-> (credited[g] + node[i].again[g]) % COUNT_MOD]
  <1>1. i[1] \in Group /\ COUNT_MOD \in Nat \ {0}
    BY NodeFields, GeometryAssumption
  <1>2. credited \in [Group -> Counter]
    BY CountersTyped, NodeFields DEF TypeOK
  <1>3. again \in [Group -> Counter]
    <2>1. \A g \in Group : credited[g] + node[i].again[g] \in Int
      BY <1>2, NodeFields, GeometryAssumption DEF Counter
    <2> HIDE DEF credited
    <2>2. \A g \in Group : (credited[g] + node[i].again[g]) % COUNT_MOD \in Counter
      BY <2>1, <1>1, ModRange DEF Counter
    <2> QED  BY <2>2
  <1>4. Unlinked(p, i) \in SUBSET Block
    BY NodeFields DEF Unlinked
  <1>5. Credit(again, Unlinked(p, i)) \in [Group -> Counter]
    <2> HIDE DEF again
    <2> QED  BY <1>3, <1>4, CountersTyped
  <1>6. free_blocks_count' = Credit(again, Unlinked(p, i))
    BY DEF Delete
  <1>7. \A x \in Counter : (x + 1) % COUNT_MOD \in Counter /\ (x - 1) % COUNT_MOD \in Counter
    BY <1>1, ModRange DEF Counter
  <1>8. free_inodes_count' \in [Group -> Counter]
    BY <1>1, <1>7 DEF Delete, TypeOK
  <1>9. used_dirs_count' \in [Group -> Counter]
    BY <1>1, <1>7 DEF Delete, TypeOK
  <1>10. NoEntry \in Block
    BY GeometryAssumption DEF NoEntry, Block, Group
  <1>11. /\ block_bitmap' \in SUBSET Block /\ inode_bitmap' \in SUBSET Inode
         /\ node' \in [Inode -> NodeType] /\ tables' \in [Inode -> SUBSET Block]
         /\ home' \in [Inode -> Block]
    BY <1>10 DEF Delete, TypeOK
  <1> QED  BY <1>5, <1>6, <1>8, <1>9, <1>11 DEF TypeOK

\* move_dir keeps the type.
LEMMA MoveTyped ==
    ASSUME TypeOK, NEW i \in Inode, NEW p \in Inode, NEW q \in Inode,
           NEW extend \in BOOLEAN, MoveDir(i, p, q, extend)
    PROVE  TypeOK'
  <1>1. PICK ext, unlinked \in SUBSET Block, t \in Block :
          MoveEffect(i, p, q, ext, unlinked, t)
    BY MoveStep
  <1> USE DEF MoveEffect
  <1>2. free_blocks_count' \in [Group -> Counter]
    BY <1>1, CountersTyped DEF TypeOK
  <1>3. block_bitmap' \in SUBSET Block /\ tables' \in [Inode -> SUBSET Block]
           /\ home' \in [Inode -> Block]
    BY <1>1 DEF TypeOK
  <1> QED  BY <1>1, <1>2, <1>3 DEF TypeOK

\* One step of the driver, whichever handler takes it.
LEMMA StepCases ==
    ASSUME Next,
           NEW ACTION P,
           \A p \in Inode, mode \in {"IFDIR", "IFREG"}, n \in Nat, extend \in BOOLEAN :
              Write(p, mode, n, extend) => P,
           \A p, i \in Inode : Delete(p, i) => P,
           \A i, p, q \in Inode, extend \in BOOLEAN : MoveDir(i, p, q, extend) => P
    PROVE  P
  BY GeometryAssumption DEF Next, MakeFolder, WriteFile

\* The bitmaps stay within the disk, the counters within a uint16_t and every
\* inode describes blocks of the disk, whatever the geometry.
THEOREM TypeCorrect == Spec => []TypeOK
  <1>1. TypeOK /\ [Next]_vars => TypeOK'
    <2> SUFFICES ASSUME TypeOK, [Next]_vars PROVE TypeOK'
      OBVIOUS
    <2>1. CASE Next
      <3>1. \A p \in Inode, mode \in {"IFDIR", "IFREG"}, n \in Nat, extend \in BOOLEAN :
               Write(p, mode, n, extend) => TypeOK'
        BY WriteTyped
      <3>2. \A p, i \in Inode : Delete(p, i) => TypeOK'
        BY DeleteTyped
      <3>3. \A i, p, q \in Inode, extend \in BOOLEAN : MoveDir(i, p, q, extend) => TypeOK'
        BY MoveTyped
      <3> QED  BY <2>1, <3>1, <3>2, <3>3, StepCases
    <2>2. CASE UNCHANGED vars
      BY <2>2 DEF vars, TypeOK
    <2> QED  BY <2>1, <2>2
  <1> QED  BY InitTyped, <1>1, PTL DEF Spec

(***************************************************************************)
(* The inode bitmap and its counters: allocate_node finds a free inode.    *)
(***************************************************************************)

\* A group has INODES_PER_GROUP inodes.
LEMMA InodesPerGroup ==
    ASSUME NEW g \in Group
    PROVE  /\ InodesOf(g) \in SUBSET Inode
           /\ Cardinality(InodesOf(g)) = INODES_PER_GROUP
  <1> DEFINE K == 0 .. INODES_PER_GROUP - 1
             f == [k \in K |-> <<g, k>>]
  <1>1. IsFiniteSet(K) /\ Cardinality(K) = INODES_PER_GROUP
    <2>1. 0 \in Int /\ INODES_PER_GROUP - 1 \in Int /\ ~(0 > INODES_PER_GROUP - 1)
      BY GeometryAssumption
    <2>2. IsFiniteSet(K) /\ Cardinality(K) = INODES_PER_GROUP - 1 - 0 + 1
      BY <2>1, FS_Interval
    <2> QED  BY <2>2, GeometryAssumption
  <1>2. f \in Bijection(K, InodesOf(g))
    <2>1. InodesOf(g) = {<<g, k>> : k \in K}
      BY DEF InodesOf, Inode
    <2>2. f \in [K -> InodesOf(g)] /\ \A a, b \in K : f[a] = f[b] => a = b
      BY <2>1
    <2>3. \A i \in InodesOf(g) : \E k \in K : f[k] = i
      BY <2>1
    <2> QED  BY <2>2, <2>3 DEF Bijection, Injection, Surjection, IsInjective
  <1>3. ExistsBijection(K, InodesOf(g))
    BY <1>2 DEF ExistsBijection
  <1> QED  BY <1>1, <1>3, FS_Bijection DEF InodesOf

\* The counter allocate_node trusts never sends it to a full group, so the
\* inode it returns is free.
LEMMA FreshInode ==
    ASSUME TypeOK, InodeCountsExact, NEW i \in Inode, FirstFreeInode(i)
    PROVE  i \notin inode_bitmap
  <1> SUFFICES ASSUME InodesOf(i[1]) \subseteq inode_bitmap PROVE FALSE
    BY DEF FirstFreeInode
  <1>1. i[1] \in Group /\ free_inodes_count[i[1]] > 0
    BY NodeFields DEF FirstFreeInode
  <1>2. inode_bitmap \cap InodesOf(i[1]) = InodesOf(i[1])
    OBVIOUS
  <1>3. free_inodes_count[i[1]] = INODES_PER_GROUP - INODES_PER_GROUP
    BY <1>1, <1>2, InodesPerGroup DEF InodeCountsExact
  <1> QED  BY <1>1, <1>3, GeometryAssumption

\* Marking a free inode and counting it off keeps the counters exact.
LEMMA InodeCountsAfterSet ==
    ASSUME TypeOK, InodeCountsExact, NEW i \in Inode, i \notin inode_bitmap,
           inode_bitmap' = inode_bitmap \cup {i},
           free_inodes_count' =
              [free_inodes_count EXCEPT ![i[1]] = (free_inodes_count[i[1]] - 1) % COUNT_MOD]
    PROVE  InodeCountsExact'
  <1> SUFFICES ASSUME NEW g \in Group
               PROVE  free_inodes_count'[g] =
                        INODES_PER_GROUP - Cardinality(inode_bitmap' \cap InodesOf(g))
    BY DEF InodeCountsExact
  <1> DEFINE old == inode_bitmap \cap InodesOf(g)
  <1>1. old \in SUBSET Inode /\ IsFiniteSet(old) /\ Cardinality(old) \in Nat
    BY InodeFinite DEF InodesOf
  <1>2. free_inodes_count[g] = INODES_PER_GROUP - Cardinality(old)
           /\ free_inodes_count[g] \in Counter
    BY DEF InodeCountsExact, TypeOK
  <1>3. CASE g = i[1]
    <2>1. inode_bitmap' \cap InodesOf(g) = old \cup {i} /\ i \notin old
      BY <1>3 DEF InodesOf
    <2>2. Cardinality(old \cup {i}) = Cardinality(old) + 1
      BY <1>1, <2>1, FS_AddElement
    <2>3. IsFiniteSet(InodesOf(g)) /\ Cardinality(InodesOf(g)) = INODES_PER_GROUP
      BY InodesPerGroup, InodeFinite
    <2>4. Cardinality(old \cup {i}) <= INODES_PER_GROUP
      <3>1. old \cup {i} \in SUBSET InodesOf(g)
        BY <1>3 DEF InodesOf
      <3> QED  BY <2>3, <3>1, FS_Subset
    <2>5. free_inodes_count[g] - 1 \in 0 .. COUNT_MOD - 1
      BY <1>1, <1>2, <2>2, <2>4, GeometryAssumption DEF Counter
    <2>6. (free_inodes_count[g] - 1) % COUNT_MOD = free_inodes_count[g] - 1
      <3>1. COUNT_MOD \in Nat \ {0} /\ free_inodes_count[g] - 1 \in Int
        BY <2>5, GeometryAssumption
      <3> QED  BY <2>5, <3>1, ModRange
    <2>7. free_inodes_count'[g] = free_inodes_count[g] - 1
      BY <1>3, <2>6 DEF TypeOK
    <2>8. free_inodes_count[g] - 1 = INODES_PER_GROUP - (Cardinality(old) + 1)
      BY <1>1, <1>2, GeometryAssumption
    <2> QED  BY <2>1, <2>2, <2>7, <2>8
  <1>4. CASE g # i[1]
    <2>1. inode_bitmap' \cap InodesOf(g) = old
      BY <1>4 DEF InodesOf
    <2>2. free_inodes_count'[g] = free_inodes_count[g]
      BY <1>4 DEF TypeOK
    <2> QED  BY <1>2, <2>1, <2>2
  <1> QED  BY <1>3, <1>4

\* Clearing an inode's bit and counting it back keeps the counters exact.
LEMMA InodeCountsAfterClear ==
    ASSUME TypeOK, InodeCountsExact, NEW i \in inode_bitmap,
           inode_bitmap' = inode_bitmap \ {i},
           free_inodes_count' =
              [free_inodes_count EXCEPT ![i[1]] = (free_inodes_count[i[1]] + 1) % COUNT_MOD]
    PROVE  InodeCountsExact'
  <1> SUFFICES ASSUME NEW g \in Group
               PROVE  free_inodes_count'[g] =
                        INODES_PER_GROUP - Cardinality(inode_bitmap' \cap InodesOf(g))
    BY DEF InodeCountsExact
  <1> DEFINE old == inode_bitmap \cap InodesOf(g)
  <1>1. old \in SUBSET Inode /\ IsFiniteSet(old) /\ Cardinality(old) \in Nat
    BY InodeFinite DEF InodesOf
  <1>2. free_inodes_count[g] = INODES_PER_GROUP - Cardinality(old)
           /\ free_inodes_count[g] \in Counter
    BY DEF InodeCountsExact, TypeOK
  <1>3. CASE g = i[1]
    <2>1. inode_bitmap' \cap InodesOf(g) = old \ {i} /\ i \in old
      BY <1>3 DEF InodesOf, TypeOK
    <2>2. Cardinality(old \ {i}) = Cardinality(old) - 1 /\ Cardinality(old \ {i}) \in Nat
      BY <1>1, <2>1, FS_RemoveElement, FS_CardinalityType
    <2>3. free_inodes_count[g] + 1 \in 0 .. COUNT_MOD - 1
      BY <1>1, <1>2, <2>2, GeometryAssumption DEF Counter
    <2>4. (free_inodes_count[g] + 1) % COUNT_MOD = free_inodes_count[g] + 1
      <3>1. COUNT_MOD \in Nat \ {0} /\ free_inodes_count[g] + 1 \in Int
        BY <2>3, GeometryAssumption
      <3> QED  BY <2>3, <3>1, ModRange
    <2>5. free_inodes_count'[g] = free_inodes_count[g] + 1
      BY <1>3, <2>4 DEF TypeOK
    <2> QED  BY <1>1, <1>2, <2>1, <2>2, <2>5, GeometryAssumption
  <1>4. CASE g # i[1]
    <2>1. inode_bitmap' \cap InodesOf(g) = old
      BY <1>4 DEF InodesOf
    <2>2. free_inodes_count'[g] = free_inodes_count[g]
      BY <1>4 DEF TypeOK
    <2> QED  BY <1>2, <2>1, <2>2
  <1> QED  BY <1>3, <1>4

(***************************************************************************)
(* Blocks: the inductive invariant.  NoSharedBlocks and OwnedAreMarked are *)
(* preserved together: a step takes clear blocks, which are nobody's, and  *)
(* clears only bits of blocks it takes away from their one owner.          *)
(***************************************************************************)

\* a directory's chained tables are not its first table
TablesApart ==
    \A i \in inode_bitmap : tables[i] \cap (node[i].freed \cup node[i].rest) = {}

\* only live directories have chained tables
TablesOfFolders ==
    \A i \in Inode : tables[i] # {} => i \in inode_bitmap /\ IsDir(i)

StorageInv == /\ TypeOK
              /\ NoSharedBlocks
              /\ OwnedAreMarked
              /\ InodeCountsExact
              /\ TablesApart
              /\ TablesOfFolders

\* The formatted disk satisfies the invariant.
LEMMA InitStorage == Init => StorageInv
  <1> SUFFICES ASSUME Init PROVE StorageInv
    OBVIOUS
  <1> DEFINE count == [g \in Group |-> BLOCKS_PER_GROUP - ReservedCount(g)]
             table == SearchBlocks(Reserved, count, 0, 1)
  <1>1. TypeOK
    BY InitTyped
  <1>2. 0 \in Group /\ Root \in Inode
    BY GeometryAssumption DEF Group, Inode, Root
  <1>3. table \in SUBSET Block /\ table \cap Reserved = {}
    BY SearchFindsFree
  <1>4. /\ block_bitmap = Reserved \cup table
        /\ inode_bitmap = {Root}
        /\ free_inodes_count = [g \in Group |-> IF g = 0 THEN INODES_PER_GROUP - 1
                                                         ELSE INODES_PER_GROUP]
        /\ node[Root] = NewNode("IFDIR", table, {}, 0, 1)
        /\ tables = [i \in Inode |-> {}]
    BY <1>2 DEF Init, InitFrom
  <1>5. Own(Root) = table
    <2>1. node[Root].freed \cup node[Root].rest = table \cup {}
      BY <1>2, <1>3, <1>4, NewNodeTyped
    <2> QED  BY <1>2, <1>4, <2>1 DEF Own
  <1>6. NoSharedBlocks /\ OwnedAreMarked
    BY <1>3, <1>4, <1>5 DEF NoSharedBlocks, OwnedAreMarked
  <1>7. TablesApart /\ TablesOfFolders
    BY <1>2, <1>4 DEF TablesApart, TablesOfFolders
  <1>8. InodeCountsExact
    <2> SUFFICES ASSUME NEW g \in Group
                 PROVE  free_inodes_count[g] =
                          INODES_PER_GROUP - Cardinality(inode_bitmap \cap InodesOf(g))
      BY DEF InodeCountsExact
    <2>1. CASE g = 0
      <3>1. inode_bitmap \cap InodesOf(g) = {Root}
        BY <1>2, <1>4, <2>1 DEF InodesOf, Root
      <3>2. Cardinality({Root}) = 1
        BY FS_Singleton
      <3> QED  BY <1>4, <2>1, <3>1, <3>2
    <2>2. CASE g # 0
      <3>1. inode_bitmap \cap InodesOf(g) = {}
        BY <1>4, <2>2 DEF InodesOf, Root
      <3>2. Cardinality({}) = 0
        BY FS_EmptySet
      <3> QED  BY <1>4, <2>2, <3>1, <3>2, GeometryAssumption
    <2> QED  BY <2>1, <2>2
  <1> QED  BY <1>1, <1>6, <1>7, <1>8 DEF StorageInv

\* write keeps the invariant: what it takes was free, so nobody's.
LEMMA WriteStorage ==
    ASSUME StorageInv, NEW p \in Inode, NEW mode \in {"IFDIR", "IFREG"}, NEW n \in Nat,
           NEW extend \in BOOLEAN, Write(p, mode, n, extend)
    PROVE  StorageInv'
  <1>0. TypeOK
    BY DEF StorageInv
  <1>1. PICK i \in Inode, ext, data, ptrs \in SUBSET Block, t \in Block :
          WriteEffect(p, mode, n, i, ext, data, ptrs, t)
    BY <1>0, WriteStep
  <1> USE DEF WriteEffect
  <1>2. i \notin inode_bitmap /\ i # p
    BY <1>0, <1>1, FreshInode DEF StorageInv
  <1>3. tables[i] = {}
    BY <1>2 DEF StorageInv, TablesOfFolders
  <1>4. /\ node'[i].freed \cup node'[i].rest = data \cup ptrs
        /\ \A j \in Inode : j # i => node'[j] = node[j]
    <2>1. i[1] \in Group
      BY <1>0, NodeFields
    <2>2. node'[i] = NewNode(mode, data, ptrs, i[1], n)
      BY <1>0, <1>1 DEF TypeOK
    <2>3. \A j \in Inode : j # i => node'[j] = node[j]
      BY <1>0, <1>1 DEF TypeOK
    <2> QED  BY <2>1, <2>2, <2>3, NewNodeTyped
  <1>5. /\ tables'[p] = tables[p] \cup ext
        /\ \A j \in Inode : j # p => tables'[j] = tables[j]
    BY <1>0, <1>1 DEF TypeOK
  <1>6. /\ Own(i)' = data \cup ptrs
        /\ Own(p)' = Own(p) \cup ext
        /\ \A j \in inode_bitmap : j # p => Own(j)' = Own(j)
    BY <1>0, <1>1, <1>2, <1>3, <1>4, <1>5 DEF Own, TypeOK
  <1>7. NoSharedBlocks'
    BY <1>1, <1>2, <1>6 DEF StorageInv, NoSharedBlocks, OwnedAreMarked
  <1>8. OwnedAreMarked'
    BY <1>1, <1>2, <1>6 DEF StorageInv, OwnedAreMarked
  <1>9. InodeCountsExact'
    BY <1>0, <1>1, <1>2, InodeCountsAfterSet DEF StorageInv
  <1>10. TablesApart'
    <2>1. node[p].freed \cup node[p].rest \subseteq block_bitmap
      BY <1>1 DEF StorageInv, OwnedAreMarked, Own
    <2> QED  BY <1>0, <1>1, <1>2, <1>3, <1>4, <1>5, <2>1 DEF StorageInv, TablesApart, TypeOK
  <1>11. TablesOfFolders'
    BY <1>0, <1>1, <1>2, <1>3, <1>4, <1>5 DEF StorageInv, TablesOfFolders, IsDir
  <1> QED  BY <1>0, <1>7, <1>8, <1>9, <1>10, <1>11, WriteTyped DEF StorageInv

\* delete keeps the invariant: what it frees was the deleted node's alone.
LEMMA DeleteStorage ==
    ASSUME StorageInv, NEW p \in Inode, NEW i \in Inode, Delete(p, i)
    PROVE  StorageInv'
  <1>0. TypeOK
    BY DEF StorageInv
  <1> DEFINE unlinked == Unlinked(p, i)
  <1>1. /\ p \in inode_bitmap /\ IsDir(p)
        /\ i \in inode_bitmap /\ i # Root /\ home[i] \in TableBlocks(p)
        /\ block_bitmap' = (block_bitmap \ node[i].freed) \ unlinked
        /\ inode_bitmap' = inode_bitmap \ {i}
        /\ free_inodes_count' =
              [free_inodes_count EXCEPT ![i[1]] = (free_inodes_count[i[1]] + 1) % COUNT_MOD]
        /\ tables' = [tables EXCEPT ![p] = tables[p] \ unlinked]
        /\ node' = node
    BY DEF Delete
  <1>2. unlinked \subseteq tables[p]
    BY DEF Unlinked
  <1>3. tables[i] = {}
    <2>1. CASE IsDir(i)
      BY <2>1 DEF Delete, IsDirectoryEmpty
    <2>2. CASE ~IsDir(i)
      BY <2>2 DEF StorageInv, TablesOfFolders
    <2> QED  BY <2>1, <2>2
  <1>4. p # i
    <2> SUFFICES ASSUME p = i PROVE FALSE
      OBVIOUS
    <2>1. home[i] \in node[i].freed
      BY <1>1, <1>3 DEF TableBlocks
    <2>2. Kids(home[i]) = {}
      BY <1>1, <2>1 DEF Delete, IsDirectoryEmpty
    <2> QED  BY <1>1, <2>2 DEF Kids
  <1>5. /\ tables'[p] = tables[p] \ unlinked
        /\ \A j \in Inode : j # p => tables'[j] = tables[j]
    BY <1>0, <1>1 DEF TypeOK
  <1>6. \A j \in inode_bitmap : j # i =>
           /\ Own(j)' = IF j = p THEN Own(p) \ unlinked ELSE Own(j)
           /\ Own(j)' \cap node[i].freed = {}
           /\ Own(j)' \cap unlinked = {}
    <2>1. /\ Own(p)' = Own(p) \ unlinked
          /\ \A j \in Inode : j # p => Own(j)' = Own(j)
      BY <1>0, <1>1, <1>2, <1>5 DEF StorageInv, TablesApart, Own, TypeOK
    <2>2. unlinked \subseteq Own(p) /\ node[i].freed \subseteq Own(i)
      BY <1>2 DEF Own
    <2>3. \A j \in inode_bitmap : j \in Inode
      BY <1>0 DEF TypeOK
    <2> HIDE DEF unlinked
    <2> QED  BY <1>1, <2>1, <2>2, <2>3 DEF StorageInv, NoSharedBlocks
  <1>7. NoSharedBlocks'
    <2> HIDE DEF unlinked
    <2> QED  BY <1>1, <1>6 DEF StorageInv, NoSharedBlocks
  <1>8. OwnedAreMarked'
    <2>1. node[i].freed \cap Reserved = {} /\ unlinked \cap Reserved = {}
      BY <1>1, <1>2 DEF StorageInv, OwnedAreMarked, Own
    <2> HIDE DEF unlinked
    <2> QED  BY <1>1, <1>6, <2>1 DEF StorageInv, OwnedAreMarked
  <1>9. InodeCountsExact'
    BY <1>0, <1>1, InodeCountsAfterClear DEF StorageInv
  <1>10. TablesApart'
    <2> HIDE DEF unlinked
    <2> QED  BY <1>0, <1>1, <1>5 DEF StorageInv, TablesApart, TypeOK
  <1>11. TablesOfFolders'
    <2> HIDE DEF unlinked
    <2> QED  BY <1>0, <1>1, <1>3, <1>4, <1>5 DEF StorageInv, TablesOfFolders, IsDir
  <1> QED  BY <1>0, <1>7, <1>8, <1>9, <1>10, <1>11, DeleteTyped DEF StorageInv

\* move_dir keeps it: q may gain a block that was free, p lose one of its own.
LEMMA MoveStorage ==
    ASSUME StorageInv, NEW i \in Inode, NEW p \in Inode, NEW q \in Inode,
           NEW extend \in BOOLEAN, MoveDir(i, p, q, extend)
    PROVE  StorageInv'
  <1>0. TypeOK
    BY DEF StorageInv
  <1>1. PICK ext, unlinked \in SUBSET Block, t \in Block :
          MoveEffect(i, p, q, ext, unlinked, t)
    BY <1>0, MoveStep
  <1> USE DEF MoveEffect
  <1>2. \A d \in Inode : tables'[d] = (tables[d] \cup IF d = q THEN ext ELSE {}) \
                                        (IF d = p THEN unlinked ELSE {})
    BY <1>1
  <1>3. unlinked \subseteq block_bitmap \ Reserved /\ unlinked \subseteq Own(p)
    BY <1>1 DEF StorageInv, OwnedAreMarked, Own
  <1>4. \A j \in inode_bitmap :
           Own(j)' = (Own(j) \cup IF j = q THEN ext ELSE {}) \ (IF j = p THEN unlinked ELSE {})
    <2>1. \A j \in inode_bitmap : j \in Inode
      BY <1>0 DEF TypeOK
    <2>2. (node[p].freed \cup node[p].rest) \cap unlinked = {}
      BY <1>1 DEF StorageInv, TablesApart
    <2> QED  BY <1>1, <1>2, <2>1, <2>2 DEF Own
  <1>5. NoSharedBlocks'
    BY <1>1, <1>3, <1>4 DEF StorageInv, NoSharedBlocks, OwnedAreMarked
  <1>6. OwnedAreMarked'
    <2> SUFFICES ASSUME NEW j \in inode_bitmap
                 PROVE  Own(j)' \subseteq block_bitmap' \ Reserved
      BY <1>1, <1>3 DEF StorageInv, OwnedAreMarked
    <2>1. Own(j) \subseteq block_bitmap \ Reserved
            /\ (j # p => Own(j) \cap unlinked = {})
      BY <1>1, <1>3 DEF StorageInv, OwnedAreMarked, NoSharedBlocks
    <2>2. ext \cap Reserved = {} /\ ext \cap unlinked = {}
      BY <1>1, <1>3 DEF StorageInv, OwnedAreMarked
    <2> QED  BY <1>1, <1>4, <2>1, <2>2
  <1>7. InodeCountsExact'
    BY <1>1 DEF StorageInv, InodeCountsExact
  <1>8. TablesApart'
    <2>1. node[q].freed \cup node[q].rest \subseteq block_bitmap
      BY <1>1 DEF StorageInv, OwnedAreMarked, Own
    <2>2. \A j \in inode_bitmap : j \in Inode
      BY <1>0 DEF TypeOK
    <2> QED  BY <1>1, <1>2, <2>1, <2>2 DEF StorageInv, TablesApart
  <1>9. TablesOfFolders'
    BY <1>1, <1>2 DEF StorageInv, TablesOfFolders, IsDir
  <1> QED  BY <1>0, <1>5, <1>6, <1>7, <1>8, <1>9, MoveTyped DEF StorageInv

\* Every step keeps the invariant.
LEMMA StorageInductive == StorageInv /\ [Next]_vars => StorageInv'
  <1> SUFFICES ASSUME StorageInv, [Next]_vars PROVE StorageInv'
    OBVIOUS
  <1>1. CASE Next
    <2>1. \A p \in Inode, mode \in {"IFDIR", "IFREG"}, n \in Nat, extend \in BOOLEAN :
             Write(p, mode, n, extend) => StorageInv'
      BY WriteStorage
    <2>2. \A p, i \in Inode : Delete(p, i) => StorageInv'
      BY DeleteStorage
    <2>3. \A i, p, q \in Inode, extend \in BOOLEAN : MoveDir(i, p, q, extend) => StorageInv'
      BY MoveStorage
    <2> QED  BY <1>1, <2>1, <2>2, <2>3, StepCases
  <1>2. CASE UNCHANGED vars
    BY <1>2 DEF vars, StorageInv, TypeOK, NoSharedBlocks, OwnedAreMarked, InodeCountsExact,
                TablesApart, TablesOfFolders, Own, IsDir
  <1> QED  BY <1>1, <1>2

\* The invariant holds on every disk that a run reaches.
LEMMA StorageAlways == Spec => []StorageInv
  BY InitStorage, StorageInductive, PTL DEF Spec

\* No block ever has two owners: files, pointer blocks and directory tables of
\* different inodes stay apart on every disk.
THEOREM NoBlockIsShared == Spec => []NoSharedBlocks
  <1>1. StorageInv => NoSharedBlocks
    BY DEF StorageInv
  <1> QED  BY StorageAlways, <1>1, PTL

\* The bits of every live inode's blocks are set and the reserved blocks stay
\* reserved, so nothing in use is ever allocated again.
THEOREM NothingInUseIsFree == Spec => []OwnedAreMarked
  <1>1. StorageInv => OwnedAreMarked
    BY DEF StorageInv
  <1> QED  BY StorageAlways, <1>1, PTL

\* free_inodes_count is exact, the fact on which allocate_node depends.
THEOREM InodeCountIsExact == Spec => []InodeCountsExact
  <1>1. StorageInv => InodeCountsExact
    BY DEF StorageInv
  <1> QED  BY StorageAlways, <1>1, PTL

\* No step overwrites the inode of a live file or folder.
THEOREM NoLiveNodeIsOverwritten == Spec => LiveNodesStay
  <1> DEFINE Stay == \A i \in inode_bitmap \cap inode_bitmap' : node'[i] = node[i]
  <1>1. StorageInv /\ [Next]_vars => [Stay]_vars
    <2> SUFFICES ASSUME StorageInv, Next PROVE Stay
      OBVIOUS
    <2>1. TypeOK /\ InodeCountsExact
      BY DEF StorageInv
    <2>2. ASSUME NEW p \in Inode, NEW mode \in {"IFDIR", "IFREG"}, NEW n \in Nat,
                 NEW extend \in BOOLEAN, Write(p, mode, n, extend)
          PROVE  Stay
      <3>1. PICK i \in Inode, ext, data, ptrs \in SUBSET Block, t \in Block :
              WriteEffect(p, mode, n, i, ext, data, ptrs, t)
        BY <2>1, <2>2, WriteStep
      <3> USE DEF WriteEffect
      <3>2. i \notin inode_bitmap
        BY <2>1, <3>1, FreshInode
      <3> QED  BY <2>1, <3>1, <3>2 DEF TypeOK
    <2>3. ASSUME NEW p \in Inode, NEW i \in Inode, Delete(p, i) PROVE Stay
      BY <2>3 DEF Delete
    <2>4. ASSUME NEW i \in Inode, NEW p \in Inode, NEW q \in Inode,
                 NEW extend \in BOOLEAN, MoveDir(i, p, q, extend)
          PROVE  Stay
      BY <2>4 DEF MoveDir
    <2> QED  BY <2>2, <2>3, <2>4, StepCases
  <1> QED  BY StorageAlways, <1>1, PTL DEF Spec, LiveNodesStay

(***************************************************************************)
(* Entries and tables: a table goes away with its last entry and not       *)
(* before, as no other directory has the block that it is in.              *)
(***************************************************************************)

EntriesInv == Root \in inode_bitmap /\ EntriesHaveTables

\* On a formatted disk only the root has an entry.
LEMMA InitEntries == Init => EntriesInv
  <1> SUFFICES ASSUME Init PROVE EntriesInv
    OBVIOUS
  <1>1. inode_bitmap = {Root} /\ tables = [i \in Inode |-> {}]
    BY DEF Init, InitFrom
  <1> QED  BY <1>1 DEF EntriesInv, EntriesHaveTables

\* write keeps every entry in a table of its directory.
LEMMA WriteEntries ==
    ASSUME StorageInv, EntriesInv, NEW p \in Inode, NEW mode \in {"IFDIR", "IFREG"},
           NEW n \in Nat, NEW extend \in BOOLEAN, Write(p, mode, n, extend)
    PROVE  EntriesInv'
  <1>0. TypeOK /\ InodeCountsExact
    BY DEF StorageInv
  <1>1. PICK i \in Inode, ext, data, ptrs \in SUBSET Block, t \in Block :
          WriteEffect(p, mode, n, i, ext, data, ptrs, t)
    BY <1>0, WriteStep
  <1>2. /\ p \in inode_bitmap /\ IsDir(p) /\ FirstFreeInode(i)
        /\ inode_bitmap' = inode_bitmap \cup {i}
        /\ t \in ext \cup TableBlocks(p) /\ ext \subseteq {t}
        /\ tables'[p] = tables[p] \cup ext
        /\ \A j \in Inode : j # p => tables'[j] = tables[j]
        /\ home'[i] = t
        /\ \A j \in Inode : j # i => node'[j] = node[j] /\ home'[j] = home[j]
    BY <1>0, <1>1 DEF WriteEffect, TypeOK
  <1>3. i \notin inode_bitmap /\ i # p /\ i # Root /\ inode_bitmap \subseteq Inode
    BY <1>0, <1>2, FreshInode DEF EntriesInv, TypeOK
  <1>4. \A j \in inode_bitmap : TableBlocks(j) \subseteq TableBlocks(j)' /\ IsDir(j)' = IsDir(j)
    BY <1>2, <1>3 DEF TableBlocks, IsDir
  <1>5. t \in TableBlocks(p)' /\ i \in Kids(t)'
    BY <1>2, <1>3 DEF TableBlocks, Kids
  <1>6. \A c \in inode_bitmap' \ {Root} :
           \E d \in inode_bitmap' : IsDir(d)' /\ home'[c] \in TableBlocks(d)'
    <2> SUFFICES ASSUME NEW c \in inode_bitmap' \ {Root}
                 PROVE  \E d \in inode_bitmap' : IsDir(d)' /\ home'[c] \in TableBlocks(d)'
      OBVIOUS
    <2>1. CASE c = i
      BY <1>2, <1>4, <1>5, <2>1
    <2>2. CASE c # i
      <3>1. c \in inode_bitmap \ {Root} /\ home'[c] = home[c]
        BY <1>2, <1>3, <2>2
      <3>2. PICK d \in inode_bitmap : IsDir(d) /\ home[c] \in TableBlocks(d)
        BY <3>1 DEF EntriesInv, EntriesHaveTables
      <3> QED  BY <1>2, <1>4, <3>1, <3>2
    <2> QED  BY <2>1, <2>2
  <1>7. \A d \in Inode : \A b \in tables'[d] : Kids(b)' # {}
    <2> SUFFICES ASSUME NEW d \in Inode, NEW b \in tables'[d] PROVE Kids(b)' # {}
      OBVIOUS
    <2>1. Kids(b) \subseteq Kids(b)'
      BY <1>2, <1>3 DEF Kids
    <2>2. b \in tables[d] \/ b = t
      BY <1>2
    <2> QED  BY <1>5, <2>1, <2>2 DEF EntriesInv, EntriesHaveTables
  <1> QED  BY <1>2, <1>6, <1>7 DEF EntriesInv, EntriesHaveTables

\* A chained table that holds only the entry of i is one of the directory that i
\* is in.
LEMMA OnlyEntryIsHere ==
    ASSUME StorageInv, NEW p \in inode_bitmap, NEW i \in inode_bitmap,
           home[i] \in TableBlocks(p), NEW d \in Inode, NEW b \in tables[d], Kids(b) = {i}
    PROVE  d = p /\ b = home[i]
  <1>1. b = home[i]
    BY DEF Kids
  <1>2. d \in inode_bitmap
    BY DEF StorageInv, TablesOfFolders
  <1>3. b \in Own(d) \cap Own(p)
    BY <1>1 DEF Own, TableBlocks
  <1> QED  BY <1>1, <1>2, <1>3 DEF StorageInv, NoSharedBlocks

\* delete frees a table only with its last entry.
LEMMA DeleteEntries ==
    ASSUME StorageInv, EntriesInv, NEW p \in Inode, NEW i \in Inode, Delete(p, i)
    PROVE  EntriesInv'
  <1>0. TypeOK
    BY DEF StorageInv
  <1>1. /\ p \in inode_bitmap /\ IsDir(p)
        /\ i \in inode_bitmap /\ i # Root /\ home[i] \in TableBlocks(p)
        /\ IsDir(i) => IsDirectoryEmpty(i)
        /\ inode_bitmap' = inode_bitmap \ {i}
        /\ tables'[p] = tables[p] \ Unlinked(p, i)
        /\ \A j \in Inode : j # p => tables'[j] = tables[j]
        /\ node' = node
        /\ \A j \in Inode : j # i => home'[j] = home[j]
    BY <1>0 DEF Delete, TypeOK
  <1>2. inode_bitmap \subseteq Inode
    BY <1>0 DEF TypeOK
  <1>3. \A b : Kids(b)' = Kids(b) \ {i}
    BY <1>1, <1>2 DEF Kids
  <1>4. \A c \in inode_bitmap' \ {Root} :
           \E d \in inode_bitmap' : IsDir(d)' /\ home'[c] \in TableBlocks(d)'
    <2> SUFFICES ASSUME NEW c \in inode_bitmap' \ {Root}
                 PROVE  \E d \in inode_bitmap' : IsDir(d)' /\ home'[c] \in TableBlocks(d)'
      OBVIOUS
    <2>1. c \in inode_bitmap \ {Root} /\ c # i /\ home'[c] = home[c] /\ c \in Kids(home[c])
      BY <1>1, <1>2 DEF Kids
    <2>2. PICK d \in inode_bitmap : IsDir(d) /\ home[c] \in TableBlocks(d)
      BY <2>1 DEF EntriesInv, EntriesHaveTables
    <2>3. d # i
      BY <1>1, <2>1, <2>2 DEF IsDirectoryEmpty, TableBlocks
    <2>4. home[c] \notin Unlinked(p, i)
      BY <2>1 DEF Unlinked
    <2>5. d \in Inode
      BY <1>2, <2>2
    <2>6. home[c] \in TableBlocks(d)'
      BY <1>1, <2>2, <2>4, <2>5 DEF TableBlocks
    <2> QED  BY <1>1, <2>1, <2>2, <2>3, <2>6 DEF IsDir
  <1>5. \A d \in Inode : \A b \in tables'[d] : Kids(b)' # {}
    <2> SUFFICES ASSUME NEW d \in Inode, NEW b \in tables'[d], Kids(b)' = {} PROVE FALSE
      OBVIOUS
    <2>1. b \in tables[d] /\ (d = p => b \notin Unlinked(p, i))
      BY <1>1
    <2>2. Kids(b) # {}
      BY <2>1 DEF EntriesInv, EntriesHaveTables
    <2>3. Kids(b) = {i}
      BY <1>3, <2>2
    <2>4. d = p
      BY <1>1, <2>1, <2>3, OnlyEntryIsHere
    <2> QED  BY <2>1, <2>3, <2>4 DEF Unlinked
  <1> QED  BY <1>1, <1>4, <1>5 DEF EntriesInv, EntriesHaveTables

\* move_dir takes the entry from one directory's table to another's.
LEMMA MoveEntries ==
    ASSUME StorageInv, EntriesInv, NEW i \in Inode, NEW p \in Inode, NEW q \in Inode,
           NEW extend \in BOOLEAN, MoveDir(i, p, q, extend)
    PROVE  EntriesInv'
  <1>0. TypeOK
    BY DEF StorageInv
  <1>1. PICK ext, unlinked \in SUBSET Block, t \in Block :
          MoveEffect(i, p, q, ext, unlinked, t)
    BY <1>0, MoveStep
  <1>2. /\ p \in inode_bitmap /\ q \in inode_bitmap /\ IsDir(q)
        /\ i \in inode_bitmap /\ i # Root /\ home[i] \in TableBlocks(p)
        /\ ext \subseteq {t} /\ t \in ext \cup TableBlocks(q)
        /\ unlinked = Unlinked(p, i) \ {t}
        /\ \A d \in Inode : tables'[d] = (tables[d] \cup IF d = q THEN ext ELSE {}) \
                                           (IF d = p THEN unlinked ELSE {})
        /\ inode_bitmap' = inode_bitmap /\ node' = node
        /\ home'[i] = t /\ \A j \in Inode : j # i => home'[j] = home[j]
    BY <1>0, <1>1 DEF MoveEffect, TypeOK
  <1>3. inode_bitmap \subseteq Inode
    BY <1>0 DEF TypeOK
  <1>4. /\ i \in Kids(t)'
        /\ \A b : Kids(b) \ {i} \subseteq Kids(b)'
    BY <1>2, <1>3 DEF Kids
  <1>5. t \in TableBlocks(q)'
    BY <1>2 DEF TableBlocks
  <1>6. \A c \in inode_bitmap' \ {Root} :
           \E d \in inode_bitmap' : IsDir(d)' /\ home'[c] \in TableBlocks(d)'
    <2> SUFFICES ASSUME NEW c \in inode_bitmap' \ {Root}
                 PROVE  \E d \in inode_bitmap' : IsDir(d)' /\ home'[c] \in TableBlocks(d)'
      OBVIOUS
    <2>1. CASE c = i
      BY <1>2, <1>5, <2>1 DEF IsDir
    <2>2. CASE c # i
      <3>1. c \in inode_bitmap \ {Root} /\ home'[c] = home[c] /\ c \in Kids(home[c])
        BY <1>2, <1>3, <2>2 DEF Kids
      <3>2. PICK d \in inode_bitmap : IsDir(d) /\ home[c] \in TableBlocks(d)
        BY <3>1 DEF EntriesInv, EntriesHaveTables
      <3>3. home[c] \notin unlinked
        BY <1>2, <2>2, <3>1 DEF Unlinked
      <3>4. d \in Inode
        BY <1>3, <3>2
      <3>5. home[c] \in TableBlocks(d)'
        BY <1>2, <3>2, <3>3, <3>4 DEF TableBlocks
      <3> QED  BY <1>2, <3>1, <3>2, <3>5 DEF IsDir
    <2> QED  BY <2>1, <2>2
  <1>7. \A d \in Inode : \A b \in tables'[d] : Kids(b)' # {}
    <2> SUFFICES ASSUME NEW d \in Inode, NEW b \in tables'[d], Kids(b)' = {} PROVE FALSE
      OBVIOUS
    <2>1. b # t
      BY <1>4
    <2>2. b \in tables[d] /\ (d = p => b \notin Unlinked(p, i))
      BY <1>2, <2>1
    <2>3. Kids(b) = {i}
      BY <1>4, <2>2 DEF EntriesInv, EntriesHaveTables
    <2>4. d = p
      BY <1>2, <2>2, <2>3, OnlyEntryIsHere
    <2> QED  BY <2>2, <2>3, <2>4 DEF Unlinked
  <1> QED  BY <1>2, <1>6, <1>7 DEF EntriesInv, EntriesHaveTables

\* Every live file and folder has its entry in a table of a live directory, and no
\* table is kept that has none, through writes, deletes and moves of any length.
THEOREM EntriesKeepTables == Spec => []EntriesHaveTables
  <1>1. StorageInv /\ EntriesInv /\ [Next]_vars => EntriesInv'
    <2> SUFFICES ASSUME StorageInv, EntriesInv, [Next]_vars PROVE EntriesInv'
      OBVIOUS
    <2>1. CASE Next
      <3>1. \A p \in Inode, mode \in {"IFDIR", "IFREG"}, n \in Nat, extend \in BOOLEAN :
               Write(p, mode, n, extend) => EntriesInv'
        BY WriteEntries
      <3>2. \A p, i \in Inode : Delete(p, i) => EntriesInv'
        BY DeleteEntries
      <3>3. \A i, p, q \in Inode, extend \in BOOLEAN : MoveDir(i, p, q, extend) => EntriesInv'
        BY MoveEntries
      <3> QED  BY <2>1, <3>1, <3>2, <3>3, StepCases
    <2>2. CASE UNCHANGED vars
      BY <2>2 DEF vars, EntriesInv, EntriesHaveTables, IsDir, TableBlocks, Kids
    <2> QED  BY <2>1, <2>2
  <1>2. EntriesInv => EntriesHaveTables
    BY DEF EntriesInv
  <1> QED  BY InitEntries, StorageAlways, <1>1, <1>2, PTL DEF Spec

(***************************************************************************)
(* Leaks: as long as no file needs a pointer block, deallocate_blocks      *)
(* reaches every block of a node, and what is marked is in use.            *)
(***************************************************************************)

\* A file of direct blocks alone has no pointer block.
LEMMA SmallNeedsNoPointer ==
    ASSUME NEW n \in Nat, n <= NDIRECT
    PROVE  PointerBlocks(n) = 0 /\ \A d \in Depth : SlotBlocks(n, d) = 0
  <1>1. ASSUME NEW d \in Depth PROVE SlotBlocks(n, d) = 0
    <2>1. SlotStart(d) \in Nat /\ SlotStart(d) >= NDIRECT
      BY SlotBlocksNat
    <2>2. n <= SlotStart(d)
      BY <2>1, BlockMapAssumption
    <2> QED  BY <2>2 DEF SlotBlocks
  <1>2. ASSUME NEW d \in Depth, NEW k \in 1 .. 3 PROVE LevelPointers(n, d, k) = 0
    <2>1. Span(k) \in Nat \ {0}
      BY SpanPositive
    <2> QED  BY <1>1, <2>1, DivCeilNat DEF LevelPointers, Depth
  <1>3. \A d \in Depth : SlotPointers(n, d) = 0
    BY <1>2 DEF SlotPointers
  <1> QED  BY <1>1, <1>3 DEF PointerBlocks, Depth

\* The rank of a block in what a group gives is a number.
LEMMA RankNat == ASSUME NEW S \in SUBSET Block, NEW g, NEW b PROVE Rank(S, g, b) \in Nat
  BY BlockFinite DEF Rank

\* Taking no blocks takes nothing.
LEMMA TakeNone == ASSUME NEW S \in SUBSET Block, NEW g PROVE Take(S, g, 0) = {}
  <1>1. \A b : Rank(S, g, b) \in Nat
    BY RankNat
  <1> QED  BY <1>1 DEF Take

\* What is taken keeps its order: fewer than k blocks of it come before another.
LEMMA TakenRanks ==
    ASSUME NEW S \in SUBSET Block, NEW g, NEW k \in Nat, NEW b \in Take(S, g, k)
    PROVE  Rank(Take(S, g, k), g, b) < k
  <1> DEFINE all   == {a \in S : Before(g, a, b)}
             taken == {a \in Take(S, g, k) : Before(g, a, b)}
  <1>1. taken \in SUBSET all /\ all \in SUBSET Block /\ taken \in SUBSET Block
    BY DEF Take
  <1>2. Rank(S, g, b) = Cardinality(all) /\ Rank(Take(S, g, k), g, b) = Cardinality(taken)
    BY DEF Rank
  <1>3. Cardinality(all) < k
    BY <1>2 DEF Take
  <1> HIDE DEF all, taken
  <1>4. IsFiniteSet(all) /\ Cardinality(all) \in Nat /\ Cardinality(taken) \in Nat
    BY <1>1, BlockFinite
  <1>5. Cardinality(taken) <= Cardinality(all)
    BY <1>1, <1>4, FS_Subset
  <1> QED  BY <1>2, <1>3, <1>4, <1>5

\* Freeing a node of direct blocks alone reaches all its blocks, each once.
LEMMA SmallNode ==
    ASSUME NEW mode, NEW data \in SUBSET Block, NEW g, NEW n \in Nat, n <= NDIRECT,
           \A b \in data : Rank(data, g, b) < NDIRECT
    PROVE  LET new == NewNode(mode, data, {}, g, n)
           IN  new.freed = data /\ new.rest = {} /\ new.again = [h \in Group |-> 0]
  <1>1. \A d \in Depth, k \in 0 .. 3 : PathBlock(data, {}, g, n, d, k) = {}
    BY SmallNeedsNoPointer DEF PathBlock
  <1>2. Reached(data, {}, g, n) = data
    BY <1>1 DEF Reached
  <1>3. \A h \in Group, d \in Depth, k \in 0 .. 3 : Revisits(data, {}, g, n, h, d, k) = 0
    BY <1>1 DEF Revisits
  <1>4. \A h \in Group, d \in Depth : TreeRevisits(data, {}, g, n, h, d) = 0
    BY <1>3 DEF TreeRevisits
  <1>5. AgainIn(data, {}, g, n) = [h \in Group |-> 0]
    BY <1>4 DEF AgainIn, Depth
  <1> QED  BY <1>2, <1>5 DEF NewNode

\* nothing of a node is out of deallocate_blocks's reach, and it visits no block twice
SmallNodes == \A i \in Inode : node[i].rest = {} /\ node[i].again = [g \in Group |-> 0]

\* The root is such a node.
LEMMA InitSmall == InitFrom(Reserved) => SmallNodes
  <1> SUFFICES ASSUME InitFrom(Reserved) PROVE SmallNodes
    OBVIOUS
  <1> DEFINE count == [g \in Group |-> BLOCKS_PER_GROUP - ReservedCount(g)]
             table == SearchBlocks(Reserved, count, 0, 1)
  <1>1. 1 \in Nat /\ 1 <= NDIRECT
    BY BlockMapAssumption
  <1>2. table \in SUBSET Block
    BY SearchFindsFree
  <1>3. \A b \in table : Rank(table, 0, b) < 1
    <2> DEFINE S == Avail(Reserved, count)
    <2>1. S \in SUBSET Block /\ table = Take(S, 0, 1)
      BY DEF Avail, SearchBlocks
    <2> HIDE DEF S, table
    <2> QED  BY <2>1, TakenRanks
  <1>4. \A b \in table : Rank(table, 0, b) < NDIRECT
    <2> HIDE DEF table
    <2>1. \A b \in table : Rank(table, 0, b) \in Nat
      BY <1>2, RankNat
    <2> QED  BY <1>3, <2>1, BlockMapAssumption
  <1>5. \A i \in Inode : \/ node[i] = NewNode("IFDIR", table, {}, 0, 1)
                         \/ node[i].rest = {} /\ node[i].again = [g \in Group |-> 0]
    BY DEF InitFrom
  <1> HIDE DEF table
  <1> QED  BY <1>1, <1>2, <1>4, <1>5, SmallNode DEF SmallNodes

\* allocate_node_blocks for a small node
LEMMA AllocateSmall ==
    ASSUME SmallNodes, TypeOK, NEW i \in Inode, NEW mode, NEW n \in Nat, n <= NDIRECT,
           NEW bitmap, NEW count, AllocateNodeBlocks(i, mode, n, bitmap, count)
    PROVE  SmallNodes'
  <1> DEFINE data == DataBlocks(bitmap, count, i[1], n)
             ptrs == PtrBlocks(bitmap \cup data, Debit(count, data), n)
             S    == Avail(bitmap, count)
  <1>1. node' = [node EXCEPT ![i] = NewNode(mode, data, ptrs, i[1], n)]
    BY DEF AllocateNodeBlocks
  <1>2. data \in SUBSET Block
    BY SearchFindsFree DEF DataBlocks
  <1>3. \A b \in data : Rank(data, i[1], b) < NDIRECT
    <2>1. S \in SUBSET Block /\ data = Take(S, i[1], n)
      BY DEF Avail, SearchBlocks, DataBlocks
    <2> HIDE DEF S, data
    <2>2. \A b \in data : Rank(data, i[1], b) < n
      BY <2>1, TakenRanks
    <2> QED  BY <1>2, <2>2, RankNat, BlockMapAssumption
  <1>4. ptrs = {}
    <2> HIDE DEF data
    <2> DEFINE T == Avail(bitmap \cup data, Debit(count, data))
    <2>1. T \in SUBSET Block /\ ptrs = Take(T, 0, PointerBlocks(n))
      BY DEF Avail, SearchBlocks, PtrBlocks
    <2> HIDE DEF T
    <2> QED  BY <2>1, TakeNone, SmallNeedsNoPointer
  <1> HIDE DEF data, ptrs
  <1>5. node'[i] = NewNode(mode, data, {}, i[1], n) /\ \A j \in Inode : j # i => node'[j] = node[j]
    BY <1>1, <1>4 DEF TypeOK
  <1>6. node'[i].rest = {} /\ node'[i].again = [g \in Group |-> 0]
    BY <1>2, <1>3, <1>5, SmallNode
  <1> QED  BY <1>5, <1>6 DEF SmallNodes

\* The hypothesis that no file needs a pointer block, for whatever is written.
LEMMA WriteSmall ==
    ASSUME SmallNodes, TypeOK, NEW p \in Inode, NEW mode \in {"IFDIR", "IFREG"},
           NEW n \in Nat, n <= NDIRECT, NEW extend \in BOOLEAN, Write(p, mode, n, extend)
    PROVE  SmallNodes'
  <1>1. PICK i, bitmap, count : i \in Inode /\ AllocateNodeBlocks(i, mode, n, bitmap, count)
    BY DEF Write
  <1> QED  BY <1>1, AllocateSmall

\* write loses no block.
LEMMA WriteLeaksNothing ==
    ASSUME StorageInv, NoLeak, NEW p \in Inode, NEW mode \in {"IFDIR", "IFREG"},
           NEW n \in Nat, NEW extend \in BOOLEAN, Write(p, mode, n, extend)
    PROVE  NoLeak'
  <1>0. TypeOK
    BY DEF StorageInv
  <1>1. PICK i \in Inode, ext, data, ptrs \in SUBSET Block, t \in Block :
          WriteEffect(p, mode, n, i, ext, data, ptrs, t)
    BY <1>0, WriteStep
  <1>2. /\ p \in inode_bitmap /\ FirstFreeInode(i)
        /\ inode_bitmap' = inode_bitmap \cup {i}
        /\ ext \cap block_bitmap = {} /\ data \cap block_bitmap = {} /\ ptrs \cap block_bitmap = {}
        /\ block_bitmap' = block_bitmap \cup ext \cup data \cup ptrs
        /\ tables'[p] = tables[p] \cup ext
        /\ \A j \in Inode : j # p => tables'[j] = tables[j]
        /\ node'[i] = NewNode(mode, data, ptrs, i[1], n)
        /\ \A j \in Inode : j # i => node'[j] = node[j]
    BY <1>0, <1>1 DEF WriteEffect, TypeOK
  <1>3. i \notin inode_bitmap /\ inode_bitmap \subseteq Inode /\ tables[i] = {} /\ i # p
    BY <1>0, <1>2, FreshInode DEF StorageInv, TypeOK, TablesOfFolders
  <1>4. node'[i].freed \cup node'[i].rest = data \cup ptrs
    <2>1. i[1] \in Group
      BY <1>0, NodeFields
    <2> QED  BY <1>2, <2>1, NewNodeTyped
  <1>5. /\ Own(i)' = data \cup ptrs
        /\ Own(p)' = Own(p) \cup ext
        /\ \A j \in inode_bitmap : j # p => Own(j)' = Own(j)
    BY <1>2, <1>3, <1>4 DEF Own
  <1>6. (ext \cup data \cup ptrs) \cap Reserved = {}
    BY <1>2 DEF StorageInv, OwnedAreMarked
  <1>7. UNION {Own(j)' : j \in inode_bitmap'}
           = (UNION {Own(j) : j \in inode_bitmap}) \cup ext \cup data \cup ptrs
    BY <1>2, <1>3, <1>5
  <1> QED  BY <1>2, <1>6, <1>7 DEF NoLeak

\* delete of a node of direct blocks loses no block.
LEMMA DeleteLeaksNothing ==
    ASSUME StorageInv, SmallNodes, NoLeak, NEW p \in Inode, NEW i \in Inode, Delete(p, i)
    PROVE  NoLeak'
  <1>0. TypeOK
    BY DEF StorageInv
  <1> DEFINE unlinked == Unlinked(p, i)
  <1>1. /\ p \in inode_bitmap /\ i \in inode_bitmap /\ i # Root /\ home[i] \in TableBlocks(p)
        /\ IsDir(p) /\ (IsDir(i) => IsDirectoryEmpty(i))
        /\ block_bitmap' = (block_bitmap \ node[i].freed) \ unlinked
        /\ inode_bitmap' = inode_bitmap \ {i}
        /\ tables' = [tables EXCEPT ![p] = tables[p] \ unlinked]
        /\ node' = node
    BY DEF Delete
  <1>2. unlinked \subseteq tables[p] /\ inode_bitmap \subseteq Inode
    BY <1>0 DEF Unlinked, TypeOK
  <1>3. tables[i] = {} /\ p # i
    <2>1. tables[i] = {}
      BY <1>1 DEF StorageInv, TablesOfFolders, IsDirectoryEmpty
    <2>2. i \in Kids(home[i])
      BY <1>1 DEF Kids
    <2> QED  BY <1>1, <2>1, <2>2 DEF IsDirectoryEmpty, TableBlocks
  <1> HIDE DEF unlinked
  <1>4. /\ tables'[p] = tables[p] \ unlinked
        /\ \A j \in Inode : j # p => tables'[j] = tables[j]
    BY <1>0, <1>1 DEF TypeOK
  <1>5. Own(i) = node[i].freed /\ unlinked \subseteq Own(p)
    BY <1>2, <1>3 DEF Own, SmallNodes
  <1>6. \A j \in inode_bitmap : j # i => Own(j)' = Own(j) \ (IF j = p THEN unlinked ELSE {})
    <2>1. unlinked \cap (node[p].freed \cup node[p].rest) = {}
      BY <1>1, <1>2 DEF StorageInv, TablesApart
    <2> QED  BY <1>1, <1>2, <1>4, <2>1 DEF Own
  <1>7. \A j \in inode_bitmap : j # i => Own(j)' = (Own(j) \ node[i].freed) \ unlinked
    BY <1>1, <1>5, <1>6 DEF StorageInv, NoSharedBlocks
  <1>8. UNION {Own(j)' : j \in inode_bitmap'}
           = ((UNION {Own(j) : j \in inode_bitmap}) \ node[i].freed) \ unlinked
    BY <1>1, <1>5, <1>7
  <1> QED  BY <1>1, <1>8 DEF NoLeak

\* move_dir loses no block.
LEMMA MoveLeaksNothing ==
    ASSUME StorageInv, NoLeak, NEW i \in Inode, NEW p \in Inode, NEW q \in Inode,
           NEW extend \in BOOLEAN, MoveDir(i, p, q, extend)
    PROVE  NoLeak'
  <1>0. TypeOK
    BY DEF StorageInv
  <1>1. PICK ext, unlinked \in SUBSET Block, t \in Block :
          MoveEffect(i, p, q, ext, unlinked, t)
    BY <1>0, MoveStep
  <1>2. /\ p \in inode_bitmap /\ q \in inode_bitmap /\ inode_bitmap \subseteq Inode
        /\ ext \cap block_bitmap = {} /\ unlinked \subseteq tables[p]
        /\ \A d \in Inode : tables'[d] = (tables[d] \cup IF d = q THEN ext ELSE {}) \
                                           (IF d = p THEN unlinked ELSE {})
        /\ block_bitmap' = (block_bitmap \cup ext) \ unlinked
        /\ inode_bitmap' = inode_bitmap /\ node' = node
    BY <1>0, <1>1 DEF MoveEffect, TypeOK
  <1>3. unlinked \subseteq block_bitmap \ Reserved /\ unlinked \subseteq Own(p)
        /\ ext \cap Reserved = {}
    BY <1>2 DEF StorageInv, OwnedAreMarked, Own
  <1>4. \A j \in inode_bitmap :
           Own(j)' = (Own(j) \cup IF j = q THEN ext ELSE {}) \ (IF j = p THEN unlinked ELSE {})
    <2>1. (node[p].freed \cup node[p].rest) \cap unlinked = {}
      BY <1>2 DEF StorageInv, TablesApart
    <2> QED  BY <1>2, <2>1 DEF Own
  <1>5. \A j \in inode_bitmap : Own(j)' = (Own(j) \cup IF j = q THEN ext ELSE {}) \ unlinked
    BY <1>2, <1>3, <1>4 DEF StorageInv, NoSharedBlocks
  <1>6. UNION {Own(j)' : j \in inode_bitmap'}
           = ((UNION {Own(j) : j \in inode_bitmap}) \cup ext) \ unlinked
    BY <1>2, <1>5
  <1> QED  BY <1>2, <1>3, <1>6 DEF NoLeak

\* What a disk has marked is reserved or in use for ever if no file is written that
\* needs a pointer block: only deallocate_block's walk through a tree leaks.
THEOREM SmallFilesLeakNothing ==
    ASSUME MaxFileBlocks <= NDIRECT PROVE Spec => []NoLeak
  <1>1. Init => SmallNodes /\ NoLeak
    <2> SUFFICES ASSUME Init PROVE SmallNodes /\ NoLeak
      OBVIOUS
    <2>1. SmallNodes /\ StorageInv
      BY InitSmall, InitStorage DEF Init
    <2> DEFINE table == SearchBlocks(Reserved, [g \in Group |-> BLOCKS_PER_GROUP - ReservedCount(g)], 0, 1)
    <2>2. /\ inode_bitmap = {Root} /\ block_bitmap = Reserved \cup table
          /\ node[Root] = NewNode("IFDIR", table, {}, 0, 1) /\ tables[Root] = {} /\ Root \in Inode
      <3>1. Root \in Inode
        BY GeometryAssumption DEF Root, Inode, Group
      <3> QED  BY <3>1 DEF Init, InitFrom
    <2>3. table \subseteq Block \ Reserved
      BY SearchFindsFree
    <2> HIDE DEF table
    <2>4. node[Root].freed \cup node[Root].rest = table
      <3>1. 0 \in Group /\ 1 \in Nat /\ {} \in SUBSET Block /\ table \in SUBSET Block
        BY <2>3, GeometryAssumption DEF Group
      <3> QED  BY <2>2, <3>1, NewNodeTyped
    <2> QED  BY <2>1, <2>2, <2>3, <2>4 DEF NoLeak, Own
  <1>2. StorageInv /\ SmallNodes /\ NoLeak /\ [Next]_vars => SmallNodes' /\ NoLeak'
    <2> SUFFICES ASSUME StorageInv, SmallNodes, NoLeak, [Next]_vars PROVE SmallNodes' /\ NoLeak'
      OBVIOUS
    <2>0. TypeOK
      BY DEF StorageInv
    <2>1. ASSUME NEW p \in Inode, NEW extend \in BOOLEAN, MakeFolder(p, extend)
          PROVE  SmallNodes' /\ NoLeak'
      <3>1. 1 \in Nat /\ 1 <= NDIRECT /\ Write(p, "IFDIR", 1, extend)
        BY <2>1, BlockMapAssumption DEF MakeFolder
      <3> QED  BY <2>0, <2>1, <3>1, WriteSmall, WriteLeaksNothing
    <2>2. ASSUME NEW p \in Inode, NEW n \in 1 .. MaxFileBlocks, NEW extend \in BOOLEAN,
                 WriteFile(p, n, extend)
          PROVE  SmallNodes' /\ NoLeak'
      <3>1. n \in Nat /\ n <= NDIRECT /\ Write(p, "IFREG", n, extend)
        BY <2>2, BlockMapAssumption, GeometryAssumption DEF WriteFile
      <3> QED  BY <2>0, <2>2, <3>1, WriteSmall, WriteLeaksNothing
    <2>3. ASSUME NEW p \in Inode, NEW i \in Inode, Delete(p, i) PROVE SmallNodes' /\ NoLeak'
      <3>1. node' = node
        BY <2>3 DEF Delete
      <3> QED  BY <2>3, <3>1, DeleteLeaksNothing DEF SmallNodes
    <2>4. ASSUME NEW i \in Inode, NEW p \in Inode, NEW q \in Inode, NEW extend \in BOOLEAN,
                 MoveDir(i, p, q, extend)
          PROVE  SmallNodes' /\ NoLeak'
      <3>1. node' = node
        BY <2>4 DEF MoveDir
      <3> QED  BY <2>4, <3>1, MoveLeaksNothing DEF SmallNodes
    <2>5. CASE UNCHANGED vars
      BY <2>5 DEF vars, SmallNodes, NoLeak, Own
    <2> QED  BY <2>1, <2>2, <2>3, <2>4, <2>5 DEF Next
  <1> QED  BY <1>1, <1>2, StorageAlways, PTL DEF Spec

(***************************************************************************)
(* Ext2Crash from here on.                                                 *)
(***************************************************************************)

(***************************************************************************)
(* create_ext2: what its loops over the bytes of the bitmaps set is what   *)
(* the descriptors count as reserved.                                      *)
(***************************************************************************)

\* Group 0 has three reserved blocks more than the others, and at least five.
LEMMA ReservedCountValues ==
    /\ \A g \in Group : ReservedCount(g) = ReservedCount(0) - (IF g = 0 THEN 0 ELSE 3)
    /\ ReservedCount(0) \in Nat /\ ReservedCount(0) >= 5
  BY GeometryAssumption DEF ReservedCount, Group

\* Setting bits byte by byte and then one by one sets the first n.
LEMMA SetBitsValues == ASSUME NEW n \in Nat PROVE SetBits(n) = 0 .. n - 1
  <1>1. ASSUME NEW b \in SetBits(n) PROVE b \in 0 .. n - 1
    <2>1. PICK j \in {j \in 0 .. n : 8 * j < n} :
              b \in {8 * j + k : k \in {k \in 0 .. 7 : k < n - 8 * j}}
      BY DEF SetBits
    <2>2. PICK k \in {k \in 0 .. 7 : k < n - 8 * j} : b = 8 * j + k
      BY <2>1
    <2> QED  BY <2>2
  <1>2. ASSUME NEW b \in 0 .. n - 1 PROVE b \in SetBits(n)
    <2> DEFINE q == b \div 8
               r == b % 8
    <2>1. q \in 0 .. n /\ r \in 0 .. 7 /\ b = 8 * q + r
      OBVIOUS
    <2> HIDE DEF q, r
    <2>2. 8 * q < n /\ r < n - 8 * q
      BY <2>1
    <2>3. b \in {8 * q + k : k \in {k \in 0 .. 7 : k < n - 8 * q}}
      BY <2>1, <2>2
    <2>4. q \in {j \in 0 .. n : 8 * j < n}
      BY <2>1, <2>2
    <2> QED  BY <2>3, <2>4 DEF SetBits
  <1> QED  BY <1>1, <1>2

\* Going back over a byte's first bit reaches the last one of the byte before.
LEMMA BackValue ==
    ASSUME NEW at, NEW v \in Int, at[1] \in Int, at[2] \in 0 .. 7, 8 * at[1] + at[2] = v
    PROVE  /\ Back(at)[1] \in Int /\ Back(at)[2] \in 0 .. 7
           /\ 8 * Back(at)[1] + Back(at)[2] = v - 1
  BY DEF Back

\* Taking three bits back, from the last on, takes back the last three.
LEMMA TakenBackValues == ASSUME NEW n \in Nat, n >= 3 PROVE TakenBack(n) = n - 3 .. n - 1
  <1> DEFINE last == <<(n - 1) \div 8, (n - 1) % 8>>
             b1 == Back(last)
             b2 == Back(b1)
  <1>1. last[1] \in Int /\ last[2] \in 0 .. 7 /\ 8 * last[1] + last[2] = n - 1
    OBVIOUS
  <1> HIDE DEF last
  <1>2. b1[1] \in Int /\ b1[2] \in 0 .. 7 /\ 8 * b1[1] + b1[2] = (n - 1) - 1
    BY <1>1, BackValue
  <1> HIDE DEF b1
  <1>3. b2[1] \in Int /\ b2[2] \in 0 .. 7 /\ 8 * b2[1] + b2[2] = ((n - 1) - 1) - 1
    <2>1. (n - 1) - 1 \in Int
      OBVIOUS
    <2> QED  BY <1>2, <2>1, BackValue
  <1> HIDE DEF b2
  <1>4. TakenBack(n) = {8 * last[1] + last[2], 8 * b1[1] + b1[2], 8 * b2[1] + b2[2]}
    BY DEF TakenBack, last, b1, b2
  <1>5. TakenBack(n) = {n - 1, (n - 1) - 1, ((n - 1) - 1) - 1}
    BY <1>1, <1>2, <1>3, <1>4
  <1> QED  BY <1>5

\* The disk that create_ext2 leaves has exactly the reserved bits set, for any size
\* of the inode table.
THEOREM FormattedIsReserved == Formatted = Reserved
  <1> DEFINE n == ReservedCount(0)
  <1>1. n \in Nat /\ n >= 5
    BY ReservedCountValues
  <1>2. SetBits(n) = 0 .. n - 1 /\ TakenBack(n) = n - 3 .. n - 1
    BY <1>1, SetBitsValues, TakenBackValues
  <1> HIDE DEF n
  <1>3. Formatted = {b \in Block : b[2] \in (0 .. n - 1) \ (IF b[1] = 0 THEN {} ELSE n - 3 .. n - 1)}
    BY <1>2 DEF Formatted, n
  <1>4. \A b \in Block : /\ b[1] \in Group /\ b[2] \in Nat
                         /\ ReservedCount(b[1]) = n - (IF b[1] = 0 THEN 0 ELSE 3)
    BY ReservedCountValues, GeometryAssumption DEF Block, n
  <1> QED  BY <1>1, <1>3, <1>4 DEF Reserved

(***************************************************************************)
(* The inductive invariant.  What a path leads to is Linked; an inode      *)
(* whose delete was cut is torn, still has its entry, and may have lost    *)
(* its own bit and those of its blocks.  Nothing is allocated before the   *)
(* delete is given again, so nobody else can have them then, and           *)
(* clearing them a second time takes nothing from anybody.                 *)
(***************************************************************************)

Claimed == {i \in Inode : i \in Linked \/ i = torn}

CrashTypeOK == /\ TypeOK
               /\ Root \in inode_bitmap
               /\ cuts \in Nat
               /\ torn \in Inode \cup {NoInode} /\ torn # Root
               /\ lost \in SUBSET Block

ClaimedApart    == \A i, j \in Claimed : i # j => Own(i) \cap Own(j) = {}
ClaimedInside   == \A i \in Claimed : Own(i) \cap Reserved = {}
SoundMarked     == \A i \in Sound : Own(i) \subseteq block_bitmap
ChainsApart     == \A i \in Claimed : tables[i] \cap (node[i].freed \cup node[i].rest) = {}
ChainsOfFolders == \A i \in Inode : tables[i] # {} => i \in Sound /\ IsDir(i)
EntriesClaimed  == \A i \in Inode : home[i] # NoEntry => i \in Claimed
TornElsewhere   == torn # NoInode => home[torn] \notin Own(torn)

DiskInv == /\ CrashTypeOK
           /\ Reserved \subseteq block_bitmap
           /\ ClaimedApart
           /\ ClaimedInside
           /\ SoundMarked
           /\ ChainsApart
           /\ ChainsOfFolders
           /\ EntriesClaimed
           /\ TornElsewhere

\* what the claimed inodes hold is not lost, what is marked and not lost is held
Held == UNION {Own(i) : i \in Claimed}

LossInv == /\ lost \subseteq block_bitmap \ Reserved
           /\ lost \cap Held = {}
           /\ block_bitmap \ Reserved \subseteq lost \cup Held

\* The value that stands for no inode is none; the root is one.
LEMMA NoInodeIsNone == NoInode \notin Inode /\ Root \in Inode /\ NoEntry \in Reserved
  BY GeometryAssumption DEF NoInode, Inode, Group, Root, NoEntry, Reserved, Block, ReservedCount

\* While no delete is torn, what is claimed is what a path leads to.
LEMMA WholeClaims ==
    ASSUME DiskInv, torn = NoInode
    PROVE  Claimed = Linked /\ Sound = Linked /\ Linked \subseteq Inode /\ Linked \subseteq inode_bitmap
  BY NoInodeIsNone DEF Claimed, Sound, Linked, DiskInv, CrashTypeOK, TypeOK

\* The formatted disk satisfies the invariant of the cuts.
LEMMA InitDisk == CrashInit => DiskInv
  <1> SUFFICES ASSUME CrashInit PROVE DiskInv
    OBVIOUS
  <1>1. Init /\ cuts = 0 /\ torn = NoInode /\ lost = {}
    BY FormattedIsReserved DEF CrashInit, Init
  <1>2. StorageInv
    BY <1>1, InitStorage
  <1>3. inode_bitmap = {Root} /\ \A i \in Inode : home[i] = NoEntry
    BY <1>1 DEF Init, InitFrom
  <1>4. Linked = {Root} /\ Claimed = {Root} /\ Sound = {Root}
    BY <1>1, <1>3, NoInodeIsNone DEF Linked, Claimed, Sound
  <1>5. CrashTypeOK
    BY <1>1, <1>2, <1>3, NoInodeIsNone DEF CrashTypeOK, StorageInv
  <1>6. Reserved \subseteq block_bitmap /\ Own(Root) \subseteq block_bitmap \ Reserved
    BY <1>2, <1>3 DEF StorageInv, OwnedAreMarked
  <1>7. ChainsApart /\ ChainsOfFolders
    BY <1>2, <1>3, <1>4 DEF StorageInv, TablesApart, TablesOfFolders, ChainsApart, ChainsOfFolders
  <1>8. ClaimedApart /\ ClaimedInside /\ SoundMarked /\ EntriesClaimed /\ TornElsewhere
    BY <1>1, <1>3, <1>4, <1>6 DEF ClaimedApart, ClaimedInside, SoundMarked, EntriesClaimed, TornElsewhere
  <1> QED  BY <1>5, <1>6, <1>7, <1>8 DEF DiskInv

(***************************************************************************)
(* Operations that are not cut.                                            *)
(***************************************************************************)

\* Where some inode is available the one that allocate_node takes is: all of them are
\* in the first group that counts any.
LEMMA AvailableIsFresh ==
    ASSUME TypeOK, NodeAvailable, NEW i \in Inode, FirstFreeInode(i)
    PROVE  i \notin inode_bitmap
  <1>1. PICK j \in Inode \ inode_bitmap : FirstFreeInode(j)
    BY DEF NodeAvailable
  <1>2. i[1] \in Nat /\ j[1] \in Nat /\ i[1] \in Group /\ j[1] \in Group
    BY DEF Inode, Group
  <1>3. i[1] = j[1]
    <2>1. ~(i[1] < j[1]) /\ ~(j[1] < i[1])
      BY <1>1, <1>2 DEF FirstFreeInode, TypeOK, Counter
    <2> QED  BY <1>2, <2>1
  <1>4. ~(InodesOf(i[1]) \subseteq inode_bitmap)
    BY <1>1, <1>3 DEF InodesOf
  <1> QED  BY <1>4 DEF FirstFreeInode

\* A write that is not cut keeps it.
LEMMA WholeWriteDisk ==
    ASSUME DiskInv, torn = NoInode, NodeAvailable, UNCHANGED <<cuts, torn, lost>>,
           NEW p \in Linked, NEW mode \in {"IFDIR", "IFREG"}, NEW n \in Nat,
           NEW extend \in BOOLEAN, Write(p, mode, n, extend)
    PROVE  DiskInv' /\ (LossInv => LossInv')
  <1>0. TypeOK /\ p \in Inode
    BY WholeClaims DEF DiskInv, CrashTypeOK
  <1>1. PICK i \in Inode, ext, data, ptrs \in SUBSET Block, t \in Block :
          WriteEffect(p, mode, n, i, ext, data, ptrs, t)
    BY <1>0, WriteStep
  <1>2. /\ p \in inode_bitmap /\ IsDir(p) /\ FirstFreeInode(i)
        /\ ext \cap block_bitmap = {}
        /\ data \cap (block_bitmap \cup ext) = {}
        /\ ptrs \cap (block_bitmap \cup ext \cup data) = {}
        /\ t \in ext \cup TableBlocks(p)
        /\ inode_bitmap' = inode_bitmap \cup {i}
        /\ block_bitmap' = block_bitmap \cup ext \cup data \cup ptrs
        /\ tables'[p] = tables[p] \cup ext
        /\ \A j \in Inode : j # p => tables'[j] = tables[j]
        /\ home'[i] = t
        /\ node'[i] = NewNode(mode, data, ptrs, i[1], n)
        /\ \A j \in Inode : j # i => node'[j] = node[j] /\ home'[j] = home[j]
    BY <1>0, <1>1 DEF WriteEffect, TypeOK
  <1>3. i \notin inode_bitmap /\ i # p /\ i # Root /\ i \notin Linked /\ Root \in Linked
    <2>1. i \notin inode_bitmap
      BY <1>0, <1>2, AvailableIsFresh
    <2>2. Root \in inode_bitmap
      BY DEF DiskInv, CrashTypeOK
    <2> QED  BY <1>2, <2>1, <2>2, WholeClaims DEF Linked
  <1>4. Claimed = Linked /\ Sound = Linked /\ Linked \subseteq Inode
    BY WholeClaims
  <1>5. tables[i] = {}
    BY <1>3, <1>4 DEF DiskInv, ChainsOfFolders
  <1>6. node'[i].freed \cup node'[i].rest = data \cup ptrs
    <2>1. i[1] \in Group
      BY <1>0, NodeFields
    <2> QED  BY <1>2, <2>1, NewNodeTyped
  <1>7. t # NoEntry
    <2>1. TableBlocks(p) \cap Reserved = {}
      BY <1>4 DEF DiskInv, ClaimedInside, Own, TableBlocks
    <2> QED  BY <1>2, <2>1, NoInodeIsNone DEF DiskInv
  <1>8. Linked' = Linked \cup {i} /\ Claimed' = Linked' /\ Sound' = Linked'
    <2>1. Linked' = Linked \cup {i}
      BY <1>0, <1>2, <1>3, <1>7 DEF Linked, TypeOK
    <2> QED  BY <1>4, <2>1, NoInodeIsNone DEF Claimed, Sound
  <1>9. /\ Own(i)' = data \cup ptrs
        /\ Own(p)' = Own(p) \cup ext
        /\ \A j \in Linked : j # p => Own(j)' = Own(j)
    BY <1>2, <1>3, <1>4, <1>5, <1>6 DEF Own
  <1>10. \A j \in Linked : Own(j) \subseteq block_bitmap \ Reserved
    BY <1>4 DEF DiskInv, SoundMarked, ClaimedInside
  <1>11. ClaimedApart'
    BY <1>2, <1>4, <1>8, <1>9, <1>10 DEF DiskInv, ClaimedApart
  <1>12. ClaimedInside' /\ SoundMarked' /\ (Reserved \subseteq block_bitmap)'
    BY <1>2, <1>4, <1>8, <1>9, <1>10 DEF DiskInv, ClaimedInside, SoundMarked
  <1>13. ChainsApart'
    <2>1. node[p].freed \cup node[p].rest \subseteq block_bitmap
      BY <1>10 DEF Own
    <2> QED  BY <1>2, <1>3, <1>4, <1>5, <1>8, <2>1 DEF DiskInv, ChainsApart
  <1>14. ChainsOfFolders'
    BY <1>2, <1>3, <1>4, <1>5, <1>8 DEF DiskInv, ChainsOfFolders, IsDir
  <1>15. EntriesClaimed' /\ TornElsewhere'
    BY <1>2, <1>4, <1>8 DEF DiskInv, EntriesClaimed, TornElsewhere
  <1>16. CrashTypeOK'
    BY <1>0, <1>2, WriteTyped DEF DiskInv, CrashTypeOK
  <1>17. ASSUME LossInv PROVE LossInv'
    <2>1. Held' = Held \cup ext \cup data \cup ptrs
      BY <1>2, <1>3, <1>4, <1>8, <1>9 DEF Held
    <2>2. (ext \cup data \cup ptrs) \cap Reserved = {} /\ lost' = lost
      BY <1>2 DEF DiskInv
    <2> QED  BY <1>2, <1>17, <2>1, <2>2 DEF LossInv
  <1> QED  BY <1>11, <1>12, <1>13, <1>14, <1>15, <1>16, <1>17 DEF DiskInv

\* What delete takes has no chained tables, and is not the directory that holds it.
LEMMA TakesNoChain ==
    ASSUME ChainsOfFolders, NEW p \in Inode, NEW i \in inode_bitmap, i \in Inode, i # Root,
           home[i] \in TableBlocks(p), IsDir(p), IsDir(i) => IsDirectoryEmpty(i)
    PROVE  tables[i] = {} /\ p # i
  <1>1. tables[i] = {}
    BY DEF ChainsOfFolders, IsDirectoryEmpty
  <1>2. i \in Kids(home[i])
    BY DEF Kids
  <1> QED  BY <1>1, <1>2 DEF IsDirectoryEmpty, TableBlocks

\* The entry of i goes, with the table it was in if it was the only one there: what
\* delete ends with, whether it was cut before or not.
LEMMA EntryGoes ==
    ASSUME DiskInv, CrashTypeOK', NEW p \in Linked, NEW i \in Claimed,
           torn \in {NoInode, i}, p # i, i # Root, tables[i] = {},
           NEW unlinked, unlinked \subseteq tables[p],
           NEW cleared, cleared \subseteq node[i].freed \cup unlinked,
           block_bitmap' = block_bitmap \ cleared,
           inode_bitmap' = inode_bitmap \ {i},
           tables' = [tables EXCEPT ![p] = tables[p] \ unlinked],
           home' = [home EXCEPT ![i] = NoEntry],
           node' = node, torn' = NoInode
    PROVE  /\ DiskInv'
           /\ (/\ node[i].rest = {} /\ node[i].freed \subseteq cleared
               /\ lost' = lost \cup (unlinked \ cleared) /\ LossInv) => LossInv'
  <1>1. TypeOK /\ i \in Inode /\ p \in Inode /\ inode_bitmap \subseteq Inode
    BY DEF DiskInv, CrashTypeOK, TypeOK, Claimed, Linked
  <1>2. /\ tables'[p] = tables[p] \ unlinked
        /\ \A j \in Inode : j # p => tables'[j] = tables[j]
        /\ home'[i] = NoEntry
        /\ \A j \in Inode : j # i => home'[j] = home[j]
    BY <1>1 DEF TypeOK
  <1>3. /\ Linked' = Claimed \ {i} /\ Claimed' = Claimed \ {i} /\ Sound' = Claimed \ {i}
        /\ Sound \ {i} = Claimed \ {i}
    <2>1. Linked' = Linked \ {i}
      BY <1>1, <1>2 DEF Linked
    <2>2. Claimed \ {i} = Linked \ {i}
      BY <1>1, NoInodeIsNone DEF Claimed, Linked
    <2>3. NoInode \notin Linked
      BY <1>1, NoInodeIsNone DEF Linked
    <2> QED  BY <1>1, <2>1, <2>2, <2>3, NoInodeIsNone DEF Claimed, Sound
  <1>4. p \in Claimed /\ Claimed \subseteq Inode
    BY <1>1 DEF Claimed
  <1>5. \A j \in Claimed' : Own(j)' = IF j = p THEN Own(p) \ unlinked ELSE Own(j)
    BY <1>1, <1>2, <1>3, <1>4 DEF DiskInv, ChainsApart, Own
  <1>6. \A j \in Claimed' : Own(j)' \cap (node[i].freed \cup unlinked) = {}
    <2>1. node[i].freed \subseteq Own(i) /\ unlinked \subseteq Own(p)
      BY DEF Own
    <2> QED  BY <1>3, <1>4, <1>5, <2>1 DEF DiskInv, ClaimedApart
  <1>7. (node[i].freed \cup unlinked) \cap Reserved = {}
    BY <1>4 DEF DiskInv, ClaimedInside, Own
  <1>8. \A j \in Claimed' : Own(j)' \subseteq Own(j)
    BY <1>5
  <1>9. ClaimedApart'
    BY <1>3, <1>8 DEF DiskInv, ClaimedApart
  <1>10. ClaimedInside' /\ SoundMarked'
    BY <1>3, <1>6, <1>8 DEF DiskInv, ClaimedInside, SoundMarked
  <1>11. ChainsApart' /\ ChainsOfFolders'
    BY <1>1, <1>2, <1>3, <1>4 DEF DiskInv, ChainsApart, ChainsOfFolders, IsDir
  <1>12. EntriesClaimed' /\ TornElsewhere'
    BY <1>2, <1>3 DEF DiskInv, EntriesClaimed, TornElsewhere
  <1>13. (Reserved \subseteq block_bitmap)'
    BY <1>7 DEF DiskInv
  <1>14. ASSUME node[i].rest = {}, node[i].freed \subseteq cleared,
                lost' = lost \cup (unlinked \ cleared), LossInv
         PROVE  LossInv'
    <2>1. Own(i) = node[i].freed /\ unlinked \subseteq Own(p)
      BY <1>14 DEF Own
    <2>2. \A j \in Claimed' : Own(j)' = (Own(j) \ Own(i)) \ unlinked
      BY <1>3, <1>4, <1>5, <2>1 DEF DiskInv, ClaimedApart
    <2>3. Held' = (Held \ Own(i)) \ unlinked
      BY <1>3, <2>2 DEF Held
    <2>4. unlinked \subseteq block_bitmap /\ unlinked \cap Own(i) = {}
          /\ unlinked \subseteq Held /\ Own(i) \subseteq Held
      <3>1. p \in Sound
        BY NoInodeIsNone, <1>1 DEF Sound
      <3> QED  BY <1>4, <2>1, <3>1 DEF DiskInv, SoundMarked, ClaimedApart, Held
    <2>5. unlinked \cap Reserved = {}
      BY <1>7
    <2> HIDE DEF Held
    <2> QED  BY <1>14, <2>1, <2>3, <2>4, <2>5 DEF LossInv
  <1> QED  BY <1>9, <1>10, <1>11, <1>12, <1>13, <1>14 DEF DiskInv

\* A delete that is not cut keeps it.
LEMMA WholeDeleteDisk ==
    ASSUME DiskInv, torn = NoInode, UNCHANGED <<cuts, torn, lost>>,
           NEW p \in Linked, NEW i \in Linked, Delete(p, i)
    PROVE  DiskInv' /\ (SmallNodes /\ LossInv => LossInv')
  <1>0. TypeOK /\ p \in Inode /\ i \in Inode /\ i \in Claimed
    BY WholeClaims DEF DiskInv, CrashTypeOK
  <1> DEFINE unlinked == Unlinked(p, i)
             cleared  == node[i].freed \cup unlinked
  <1>1. /\ IsDir(p) /\ i \in inode_bitmap /\ i # Root /\ home[i] \in TableBlocks(p)
        /\ IsDir(i) => IsDirectoryEmpty(i)
        /\ block_bitmap' = block_bitmap \ cleared
        /\ inode_bitmap' = inode_bitmap \ {i}
        /\ tables' = [tables EXCEPT ![p] = tables[p] \ unlinked]
        /\ home' = [home EXCEPT ![i] = NoEntry]
        /\ node' = node
    BY DEF Delete
  <1>2. unlinked \subseteq tables[p]
    BY DEF Unlinked
  <1>3. tables[i] = {} /\ p # i
    BY <1>0, <1>1, TakesNoChain DEF DiskInv
  <1>4. CrashTypeOK'
    BY <1>0, <1>1, DeleteTyped DEF DiskInv, CrashTypeOK
  <1>5. cleared \subseteq node[i].freed \cup unlinked /\ node[i].freed \subseteq cleared
        /\ lost' = lost \cup (unlinked \ cleared)
    OBVIOUS
  <1>6. SmallNodes => node[i].rest = {}
    BY <1>0 DEF SmallNodes
  <1> HIDE DEF unlinked, cleared
  <1> QED  BY <1>0, <1>1, <1>2, <1>3, <1>4, <1>5, <1>6, EntryGoes

\* A move_dir that is not cut keeps it.
LEMMA WholeMoveDisk ==
    ASSUME DiskInv, torn = NoInode, UNCHANGED <<cuts, torn, lost>>,
           NEW i \in Linked, NEW p \in Linked, NEW q \in Linked,
           NEW extend \in BOOLEAN, MoveDir(i, p, q, extend)
    PROVE  DiskInv' /\ (LossInv => LossInv')
  <1>0. TypeOK /\ i \in Inode /\ p \in Inode /\ q \in Inode
    BY WholeClaims DEF DiskInv, CrashTypeOK
  <1>1. PICK ext, unlinked \in SUBSET Block, t \in Block :
          MoveEffect(i, p, q, ext, unlinked, t)
    BY <1>0, MoveStep
  <1>2. /\ IsDir(p) /\ IsDir(q) /\ i \in inode_bitmap /\ i # Root
        /\ ext \cap block_bitmap = {}
        /\ t \in ext \cup TableBlocks(q)
        /\ unlinked \subseteq tables[p]
        /\ \A d \in Inode : tables'[d] = (tables[d] \cup IF d = q THEN ext ELSE {}) \
                                           (IF d = p THEN unlinked ELSE {})
        /\ block_bitmap' = (block_bitmap \cup ext) \ unlinked
        /\ inode_bitmap' = inode_bitmap /\ node' = node
        /\ home'[i] = t /\ \A j \in Inode : j # i => home'[j] = home[j]
    BY <1>0, <1>1 DEF MoveEffect, TypeOK
  <1>3. Claimed = Linked /\ Sound = Linked /\ Linked \subseteq Inode
    BY WholeClaims
  <1>4. \A j \in Linked : Own(j) \subseteq block_bitmap \ Reserved
    BY <1>3 DEF DiskInv, SoundMarked, ClaimedInside
  <1>5. t # NoEntry
    <2>1. TableBlocks(q) \subseteq Own(q)
      BY DEF Own, TableBlocks
    <2> QED  BY <1>2, <1>4, <2>1, NoInodeIsNone DEF DiskInv
  <1>6. Linked' = Linked /\ Claimed' = Linked' /\ Sound' = Linked'
    <2>1. Linked' = Linked
      BY <1>0, <1>2, <1>5 DEF Linked, TypeOK
    <2> QED  BY <1>3, <2>1, NoInodeIsNone DEF Claimed, Sound
  <1>7. unlinked \subseteq Own(p)
    BY <1>2 DEF Own
  <1>8. \A j \in Linked :
           Own(j)' = (Own(j) \cup IF j = q THEN ext ELSE {}) \ (IF j = p THEN unlinked ELSE {})
    <2>1. (node[p].freed \cup node[p].rest) \cap unlinked = {}
      BY <1>2, <1>3 DEF DiskInv, ChainsApart
    <2> QED  BY <1>2, <1>3, <2>1 DEF Own
  <1>9. \A j \in Linked : j # p => Own(j)' \cap unlinked = {}
    BY <1>2, <1>3, <1>4, <1>7, <1>8 DEF DiskInv, ClaimedApart
  <1>10. ClaimedApart'
    BY <1>2, <1>3, <1>4, <1>6, <1>8 DEF DiskInv, ClaimedApart
  <1>11. ClaimedInside' /\ SoundMarked' /\ (Reserved \subseteq block_bitmap)'
    BY <1>2, <1>3, <1>4, <1>6, <1>7, <1>8, <1>9 DEF DiskInv, ClaimedInside, SoundMarked
  <1>12. ChainsApart'
    <2>1. node[q].freed \cup node[q].rest \subseteq block_bitmap
      BY <1>4 DEF Own
    <2> QED  BY <1>2, <1>3, <1>6, <2>1 DEF DiskInv, ChainsApart
  <1>13. ChainsOfFolders'
    BY <1>2, <1>3, <1>6 DEF DiskInv, ChainsOfFolders, IsDir
  <1>14. EntriesClaimed' /\ TornElsewhere'
    BY <1>2, <1>3, <1>6 DEF DiskInv, EntriesClaimed, TornElsewhere
  <1>15. CrashTypeOK'
    BY <1>0, <1>2, MoveTyped DEF DiskInv, CrashTypeOK
  <1>16. ASSUME LossInv PROVE LossInv'
    <2>1. \A j \in Linked : Own(j)' = (Own(j) \cup IF j = q THEN ext ELSE {}) \ unlinked
      BY <1>2, <1>8, <1>9
    <2>2. Held' = (Held \cup ext) \ unlinked
      BY <1>2, <1>3, <1>6, <2>1 DEF Held
    <2>3. unlinked \subseteq Held /\ ext \cap Reserved = {} /\ lost' = lost
      BY <1>2, <1>3, <1>7 DEF DiskInv, Held
    <2> QED  BY <1>2, <1>16, <2>2, <2>3 DEF LossInv
  <1> QED  BY <1>10, <1>11, <1>12, <1>13, <1>14, <1>15, <1>16 DEF DiskInv

(***************************************************************************)
(* Operations that are cut, and the delete that is given again.            *)
(***************************************************************************)

\* A write that is cut keeps it: what it marked is linked to nothing.
LEMMA CutWriteDisk ==
    ASSUME DiskInv, torn = NoInode, torn' = torn, cuts' = cuts + 1,
           NEW p \in Inode, NEW n \in Nat, CutWrite(p, n)
    PROVE  DiskInv' /\ (LossInv => LossInv')
  <1>0. TypeOK
    BY DEF DiskInv, CrashTypeOK
  <1>1. PICK i \in Inode \ inode_bitmap, marked, counted \in SUBSET Block, c \in 0 .. 1 :
          /\ FirstFreeInode(i)
          /\ inode_bitmap' = inode_bitmap \cup {i}
          /\ free_inodes_count' = [free_inodes_count EXCEPT ![i[1]] = free_inodes_count[i[1]] - c]
          /\ block_bitmap' = block_bitmap \cup marked /\ marked \cap block_bitmap = {}
          /\ free_blocks_count' = Debit(free_blocks_count, counted)
          /\ lost' = lost \cup marked
          /\ UNCHANGED <<used_dirs_count, node, tables, home>>
    <2> DEFINE D(i) == DataBlocks(block_bitmap, free_blocks_count, i[1], n)
               P(i) == PtrBlocks(block_bitmap \cup D(i), Debit(free_blocks_count, D(i)), n)
    <2>1. \A i : Searched(D(i), P(i), i[1]) \subseteq SUBSET (Block \ block_bitmap)
      <3>1. \A i : D(i) \in SUBSET (Block \ block_bitmap)
        BY SearchFindsFree DEF DataBlocks
      <3>2. \A i : P(i) \in SUBSET (Block \ block_bitmap)
        <4> HIDE DEF D
        <4> QED  BY SearchFindsFree DEF PtrBlocks
      <3> HIDE DEF D, P
      <3> QED  BY <3>1, <3>2 DEF Searched, Take
    <2>2. PICK i \in Inode \ inode_bitmap :
            /\ FirstFreeInode(i)
            /\ inode_bitmap' = inode_bitmap \cup {i}
            /\ \E data \in {D(i)} :
               \E ptrs \in {PtrBlocks(block_bitmap \cup data, Debit(free_blocks_count, data), n)} :
               \E marked, counted \in Searched(data, ptrs, i[1]), c \in 0 .. 1 :
                 /\ Cardinality(data \cup ptrs) = n + PointerBlocks(n)
                 /\ CountsLag(counted, marked, Searched(data, ptrs, i[1]))
                 /\ c = 0 => marked = {}
                 /\ free_inodes_count' = [free_inodes_count EXCEPT ![i[1]] = @ - c]
                 /\ block_bitmap' = block_bitmap \cup marked
                 /\ free_blocks_count' = Debit(free_blocks_count, counted)
                 /\ lost' = lost \cup marked
      BY DEF CutWrite
    <2>3. UNCHANGED <<used_dirs_count, node, tables, home>>
      BY DEF CutWrite
    <2> HIDE DEF D
    <2>4. \E marked, counted \in Searched(D(i), P(i), i[1]), c \in 0 .. 1 :
                 /\ free_inodes_count' = [free_inodes_count EXCEPT ![i[1]] = @ - c]
                 /\ block_bitmap' = block_bitmap \cup marked
                 /\ free_blocks_count' = Debit(free_blocks_count, counted)
                 /\ lost' = lost \cup marked
      BY <2>2
    <2> HIDE DEF P
    <2> QED  BY <2>1, <2>2, <2>3, <2>4
  <1>2. i[1] \in Group /\ i # Root
    BY <1>0, NodeFields DEF DiskInv, CrashTypeOK
  <1>3. Linked' = Linked
    <2>1. home[i] = NoEntry
      BY <1>1, WholeClaims DEF DiskInv, EntriesClaimed
    <2> QED  BY <1>1, <1>2, <2>1 DEF Linked
  <1>4. Claimed' = Claimed /\ Sound' = Sound
    BY <1>3 DEF Claimed, Sound
  <1>5. \A j \in Inode : Own(j)' = Own(j)
    BY <1>1 DEF Own
  <1>6. free_inodes_count' \in [Group -> Counter]
    <2>1. free_inodes_count[i[1]] \in Counter /\ free_inodes_count[i[1]] > 0
      BY <1>0, <1>1, <1>2 DEF FirstFreeInode, TypeOK
    <2>2. free_inodes_count[i[1]] - c \in Counter
      BY <1>1, <2>1, GeometryAssumption DEF Counter
    <2> QED  BY <1>0, <1>1, <1>2, <2>2 DEF TypeOK
  <1>7. free_blocks_count' \in [Group -> Counter]
    BY <1>0, <1>1, CountersTyped DEF TypeOK
  <1>8. CrashTypeOK'
    BY <1>1, <1>6, <1>7 DEF DiskInv, CrashTypeOK, TypeOK
  <1>9. Claimed \subseteq Inode /\ Sound \subseteq Inode
    BY <1>0 DEF Claimed, Sound, Linked, TypeOK
  <1>10. ClaimedApart' /\ ClaimedInside' /\ SoundMarked' /\ (Reserved \subseteq block_bitmap)'
    BY <1>1, <1>4, <1>5, <1>9 DEF DiskInv, ClaimedApart, ClaimedInside, SoundMarked
  <1>11. ChainsApart' /\ ChainsOfFolders' /\ EntriesClaimed' /\ TornElsewhere'
    BY <1>1, <1>4 DEF DiskInv, ChainsApart, ChainsOfFolders, EntriesClaimed, TornElsewhere, IsDir
  <1>12. ASSUME LossInv PROVE LossInv'
    <2>1. Held' = Held
      BY <1>4, <1>5, <1>9 DEF Held
    <2>2. Held \subseteq block_bitmap
      BY WholeClaims DEF DiskInv, SoundMarked, Held
    <2>3. marked \cap Reserved = {}
      BY <1>1 DEF DiskInv
    <2> QED  BY <1>1, <1>12, <2>1, <2>2, <2>3 DEF LossInv
  <1> QED  BY <1>8, <1>10, <1>11, <1>12 DEF DiskInv

\* The counters after a delete, whatever the disk said before.
LEMMA CreditedTyped ==
    ASSUME TypeOK, NEW i \in Inode
    PROVE  /\ [g \in Group |-> (Credit(free_blocks_count, node[i].freed)[g] + node[i].again[g]) % COUNT_MOD]
                 \in [Group -> Counter]
           /\ \A c \in 0 .. 1 :
                 /\ [free_inodes_count EXCEPT ![i[1]] = (@ + c) % COUNT_MOD] \in [Group -> Counter]
                 /\ [used_dirs_count EXCEPT ![i[1]] = (@ - c) % COUNT_MOD] \in [Group -> Counter]
  <1> DEFINE credited == Credit(free_blocks_count, node[i].freed)
  <1>1. i[1] \in Group /\ COUNT_MOD \in Nat \ {0} /\ node[i].again \in [Group -> Nat]
    BY NodeFields, GeometryAssumption
  <1>2. credited \in [Group -> Counter]
    BY CountersTyped, NodeFields DEF TypeOK
  <1> HIDE DEF credited
  <1>3. \A g \in Group : credited[g] + node[i].again[g] \in Int
    BY <1>1, <1>2, GeometryAssumption DEF Counter
  <1>4. \A g \in Group : (credited[g] + node[i].again[g]) % COUNT_MOD \in Counter
    BY <1>1, <1>3, ModRange DEF Counter
  <1>5. \A x \in Counter, c \in 0 .. 1 :
           (x + c) % COUNT_MOD \in Counter /\ (x - c) % COUNT_MOD \in Counter
    BY <1>1, ModRange DEF Counter
  <1> QED  BY <1>1, <1>4, <1>5 DEF TypeOK, credited

\* The counters after deallocate_blocks of inode i, and when c of its inode is counted.
Credited(i) ==
    [g \in Group |-> (Credit(free_blocks_count, node[i].freed)[g] + node[i].again[g]) % COUNT_MOD]
InodesCredited(i, c) == [free_inodes_count EXCEPT ![i[1]] = (free_inodes_count[i[1]] + c) % COUNT_MOD]
DirsDebited(i, c)    == [used_dirs_count EXCEPT ![i[1]] = (used_dirs_count[i[1]] - c) % COUNT_MOD]

\* What a delete that is cut leaves, with the entry of i still there or gone.
CutDeleteEffect(p, i) ==
    \/ \* the entry is still there
       /\ torn' = i /\ tables' = tables /\ home' = home /\ lost' = lost
       /\ \E S \in SUBSET node[i].freed : block_bitmap' = block_bitmap \ S
       /\ inode_bitmap' \in {inode_bitmap, inode_bitmap \ {i}}
       /\ free_blocks_count' \in {free_blocks_count, Credited(i)}
       /\ free_inodes_count' \in {free_inodes_count, InodesCredited(i, 0), InodesCredited(i, 1)}
       /\ used_dirs_count' \in {used_dirs_count, DirsDebited(i, 0), DirsDebited(i, 1)}
    \/ \* it is gone
       /\ torn' = NoInode
       /\ tables' = [tables EXCEPT ![p] = tables[p] \ Unlinked(p, i)]
       /\ home' = [home EXCEPT ![i] = NoEntry]
       /\ lost' \in {lost, lost \cup Unlinked(p, i)}
       /\ \E S \in SUBSET (node[i].freed \cup Unlinked(p, i)) :
             /\ block_bitmap' = block_bitmap \ S /\ node[i].freed \subseteq S
             /\ lost' = lost \cup (Unlinked(p, i) \ S)
       /\ inode_bitmap' = inode_bitmap \ {i}
       /\ free_blocks_count' = Credited(i)
       /\ free_inodes_count' = InodesCredited(i, 1)
       /\ used_dirs_count' \in {used_dirs_count, DirsDebited(i, 1)}

\* What a delete that is cut leaves, wherever the cut was.
LEMMA CutDeleteLeaves ==
    ASSUME DiskInv, torn = NoInode, NEW p \in Inode, NEW i \in Inode, CutDelete(p, i)
    PROVE  CutDeleteEffect(p, i)
  <1>1. /\ p \in Claimed /\ i \in Claimed /\ p # i
        /\ Unlinked(p, i) \subseteq tables[p]
    <2>1. /\ p \in Linked /\ i \in Linked /\ IsDir(p) /\ i # Root /\ home[i] \in TableBlocks(p)
          /\ IsDir(i) => IsDirectoryEmpty(i)
      BY DEF CutDelete
    <2>2. i \in inode_bitmap /\ i \in Claimed /\ p \in Claimed
      BY <2>1, WholeClaims
    <2> QED  BY <2>1, <2>2, TakesNoChain DEF DiskInv, Unlinked
  <1>2. Unlinked(p, i) \cap node[i].freed = {}
    BY <1>1 DEF DiskInv, ClaimedApart, Own
  <1> DEFINE unlinked == Unlinked(p, i)
             credited == Credited(i)
             more(c)  == InodesCredited(i, c)
             less(c)  == DirsDebited(i, c)
  <1> DEFINE FreedAll   == block_bitmap' = block_bitmap \ node[i].freed /\ free_blocks_count' = credited
             Cleared(c) == /\ inode_bitmap' = inode_bitmap \ {i}
                           /\ free_inodes_count' = more(c)
                           /\ used_dirs_count' = IF IsDir(i) THEN less(c) ELSE used_dirs_count
             Unlinks    == /\ tables' = [tables EXCEPT ![p] = tables[p] \ unlinked]
                           /\ home' = [home EXCEPT ![i] = NoEntry]
                           /\ torn' = NoInode
  <1>3. \/ /\ \E S \in {node[i].freed \cap BlocksOf(i[1]), node[i].freed} :
                 block_bitmap' = block_bitmap \ S /\ UNCHANGED free_blocks_count
           /\ torn' = i
           /\ UNCHANGED <<inode_bitmap, free_inodes_count, used_dirs_count, tables, home, lost>>
        \/ /\ FreedAll /\ torn' = i
           /\ UNCHANGED <<inode_bitmap, free_inodes_count, used_dirs_count, tables, home, lost>>
        \/ /\ FreedAll /\ (\E c \in 0 .. 1 : Cleared(c)) /\ torn' = i
           /\ UNCHANGED <<tables, home, lost>>
        \/ FreedAll /\ Cleared(1) /\ Unlinks /\ lost' = lost \cup unlinked
        \/ /\ block_bitmap' = (block_bitmap \ node[i].freed) \ unlinked
           /\ free_blocks_count' = credited /\ Cleared(1) /\ Unlinks
           /\ UNCHANGED lost
    BY DEF CutDelete, Credited, InodesCredited, DirsDebited
  <1> HIDE DEF unlinked, credited, more, less
  <1>4. CASE /\ \E S \in {node[i].freed \cap BlocksOf(i[1]), node[i].freed} :
                   block_bitmap' = block_bitmap \ S /\ UNCHANGED free_blocks_count
             /\ torn' = i
             /\ UNCHANGED <<inode_bitmap, free_inodes_count, used_dirs_count, tables, home, lost>>
    BY <1>4 DEF CutDeleteEffect, unlinked, credited, more, less
  <1>5. CASE /\ FreedAll /\ torn' = i
             /\ UNCHANGED <<inode_bitmap, free_inodes_count, used_dirs_count, tables, home, lost>>
    BY <1>5 DEF CutDeleteEffect, unlinked, credited, more, less
  <1>6. CASE /\ FreedAll /\ (\E c \in 0 .. 1 : Cleared(c)) /\ torn' = i
             /\ UNCHANGED <<tables, home, lost>>
    <2>1. PICK c \in 0 .. 1 : Cleared(c)
      BY <1>6
    <2>2. c = 0 \/ c = 1
      BY <2>1
    <2>3. free_inodes_count' \in {more(0), more(1)} /\ used_dirs_count' \in {used_dirs_count, less(0), less(1)}
      BY <2>1, <2>2
    <2> QED  BY <1>6, <2>1, <2>3 DEF CutDeleteEffect, unlinked, credited, more, less
  <1>7. CASE FreedAll /\ Cleared(1) /\ Unlinks /\ lost' = lost \cup unlinked
    <2>1. unlinked \ node[i].freed = unlinked
      BY <1>2 DEF unlinked
    <2> QED  BY <1>7, <2>1 DEF CutDeleteEffect, unlinked, credited, more, less
  <1>8. CASE /\ block_bitmap' = (block_bitmap \ node[i].freed) \ unlinked
             /\ free_blocks_count' = credited /\ Cleared(1) /\ Unlinks
             /\ UNCHANGED lost
    <2>1. /\ block_bitmap' = block_bitmap \ (node[i].freed \cup unlinked)
          /\ lost' = lost \cup (unlinked \ (node[i].freed \cup unlinked))
      BY <1>8
    <2> QED  BY <1>8, <2>1 DEF CutDeleteEffect, unlinked, credited, more, less
  <1> QED  BY <1>3, <1>4, <1>5, <1>6, <1>7, <1>8

\* A delete that is cut keeps it: the torn inode's blocks are still apart.
LEMMA CutDeleteDisk ==
    ASSUME DiskInv, torn = NoInode, cuts' = cuts + 1,
           NEW p \in Inode, NEW i \in Inode, CutDelete(p, i)
    PROVE  DiskInv' /\ (SmallNodes /\ LossInv => LossInv')
  <1>0. TypeOK
    BY DEF DiskInv, CrashTypeOK
  <1> DEFINE unlinked == Unlinked(p, i)
             credited == [g \in Group |->
                            (Credit(free_blocks_count, node[i].freed)[g] + node[i].again[g]) % COUNT_MOD]
             more(c)  == [free_inodes_count EXCEPT ![i[1]] = (@ + c) % COUNT_MOD]
             less(c)  == [used_dirs_count EXCEPT ![i[1]] = (@ - c) % COUNT_MOD]
  <1>1. /\ p \in Linked /\ i \in Linked /\ IsDir(p) /\ i # Root /\ home[i] \in TableBlocks(p)
        /\ IsDir(i) => IsDirectoryEmpty(i)
        /\ node' = node
    BY DEF CutDelete
  <1>2. i \in inode_bitmap /\ i \in Claimed /\ p \in Claimed
    BY <1>1, WholeClaims
  <1>3. tables[i] = {} /\ p # i /\ unlinked \subseteq tables[p] /\ unlinked \in SUBSET Block
    <2>1. tables[i] = {} /\ p # i
      BY <1>1, <1>2, TakesNoChain DEF DiskInv
    <2> QED  BY <1>0, <2>1, NodeFields DEF Unlinked
  <1>4. home[i] \notin Own(i)
    <2>1. home[i] \in Own(p)
      BY <1>1 DEF Own, TableBlocks
    <2> QED  BY <1>2, <1>3, <2>1 DEF DiskInv, ClaimedApart
  <1>5. /\ credited \in [Group -> Counter]
        /\ \A c \in 0 .. 1 : more(c) \in [Group -> Counter] /\ less(c) \in [Group -> Counter]
    BY <1>0, CreditedTyped
  <1>6. \/ \* the entry is still there
           /\ torn' = i /\ tables' = tables /\ home' = home /\ lost' = lost
           /\ \E S \in SUBSET node[i].freed : block_bitmap' = block_bitmap \ S
           /\ inode_bitmap' \in {inode_bitmap, inode_bitmap \ {i}}
           /\ free_blocks_count' \in {free_blocks_count, credited}
           /\ free_inodes_count' \in {free_inodes_count, more(0), more(1)}
           /\ used_dirs_count' \in {used_dirs_count, less(0), less(1)}
        \/ \* it is gone
           /\ torn' = NoInode
           /\ tables' = [tables EXCEPT ![p] = tables[p] \ unlinked]
           /\ home' = [home EXCEPT ![i] = NoEntry]
           /\ lost' \in {lost, lost \cup unlinked}
           /\ \E S \in SUBSET (node[i].freed \cup unlinked) :
                 /\ block_bitmap' = block_bitmap \ S /\ node[i].freed \subseteq S
                 /\ lost' = lost \cup (unlinked \ S)
           /\ inode_bitmap' = inode_bitmap \ {i}
           /\ free_blocks_count' = credited
           /\ free_inodes_count' = more(1)
           /\ used_dirs_count' \in {used_dirs_count, less(1)}
    BY CutDeleteLeaves DEF CutDeleteEffect, Credited, InodesCredited, DirsDebited
  <1>7. CrashTypeOK'
    <2> HIDE DEF unlinked, credited, more, less
    <2>1. /\ free_blocks_count' \in [Group -> Counter]
          /\ free_inodes_count' \in [Group -> Counter]
          /\ used_dirs_count' \in [Group -> Counter]
      BY <1>0, <1>5, <1>6 DEF TypeOK
    <2>2. block_bitmap' \in SUBSET Block /\ inode_bitmap' \in SUBSET Inode /\ Root \in inode_bitmap'
      BY <1>1, <1>6 DEF DiskInv, CrashTypeOK, TypeOK
    <2>3. tables' \in [Inode -> SUBSET Block] /\ home' \in [Inode -> Block] /\ node' \in [Inode -> NodeType]
      BY <1>0, <1>1, <1>6, NoInodeIsNone DEF TypeOK, Reserved
    <2>4. torn' \in Inode \cup {NoInode} /\ torn' # Root /\ lost' \in SUBSET Block /\ cuts' \in Nat
      BY <1>1, <1>3, <1>6, NoInodeIsNone DEF DiskInv, CrashTypeOK
    <2> QED  BY <2>1, <2>2, <2>3, <2>4 DEF CrashTypeOK, TypeOK
  <1>8. CASE torn' = i
    <2>1. /\ tables' = tables /\ home' = home
          /\ inode_bitmap' \in {inode_bitmap, inode_bitmap \ {i}}
      BY <1>6, <1>8, NoInodeIsNone
    <2>2. PICK S \in SUBSET node[i].freed : block_bitmap' = block_bitmap \ S
      BY <1>6, <1>8, NoInodeIsNone
    <2>3. Linked = Claimed /\ Sound = Linked /\ Linked \subseteq Inode
      BY WholeClaims
    <2>4. Claimed' = Claimed /\ Sound' = Sound \ {i}
      <3>1. Linked' \cup {i} = Linked
        BY <1>1, <2>1 DEF Linked
      <3> QED  BY <1>8, <2>3, <3>1 DEF Claimed, Sound
    <2>5. \A j \in Inode : Own(j)' = Own(j)
      BY <1>1, <2>1 DEF Own
    <2>6. S \subseteq Own(i)
      BY DEF Own
    <2>7. ClaimedApart' /\ ClaimedInside'
      BY <2>3, <2>4, <2>5 DEF DiskInv, ClaimedApart, ClaimedInside
    <2>8. SoundMarked' /\ (Reserved \subseteq block_bitmap)'
      BY <1>2, <2>2, <2>3, <2>4, <2>5, <2>6 DEF DiskInv, ClaimedApart, ClaimedInside, SoundMarked
    <2>9. ChainsApart' /\ ChainsOfFolders' /\ EntriesClaimed'
      BY <1>1, <1>3, <2>1, <2>3, <2>4 DEF DiskInv, ChainsApart, ChainsOfFolders, EntriesClaimed, IsDir
    <2>10. TornElsewhere'
      BY <1>4, <1>8, <2>1, <2>5 DEF TornElsewhere
    <2>11. LossInv => LossInv'
      <3>1. Held' = Held /\ S \subseteq Held /\ lost' = lost
        BY <1>2, <1>6, <1>8, <2>3, <2>4, <2>5, <2>6, NoInodeIsNone DEF Held
      <3> QED  BY <2>2, <3>1 DEF LossInv
    <2> QED  BY <1>7, <2>7, <2>8, <2>9, <2>10, <2>11 DEF DiskInv
  <1>9. CASE torn' # i
    <2>1. /\ torn' = NoInode
          /\ tables' = [tables EXCEPT ![p] = tables[p] \ unlinked]
          /\ home' = [home EXCEPT ![i] = NoEntry]
          /\ inode_bitmap' = inode_bitmap \ {i}
      BY <1>6, <1>9
    <2>2. PICK S \in SUBSET (node[i].freed \cup unlinked) :
            /\ block_bitmap' = block_bitmap \ S /\ node[i].freed \subseteq S
            /\ lost' = lost \cup (unlinked \ S)
      BY <1>6, <1>9
    <2> HIDE DEF unlinked
    <2>3. unlinked \subseteq tables[p] /\ S \subseteq node[i].freed \cup unlinked /\ torn \in {NoInode, i}
      BY <1>3, <2>2
    <2>4. SmallNodes => node[i].rest = {}
      BY DEF SmallNodes
    <2> QED  BY <1>1, <1>2, <1>3, <1>7, <2>1, <2>2, <2>3, <2>4, EntryGoes
  <1> QED  BY <1>8, <1>9

\* The delete given again keeps it: it clears what nobody can have got since.
LEMMA RedoDisk ==
    ASSUME DiskInv, NEW p \in Inode, Redo(p)
    PROVE  DiskInv' /\ (SmallNodes /\ LossInv => LossInv')
  <1>0. TypeOK /\ torn \in Inode
    BY DEF DiskInv, CrashTypeOK, Redo
  <1> DEFINE i        == torn
             unlinked == {t \in tables[p] : HeldIn(t, i) = {i}}
             cleared  == node[i].freed \cup unlinked
             credited == Credit(free_blocks_count, node[i].freed)
             again    == [g \in Group |-> (credited[g] + node[i].again[g]) % COUNT_MOD]
  <1>1. /\ torn # NoInode /\ p \in Linked /\ home[i] \in TableBlocks(p)
        /\ block_bitmap' = block_bitmap \ cleared
        /\ free_blocks_count' = Credit(again, unlinked)
        /\ inode_bitmap' = inode_bitmap \ {i}
        /\ free_inodes_count' = [free_inodes_count EXCEPT ![i[1]] = (@ + 1) % COUNT_MOD]
        /\ used_dirs_count' = IF IsDir(i)
              THEN [used_dirs_count EXCEPT ![i[1]] = (@ - 1) % COUNT_MOD] ELSE used_dirs_count
        /\ tables' = [tables EXCEPT ![p] = tables[p] \ unlinked]
        /\ home' = [home EXCEPT ![i] = NoEntry]
        /\ torn' = NoInode
        /\ UNCHANGED <<node, cuts, lost>>
    BY DEF Redo
  <1>2. unlinked \subseteq tables[p] /\ unlinked \in SUBSET Block
    BY <1>0, NodeFields
  <1>3. i \in Claimed /\ i # Root /\ tables[i] = {} /\ p # i
    <2>1. i \in Claimed /\ i # Root /\ tables[i] = {}
      BY <1>0 DEF DiskInv, CrashTypeOK, ChainsOfFolders, Claimed, Sound
    <2>2. home[i] \notin Own(i)
      BY <1>1 DEF DiskInv, TornElsewhere
    <2> QED  BY <1>1, <2>1, <2>2 DEF Own, TableBlocks
  <1>4. CrashTypeOK'
    <2>1. /\ again \in [Group -> Counter]
          /\ free_inodes_count' \in [Group -> Counter]
          /\ used_dirs_count' \in [Group -> Counter]
      BY <1>0, <1>1, CreditedTyped DEF TypeOK
    <2> HIDE DEF unlinked, again
    <2>2. free_blocks_count' \in [Group -> Counter]
      BY <1>1, <1>2, <2>1, CountersTyped
    <2>3. block_bitmap' \in SUBSET Block /\ inode_bitmap' \in SUBSET Inode /\ Root \in inode_bitmap'
      BY <1>1, <1>3 DEF DiskInv, CrashTypeOK, TypeOK
    <2>4. tables' \in [Inode -> SUBSET Block] /\ home' \in [Inode -> Block] /\ node' \in [Inode -> NodeType]
      BY <1>0, <1>1, NoInodeIsNone DEF TypeOK, Reserved
    <2> QED  BY <1>1, <2>1, <2>2, <2>3, <2>4, NoInodeIsNone DEF DiskInv, CrashTypeOK, TypeOK
  <1>5. /\ cleared \subseteq node[i].freed \cup unlinked /\ torn \in {NoInode, i}
        /\ node[i].freed \subseteq cleared /\ lost' = lost \cup (unlinked \ cleared)
    BY <1>1
  <1>6. SmallNodes => node[i].rest = {}
    BY <1>0 DEF SmallNodes
  <1> HIDE DEF unlinked, cleared
  <1> QED  BY <1>1, <1>2, <1>3, <1>4, <1>5, <1>6, EntryGoes

\* Every step of a machine that may be switched off keeps it.
LEMMA DiskInductive ==
    DiskInv /\ [CrashNext]_crashVars => DiskInv' /\ (SmallNodes /\ LossInv => LossInv')
  <1> DEFINE Kept == DiskInv' /\ (SmallNodes /\ LossInv => LossInv')
  <1> SUFFICES ASSUME DiskInv, [CrashNext]_crashVars PROVE Kept
    OBVIOUS
  <1>1. CASE Whole
    <2>1. torn = NoInode /\ UNCHANGED <<cuts, torn, lost>>
      BY <1>1 DEF Whole
    <2>2. ASSUME NEW p \in Linked, NEW extend \in BOOLEAN, NodeAvailable, MakeFolder(p, extend)
          PROVE  Kept
      BY <2>1, <2>2, WholeWriteDisk DEF MakeFolder
    <2>3. ASSUME NEW p \in Linked, NEW n \in 1 .. MaxFileBlocks, NEW extend \in BOOLEAN,
                 NodeAvailable, WriteFile(p, n, extend)
          PROVE  Kept
      <3>1. n \in Nat
        BY GeometryAssumption
      <3> QED  BY <2>1, <2>3, <3>1, WholeWriteDisk DEF WriteFile
    <2>4. ASSUME NEW p \in Linked, NEW i \in Linked, Delete(p, i) PROVE Kept
      BY <2>1, <2>4, WholeDeleteDisk
    <2>5. ASSUME NEW i \in Linked, NEW p \in Linked, NEW q \in Linked, NEW extend \in BOOLEAN,
                 MoveDir(i, p, q, extend)
          PROVE  Kept
      BY <2>1, <2>5, WholeMoveDisk
    <2> QED  BY <1>1, <2>2, <2>3, <2>4, <2>5 DEF Whole
  <1>2. CASE Cut
    <2>1. torn = NoInode /\ cuts' = cuts + 1
      BY <1>2 DEF Cut
    <2>2. ASSUME NEW p \in Inode, NEW n \in 1 .. MaxFileBlocks, CutWrite(p, n), torn' = torn
          PROVE  Kept
      <3>1. n \in Nat
        BY GeometryAssumption
      <3> QED  BY <2>1, <2>2, <3>1, CutWriteDisk
    <2>3. ASSUME NEW p \in Inode, NEW i \in Inode, CutDelete(p, i) PROVE Kept
      BY <2>1, <2>3, CutDeleteDisk
    <2> QED  BY <1>2, <2>2, <2>3 DEF Cut
  <1>3. ASSUME NEW p \in Inode, Redo(p) PROVE Kept
    BY <1>3, RedoDisk
  <1>4. CASE UNCHANGED crashVars
    BY <1>4 DEF crashVars, vars, LossInv, Held, DiskInv, CrashTypeOK, TypeOK, ClaimedApart, ClaimedInside, SoundMarked,
                ChainsApart, ChainsOfFolders, EntriesClaimed, TornElsewhere, Claimed, Sound, Linked,
                Own, IsDir
  <1> QED  BY <1>1, <1>2, <1>3, <1>4 DEF CrashNext

\* It holds of every disk such a machine leaves.
LEMMA DiskAlways == CrashSpec => []DiskInv
  BY InitDisk, DiskInductive, PTL DEF CrashSpec

\* Wherever the machine is switched off, and however often, the files and directories
\* that paths lead to never come to share a block.
THEOREM LinkedStaysApart == CrashSpec => []LinkedApart
  <1>1. DiskInv => LinkedApart
    BY DEF DiskInv, CrashTypeOK, TypeOK, ClaimedApart, LinkedApart, Claimed, Sound, Linked
  <1> QED  BY <1>1, DiskAlways, PTL

\* A cut never leaves a block of a linked file or directory unmarked, nor does the
\* delete that is given again clear one; what create_ext2 reserves stays reserved.
THEOREM LinkedStaysMarked == CrashSpec => []LinkedMarked
  <1>1. DiskInv => LinkedMarked
    BY DEF DiskInv, CrashTypeOK, TypeOK, ClaimedInside, SoundMarked, LinkedMarked, Claimed, Sound, Linked
  <1> QED  BY <1>1, DiskAlways, PTL

(***************************************************************************)
(* What is lost, as long as no file needs a pointer block.                 *)
(***************************************************************************)

\* Without larger files, every node has direct blocks alone.
LEMMA SmallAlways == ASSUME MaxFileBlocks <= NDIRECT PROVE CrashSpec => []SmallNodes
  <1>1. CrashInit => SmallNodes
    BY FormattedIsReserved, InitSmall DEF CrashInit
  <1>2. DiskInv /\ SmallNodes /\ [CrashNext]_crashVars => SmallNodes'
    <2> SUFFICES ASSUME DiskInv, SmallNodes, [CrashNext]_crashVars PROVE SmallNodes'
      OBVIOUS
    <2>1. TypeOK /\ Linked \subseteq Inode
      BY DEF DiskInv, CrashTypeOK, TypeOK, Linked
    <2>2. ASSUME NEW p \in Linked, NEW mode \in {"IFDIR", "IFREG"}, NEW n \in Nat, n <= NDIRECT,
                 NEW extend \in BOOLEAN, Write(p, mode, n, extend)
          PROVE  SmallNodes'
      BY <2>1, <2>2, WriteSmall
    <2>3. CASE Whole
      <3>1. 1 \in Nat /\ 1 <= NDIRECT /\ \A n \in 1 .. MaxFileBlocks : n \in Nat /\ n <= NDIRECT
        BY BlockMapAssumption, GeometryAssumption
      <3>2. ASSUME NEW p \in Linked, NEW extend \in BOOLEAN, MakeFolder(p, extend) PROVE SmallNodes'
        BY <2>2, <3>1, <3>2 DEF MakeFolder
      <3>3. ASSUME NEW p \in Linked, NEW n \in 1 .. MaxFileBlocks, NEW extend \in BOOLEAN,
                   WriteFile(p, n, extend)
            PROVE  SmallNodes'
        BY <2>2, <3>1, <3>3 DEF WriteFile
      <3>4. ASSUME NEW p, NEW i, Delete(p, i) PROVE SmallNodes'
        BY <3>4 DEF Delete, SmallNodes
      <3>5. ASSUME NEW i, NEW p, NEW q, NEW extend, MoveDir(i, p, q, extend) PROVE SmallNodes'
        BY <3>5 DEF MoveDir, SmallNodes
      <3> QED  BY <2>3, <3>2, <3>3, <3>4, <3>5 DEF Whole
    <2>4. CASE Cut
      BY <2>4 DEF Cut, CutWrite, CutDelete, SmallNodes
    <2>5. ASSUME NEW p, Redo(p) PROVE SmallNodes'
      BY <2>5 DEF Redo, SmallNodes
    <2>6. CASE UNCHANGED crashVars
      BY <2>6 DEF crashVars, vars, SmallNodes
    <2> QED  BY <2>3, <2>4, <2>5, <2>6 DEF CrashNext
  <1> QED  BY <1>1, <1>2, DiskAlways, PTL DEF CrashSpec

\* A block that is marked and that nobody has was marked by a write that was cut, or
\* held a directory's table when its last entry went in a delete that was cut, if no
\* file needs a pointer block.
THEOREM NothingElseIsLost ==
    ASSUME MaxFileBlocks <= NDIRECT PROVE CrashSpec => []OnlyCutsLose
  <1>1. CrashInit => LossInv
    <2> SUFFICES ASSUME CrashInit PROVE LossInv
      OBVIOUS
    <2>1. Init /\ torn = NoInode /\ lost = {}
      BY FormattedIsReserved DEF CrashInit, Init
    <2>2. DiskInv /\ StorageInv
      BY <2>1, InitDisk, InitStorage
    <2> DEFINE table == SearchBlocks(Reserved, [g \in Group |-> BLOCKS_PER_GROUP - ReservedCount(g)], 0, 1)
    <2>3. /\ block_bitmap = Reserved \cup table /\ inode_bitmap = {Root}
          /\ node[Root] = NewNode("IFDIR", table, {}, 0, 1)
      BY <2>1, NoInodeIsNone DEF Init, InitFrom
    <2>4. table \subseteq Block \ Reserved
      BY SearchFindsFree
    <2> HIDE DEF table
    <2>5. node[Root].freed \cup node[Root].rest = table
      <3>1. 0 \in Group /\ 1 \in Nat /\ {} \in SUBSET Block /\ table \in SUBSET Block
        BY <2>4, GeometryAssumption DEF Group
      <3> QED  BY <2>3, <3>1, NewNodeTyped
    <2>6. Root \in Claimed
      BY <2>3, NoInodeIsNone DEF Claimed, Linked
    <2> QED  BY <2>1, <2>3, <2>5, <2>6 DEF LossInv, Held, Own
  <1>2. DiskInv /\ LossInv => OnlyCutsLose
    <2> SUFFICES ASSUME DiskInv, LossInv, torn = NoInode
                 PROVE  block_bitmap \ Reserved = lost \cup Held /\ Claimed = Linked
      BY DEF OnlyCutsLose, Held
    <2>1. Held \subseteq block_bitmap \ Reserved
      BY WholeClaims DEF DiskInv, SoundMarked, ClaimedInside, Held
    <2> QED  BY <2>1, WholeClaims DEF LossInv
  <1> QED  BY <1>1, <1>2, SmallAlways, DiskInductive, DiskAlways, PTL DEF CrashSpec


(***************************************************************************)
(* The counters, as long as no file needs a pointer block.  A cut can      *)
(* leave a counter too high, by what one operation takes or gives; that    *)
(* none of them wraps bounds how often the machine may be cut off.  While  *)
(* a delete is torn, the counters are compared with the disk on which its  *)
(* blocks and its inode are free and counted.                              *)
(***************************************************************************)

InGroup(S, g) == Cardinality(S \cap BlocksOf(g))
Nodes(S, g)   == Cardinality(S \cap InodesOf(g))

\* How the blocks of a set that lie in a group are counted.
LEMMA GroupCounts ==
    ASSUME NEW g \in Group, NEW S \in SUBSET Block, NEW T \in SUBSET Block
    PROVE  /\ InGroup(S, g) \in Nat /\ InGroup(S, g) <= Cardinality(S)
           /\ InGroup(S, g) <= BLOCKS_PER_GROUP
           /\ InGroup({}, g) = 0
           /\ S \subseteq T => InGroup(S, g) <= InGroup(T, g)
           /\ S \cap T = {} => InGroup(S \cup T, g) = InGroup(S, g) + InGroup(T, g)
           /\ S \subseteq T => InGroup(T \ S, g) = InGroup(T, g) - InGroup(S, g)
  <1> DEFINE s == S \cap BlocksOf(g)
             t == T \cap BlocksOf(g)
             K == 0 .. BLOCKS_PER_GROUP - 1
             f == [b \in BlocksOf(g) |-> b[2]]
  <1>1. /\ IsFiniteSet(s) /\ IsFiniteSet(t) /\ IsFiniteSet(S)
        /\ Cardinality(s) \in Nat /\ Cardinality(t) \in Nat
    BY BlockFinite
  <1>2. Cardinality(BlocksOf(g)) <= BLOCKS_PER_GROUP
    <2>1. f \in Injection(BlocksOf(g), K)
      BY DEF BlocksOf, Block, Injection, IsInjective
    <2>2. 0 \in Int /\ BLOCKS_PER_GROUP - 1 \in Int /\ ~(0 > BLOCKS_PER_GROUP - 1)
      BY GeometryAssumption
    <2>3. IsFiniteSet(K) /\ Cardinality(K) = BLOCKS_PER_GROUP - 1 - 0 + 1
      BY <2>2, FS_Interval
    <2>4. Cardinality(BlocksOf(g)) <= Cardinality(K)
      BY <2>1, <2>3, FS_Injection
    <2> QED  BY <2>3, <2>4, GeometryAssumption
  <1>3. Cardinality(s) <= BLOCKS_PER_GROUP /\ Cardinality(s) <= Cardinality(S)
    <2>1. BlocksOf(g) \in SUBSET Block /\ s \in SUBSET BlocksOf(g) /\ s \in SUBSET S
      BY DEF BlocksOf
    <2>2. IsFiniteSet(BlocksOf(g)) /\ Cardinality(BlocksOf(g)) \in Nat
      BY <2>1, BlockFinite
    <2>3. Cardinality(s) <= Cardinality(BlocksOf(g)) /\ Cardinality(s) <= Cardinality(S)
      BY <1>1, <2>1, <2>2, FS_Subset
    <2> QED  BY <1>1, <1>2, <2>2, <2>3, GeometryAssumption
  <1>4. Cardinality({} \cap BlocksOf(g)) = 0
    <2>1. {} \cap BlocksOf(g) = {}
      OBVIOUS
    <2> QED  BY <2>1, FS_EmptySet
  <1>5. S \subseteq T => Cardinality(s) <= Cardinality(t)
    BY <1>1, FS_Subset
  <1>6. ASSUME S \cap T = {} PROVE Cardinality((S \cup T) \cap BlocksOf(g)) = Cardinality(s) + Cardinality(t)
    <2> DEFINE u == (S \cup T) \cap BlocksOf(g)
    <2>1. u = s \cup t /\ s \cap t = {}
      BY <1>6
    <2> HIDE DEF s, t, u
    <2>2. Cardinality(s \cup t) = Cardinality(s) + Cardinality(t) - Cardinality(s \cap t)
      BY <1>1, FS_Union
    <2>3. Cardinality(s \cap t) = 0
      BY <2>1, FS_EmptySet
    <2>4. Cardinality(u) = Cardinality(s) + Cardinality(t)
      BY <1>1, <2>1, <2>2, <2>3
    <2> QED  BY <2>4 DEF u
  <1>7. ASSUME S \subseteq T PROVE Cardinality((T \ S) \cap BlocksOf(g)) = Cardinality(t) - Cardinality(s)
    <2> DEFINE u == (T \ S) \cap BlocksOf(g)
    <2>1. u = t \ s /\ t \cap s = s
      BY <1>7
    <2> HIDE DEF s, t, u
    <2>2. Cardinality(t \ s) = Cardinality(t) - Cardinality(t \cap s)
      BY <1>1, FS_Difference
    <2>3. Cardinality(u) = Cardinality(t) - Cardinality(s)
      BY <2>1, <2>2
    <2> QED  BY <2>3 DEF u
  <1> QED  BY <1>1, <1>3, <1>4, <1>5, <1>6, <1>7 DEF InGroup

\* How the inodes of a set that lie in a group are counted.
LEMMA NodeCounts ==
    ASSUME NEW g \in Group, NEW S \in SUBSET Inode, NEW i \in Inode
    PROVE  /\ Nodes(S, g) \in 0 .. INODES_PER_GROUP
           /\ Nodes({i}, g) = IF i[1] = g THEN 1 ELSE 0
           /\ i \notin S => Nodes(S \cup {i}, g) = Nodes(S, g) + Nodes({i}, g)
           /\ i \in S => Nodes(S \ {i}, g) = Nodes(S, g) - Nodes({i}, g)
  <1> DEFINE s == S \cap InodesOf(g)
             one == {i} \cap InodesOf(g)
  <1>1. IsFiniteSet(s) /\ Cardinality(s) \in Nat
    BY InodeFinite
  <1>2. Cardinality(s) <= INODES_PER_GROUP
    <2>1. IsFiniteSet(InodesOf(g)) /\ s \in SUBSET InodesOf(g)
      BY InodesPerGroup, InodeFinite
    <2> QED  BY <2>1, InodesPerGroup, FS_Subset
  <1>3. IsFiniteSet(one) /\ Cardinality(one) = IF i[1] = g THEN 1 ELSE 0
    <2>1. CASE i[1] = g
      <3>1. one = {i}
        BY <2>1 DEF InodesOf
      <3> QED  BY <2>1, <3>1, FS_Singleton
    <2>2. CASE i[1] # g
      <3>1. one = {}
        BY <2>2 DEF InodesOf
      <3> QED  BY <2>2, <3>1, FS_EmptySet
    <2> QED  BY <2>1, <2>2
  <1>4. Cardinality(one) \in Nat
    BY <1>3
  <1>5. ASSUME i \notin S PROVE Cardinality((S \cup {i}) \cap InodesOf(g)) = Cardinality(s) + Cardinality(one)
    <2> DEFINE u == (S \cup {i}) \cap InodesOf(g)
    <2>1. u = s \cup one /\ s \cap one = {}
      BY <1>5
    <2> HIDE DEF s, one, u
    <2>2. Cardinality(s \cup one) = Cardinality(s) + Cardinality(one) - Cardinality(s \cap one)
      BY <1>1, <1>3, FS_Union
    <2>3. Cardinality(s \cap one) = 0
      BY <2>1, FS_EmptySet
    <2>4. Cardinality(u) = Cardinality(s) + Cardinality(one)
      BY <1>1, <1>4, <2>1, <2>2, <2>3
    <2> QED  BY <2>4 DEF u
  <1>6. ASSUME i \in S PROVE Cardinality((S \ {i}) \cap InodesOf(g)) = Cardinality(s) - Cardinality(one)
    <2> DEFINE u == (S \ {i}) \cap InodesOf(g)
    <2>1. u = s \ one /\ s \cap one = one
      BY <1>6
    <2> HIDE DEF s, one, u
    <2>2. Cardinality(s \ one) = Cardinality(s) - Cardinality(s \cap one)
      BY <1>1, FS_Difference
    <2>3. Cardinality(u) = Cardinality(s) - Cardinality(one)
      BY <2>1, <2>2
    <2> QED  BY <2>3 DEF u
  <1> QED  BY <1>1, <1>2, <1>3, <1>5, <1>6, GeometryAssumption DEF Nodes

\* The order in which search_blocks takes blocks puts fewer than k before each of at
\* most k of them.
LEMMA FewRanks ==
    ASSUME NEW S \in SUBSET Block, NEW X \in SUBSET S, NEW pref, NEW k \in Nat,
           \A b \in X : Rank(S, pref, b) < k
    PROVE  Cardinality(X) <= k
  <1> DEFINE low(b) == {a \in S : Before(pref, a, b)}
             f == [b \in X |-> Rank(S, pref, b)]
  <1>1. \A b \in Block : b[1] \in Nat /\ b[2] \in Nat
    BY DEF Block, Group
  <1>2. \A b \in X : /\ low(b) \in SUBSET Block /\ IsFiniteSet(low(b))
                     /\ Rank(S, pref, b) = Cardinality(low(b)) /\ Rank(S, pref, b) \in Nat
    BY BlockFinite, RankNat DEF Rank
  <1>3. ASSUME NEW a \in X, NEW b \in X, Before(pref, a, b) PROVE Rank(S, pref, a) # Rank(S, pref, b)
    <2>1. \A c \in S : Before(pref, c, a) => Before(pref, c, b)
      BY <1>1, <1>3 DEF Before
    <2>2. a \in low(b) /\ a \notin low(a)
      BY <1>1, <1>3 DEF Before
    <2>3. low(a) \in SUBSET low(b) /\ low(a) # low(b)
      BY <2>1, <2>2
    <2> HIDE DEF low
    <2> QED  BY <1>2, <2>3, FS_Subset
  <1>4. \A a, b \in X : a # b => Before(pref, a, b) \/ Before(pref, b, a)
    <2>1. \A a, b \in X : a # b => a[1] # b[1] \/ a[2] # b[2]
      BY DEF Block
    <2> QED  BY <1>1, <2>1 DEF Before
  <1> HIDE DEF low
  <1>5. f \in Injection(X, 0 .. k - 1)
    <2>1. f \in [X -> 0 .. k - 1]
      BY <1>2
    <2>2. \A a, b \in X : f[a] = f[b] => a = b
      BY <1>3, <1>4
    <2> QED  BY <2>1, <2>2 DEF Injection, IsInjective
  <1>6. IsFiniteSet(0 .. k - 1) /\ Cardinality(0 .. k - 1) = k
    <2>1. 0 \in Int /\ k - 1 \in Int
      OBVIOUS
    <2>2. IsFiniteSet(0 .. k - 1) /\ Cardinality(0 .. k - 1) = IF 0 > k - 1 THEN 0 ELSE k - 1 - 0 + 1
      BY <2>1, FS_Interval
    <2> QED  BY <2>2
  <1> QED  BY <1>5, <1>6, FS_Injection

\* search_blocks takes no more than asked for, and in no group more than its counter says.
LEMMA SearchCounted ==
    ASSUME NEW bitmap, NEW count \in [Group -> Counter], NEW pref, NEW k \in Nat
    PROVE  /\ Cardinality(SearchBlocks(bitmap, count, pref, k)) <= k
           /\ \A g \in Group : InGroup(SearchBlocks(bitmap, count, pref, k), g) <= count[g]
  <1> DEFINE A == Avail(bitmap, count)
             T == Take(A, pref, k)
  <1>1. A \in SUBSET Block /\ T \in SUBSET A /\ \A b \in T : Rank(A, pref, b) < k
    BY DEF Avail, Take
  <1>2. \A g \in Group : \A b \in A \cap BlocksOf(g) : Rank(Block \ bitmap, g, b) < count[g]
    <2> SUFFICES ASSUME NEW g \in Group, NEW b \in A \cap BlocksOf(g)
                 PROVE  Rank(Block \ bitmap, g, b) < count[g]
      OBVIOUS
    <2>1. b[1] = g /\ Cardinality({a \in Block \ bitmap : a[1] = b[1] /\ a[2] < b[2]}) < count[b[1]]
      BY DEF Avail, BlocksOf
    <2>2. {a \in Block \ bitmap : Before(g, a, b)} = {a \in Block \ bitmap : a[1] = b[1] /\ a[2] < b[2]}
      BY <2>1 DEF Before
    <2> QED  BY <2>1, <2>2 DEF Rank
  <1>3. \A g \in Group : T \cap BlocksOf(g) \in SUBSET (A \cap BlocksOf(g))
                         /\ A \cap BlocksOf(g) \in SUBSET (Block \ bitmap)
    BY <1>1 DEF Avail
  <1> HIDE DEF A, T
  <1>4. Cardinality(T) <= k
    BY <1>1, FewRanks
  <1>5. ASSUME NEW g \in Group PROVE InGroup(T, g) <= count[g]
    <2>1. count[g] \in Nat
      BY GeometryAssumption DEF Counter
    <2>2. Block \ bitmap \in SUBSET Block /\ T \cap BlocksOf(g) \in SUBSET (Block \ bitmap)
      BY <1>3
    <2>3. \A b \in T \cap BlocksOf(g) : Rank(Block \ bitmap, g, b) < count[g]
      BY <1>2, <1>3
    <2> QED  BY <2>1, <2>2, <2>3, FewRanks DEF InGroup
  <1> QED  BY <1>4, <1>5 DEF SearchBlocks, A, T

\* A counter that has enough loses what is taken; one that stays in range gains what
\* is given.
LEMMA CountersMove ==
    ASSUME NEW count \in [Group -> Counter], NEW S \in SUBSET Block, NEW g \in Group
    PROVE  /\ InGroup(S, g) <= count[g] => Debit(count, S)[g] = count[g] - InGroup(S, g)
           /\ count[g] + InGroup(S, g) < COUNT_MOD => Credit(count, S)[g] = count[g] + InGroup(S, g)
  <1>1. InGroup(S, g) \in Nat /\ count[g] \in 0 .. COUNT_MOD - 1 /\ COUNT_MOD \in Nat \ {0}
    BY GroupCounts, GeometryAssumption DEF Counter
  <1>2. /\ Debit(count, S)[g] = (count[g] - InGroup(S, g)) % COUNT_MOD
        /\ Credit(count, S)[g] = (count[g] + InGroup(S, g)) % COUNT_MOD
    BY DEF Debit, Credit, InGroup
  <1>3. ASSUME NEW x \in 0 .. COUNT_MOD - 1 PROVE x % COUNT_MOD = x
    <2>1. x \in Int /\ COUNT_MOD \in Nat \ {0}
      BY <1>1
    <2> QED  BY <2>1, ModRange
  <1>4. /\ InGroup(S, g) <= count[g] => count[g] - InGroup(S, g) \in 0 .. COUNT_MOD - 1
        /\ count[g] + InGroup(S, g) < COUNT_MOD => count[g] + InGroup(S, g) \in 0 .. COUNT_MOD - 1
    BY <1>1
  <1> QED  BY <1>2, <1>3, <1>4


\* Counter x of group g compared with the bits of the group after c cuts: at most one
\* short per cut, and at most the blocks of one operation over.
Balanced(bitmap, x, g, c) ==
    LET clear == BLOCKS_PER_GROUP - InGroup(bitmap, g)
    IN  x >= clear - c /\ x <= clear + c * NDIRECT

NodesBalanced(bitmap, x, g, c) ==
    LET clear == INODES_PER_GROUP - Nodes(bitmap, g)
    IN  x >= clear /\ x <= clear + c

\* what the delete that was cut has yet to free, at least in the counters
Pending == IF torn = NoInode THEN {} ELSE node[torn].freed

CutsLeft       == cuts \in 0 .. MaxCuts
FewFreed       == \A i \in Inode : Cardinality(node[i].freed) <= NDIRECT
BlocksCounted  == \A g \in Group :
    Balanced(block_bitmap \ Pending, free_blocks_count[g] + InGroup(Pending, g), g, cuts)
NodesCounted   == \A g \in Group :
    NodesBalanced(inode_bitmap \ {torn}, free_inodes_count[g] + Nodes({torn}, g), g, cuts)

CountInv == CutsLeft /\ FewFreed /\ BlocksCounted /\ NodesCounted

\* The counters of a group reach beyond its size by what the cuts can leave in them.
CountsFit ==
    /\ COUNT_MOD > BLOCKS_PER_GROUP + MaxCuts * NDIRECT
    /\ COUNT_MOD > INODES_PER_GROUP + MaxCuts

\* The blocks that so many cuts can have left uncounted.
LEMMA CutsBound ==
    ASSUME NEW c \in 0 .. MaxCuts
    PROVE  /\ c * NDIRECT \in Nat /\ c * NDIRECT <= MaxCuts * NDIRECT
           /\ (c + 1) * NDIRECT = c * NDIRECT + NDIRECT
  <1>1. c \in Nat /\ MaxCuts \in Nat /\ NDIRECT \in Nat /\ c <= MaxCuts
    BY CutsAssumption, BlockMapAssumption
  <1>2. PICK d \in Nat : MaxCuts = c + d
    <2>1. MaxCuts - c \in Nat /\ MaxCuts = c + (MaxCuts - c)
      BY <1>1
    <2> QED  BY <2>1
  <1>3. MaxCuts * NDIRECT = c * NDIRECT + d * NDIRECT /\ d * NDIRECT \in Nat /\ c * NDIRECT \in Nat
    BY <1>1, <1>2
  <1>4. (c + 1) * NDIRECT = c * NDIRECT + NDIRECT
    BY <1>1
  <1> QED  BY <1>1, <1>3, <1>4

\* Marking blocks and counting them off keeps a counter between its bounds.
LEMMA BalancedAfterTake ==
    ASSUME NEW g \in Group, NEW B \in SUBSET Block, NEW S \in SUBSET Block, NEW x \in Nat,
           NEW c \in 0 .. MaxCuts, Balanced(B, x, g, c), S \cap B = {}, InGroup(S, g) <= x
    PROVE  x - InGroup(S, g) \in Nat /\ Balanced(B \cup S, x - InGroup(S, g), g, c)
  <1>1. InGroup(B \cup S, g) = InGroup(B, g) + InGroup(S, g)
    BY GroupCounts
  <1>2. InGroup(B, g) \in Nat /\ InGroup(S, g) \in Nat /\ c * NDIRECT \in Nat
    BY GroupCounts, CutsBound
  <1> DEFINE slack == c * NDIRECT
  <1> HIDE DEF slack
  <1>3. slack \in Nat /\ x >= BLOCKS_PER_GROUP - InGroup(B, g) - c /\ x <= BLOCKS_PER_GROUP - InGroup(B, g) + slack
    BY <1>2 DEF Balanced, slack
  <1>4. /\ x - InGroup(S, g) \in Nat
        /\ x - InGroup(S, g) >= BLOCKS_PER_GROUP - InGroup(B \cup S, g) - c
        /\ x - InGroup(S, g) <= BLOCKS_PER_GROUP - InGroup(B \cup S, g) + slack
    BY <1>1, <1>2, <1>3, GeometryAssumption
  <1> QED  BY <1>4 DEF Balanced, slack

\* Clearing blocks and counting them back does, and does not go over 16 bits.
LEMMA BalancedAfterGive ==
    ASSUME CountsFit, NEW g \in Group, NEW B \in SUBSET Block, NEW S \in SUBSET Block, NEW x \in Nat,
           NEW c \in 0 .. MaxCuts, Balanced(B, x, g, c), S \subseteq B
    PROVE  x + InGroup(S, g) < COUNT_MOD /\ Balanced(B \ S, x + InGroup(S, g), g, c)
  <1>1. InGroup(B \ S, g) = InGroup(B, g) - InGroup(S, g) /\ InGroup(S, g) <= InGroup(B, g)
    BY GroupCounts
  <1>2. InGroup(B, g) \in Nat /\ InGroup(S, g) \in Nat /\ c * NDIRECT \in Nat
        /\ c * NDIRECT <= MaxCuts * NDIRECT
    BY GroupCounts, CutsBound
  <1> DEFINE slack == c * NDIRECT
             most == MaxCuts * NDIRECT
  <1>3. COUNT_MOD > BLOCKS_PER_GROUP + most /\ slack <= most /\ most \in Int
    BY <1>2, CutsAssumption, BlockMapAssumption DEF CountsFit
  <1> HIDE DEF slack, most
  <1>4. slack \in Nat /\ x >= BLOCKS_PER_GROUP - InGroup(B, g) - c /\ x <= BLOCKS_PER_GROUP - InGroup(B, g) + slack
    BY <1>2 DEF Balanced, slack
  <1>5. /\ x + InGroup(S, g) < COUNT_MOD
        /\ x + InGroup(S, g) >= BLOCKS_PER_GROUP - InGroup(B \ S, g) - c
        /\ x + InGroup(S, g) <= BLOCKS_PER_GROUP - InGroup(B \ S, g) + slack
    BY <1>1, <1>2, <1>3, <1>4, GeometryAssumption
  <1> QED  BY <1>5 DEF Balanced, slack

\* One more cut allows a counter to be a file's blocks higher, or one lower.
LEMMA BalancedAfterCut ==
    ASSUME NEW g \in Group, NEW B \in SUBSET Block, NEW S \in SUBSET Block, NEW x \in Nat,
           NEW c \in 0 .. MaxCuts, Balanced(B, x, g, c)
    PROVE  /\ \A y \in 0 .. NDIRECT : Balanced(B, x + y, g, c + 1)
           /\ S \subseteq B /\ InGroup(S, g) <= 1 => Balanced(B \ S, x, g, c + 1)
  <1>1. S \subseteq B => InGroup(B \ S, g) = InGroup(B, g) - InGroup(S, g)
    BY GroupCounts
  <1>2. InGroup(B, g) \in Nat /\ InGroup(S, g) \in Nat /\ c * NDIRECT \in Nat
        /\ (c + 1) * NDIRECT = c * NDIRECT + NDIRECT /\ NDIRECT \in Nat
    BY GroupCounts, CutsBound, BlockMapAssumption
  <1> DEFINE slack == c * NDIRECT
             next  == (c + 1) * NDIRECT
  <1>3. next = slack + NDIRECT /\ slack \in Nat
    BY <1>2
  <1> HIDE DEF slack, next
  <1>4. x >= BLOCKS_PER_GROUP - InGroup(B, g) - c /\ x <= BLOCKS_PER_GROUP - InGroup(B, g) + slack
    BY <1>2 DEF Balanced, slack
  <1>5. \A y \in 0 .. NDIRECT : /\ x + y >= BLOCKS_PER_GROUP - InGroup(B, g) - (c + 1)
                                /\ x + y <= BLOCKS_PER_GROUP - InGroup(B, g) + next
    BY <1>2, <1>3, <1>4, GeometryAssumption
  <1>6. S \subseteq B /\ InGroup(S, g) <= 1 =>
           /\ x >= BLOCKS_PER_GROUP - InGroup(B \ S, g) - (c + 1)
           /\ x <= BLOCKS_PER_GROUP - InGroup(B \ S, g) + next
    BY <1>1, <1>2, <1>3, <1>4, GeometryAssumption
  <1> QED  BY <1>5, <1>6 DEF Balanced, next


\* Both for inodes, and what a cut may leave uncounted.
LEMMA NodesBalancedAfter ==
    ASSUME CountsFit, NEW g \in Group, NEW S \in SUBSET Inode, NEW i \in Inode, NEW x \in Nat,
           NEW c \in 0 .. MaxCuts, NodesBalanced(S, x, g, c)
    PROVE  /\ i \notin S => NodesBalanced(S \cup {i}, x - Nodes({i}, g), g, c)
           /\ i \in S => /\ x + Nodes({i}, g) < COUNT_MOD
                         /\ NodesBalanced(S \ {i}, x + Nodes({i}, g), g, c)
           /\ \A y \in 0 .. 1 : NodesBalanced(S, x + y, g, c + 1)
  <1>1. /\ Nodes(S, g) \in 0 .. INODES_PER_GROUP /\ Nodes({i}, g) \in 0 .. 1
        /\ i \notin S => Nodes(S \cup {i}, g) = Nodes(S, g) + Nodes({i}, g)
        /\ i \in S => Nodes(S \ {i}, g) = Nodes(S, g) - Nodes({i}, g)
        /\ Nodes(S \ {i}, g) \in 0 .. INODES_PER_GROUP
    <2>1. {i} \in SUBSET Inode /\ S \ {i} \in SUBSET Inode
      OBVIOUS
    <2>2. \A T \in SUBSET Inode : Nodes(T, g) \in 0 .. INODES_PER_GROUP
      BY NodeCounts
    <2>3. Nodes({i}, g) = IF i[1] = g THEN 1 ELSE 0
      BY NodeCounts
    <2> QED  BY <2>1, <2>2, <2>3, NodeCounts
  <1>2. COUNT_MOD > INODES_PER_GROUP + MaxCuts /\ c \in Nat /\ c <= MaxCuts /\ MaxCuts \in Nat
    BY CutsAssumption DEF CountsFit
  <1>3. x >= INODES_PER_GROUP - Nodes(S, g) /\ x <= INODES_PER_GROUP - Nodes(S, g) + c
    BY DEF NodesBalanced
  <1>4. i \notin S => NodesBalanced(S \cup {i}, x - Nodes({i}, g), g, c)
    BY <1>1, <1>2, <1>3, GeometryAssumption DEF NodesBalanced
  <1>5. i \in S => x + Nodes({i}, g) < COUNT_MOD /\ NodesBalanced(S \ {i}, x + Nodes({i}, g), g, c)
    BY <1>1, <1>2, <1>3, GeometryAssumption DEF NodesBalanced
  <1>6. \A y \in 0 .. 1 : NodesBalanced(S, x + y, g, c + 1)
    BY <1>1, <1>2, <1>3, GeometryAssumption DEF NodesBalanced
  <1> QED  BY <1>4, <1>5, <1>6

\* One inode's group loses or gains one.
LEMMA InodeCountersMove ==
    ASSUME NEW count \in [Group -> Counter], NEW i \in Inode, NEW g \in Group
    PROVE  /\ count[i[1]] > 0 =>
                 [count EXCEPT ![i[1]] = (count[i[1]] - 1) % COUNT_MOD][g] = count[g] - Nodes({i}, g)
           /\ count[g] + Nodes({i}, g) < COUNT_MOD =>
                 [count EXCEPT ![i[1]] = (count[i[1]] + 1) % COUNT_MOD][g] = count[g] + Nodes({i}, g)
  <1>1. /\ i[1] \in Group /\ count[i[1]] \in 0 .. COUNT_MOD - 1 /\ count[g] \in 0 .. COUNT_MOD - 1
        /\ COUNT_MOD \in Nat \ {0}
    BY GeometryAssumption DEF Counter, Inode
  <1>2. Nodes({i}, g) = IF i[1] = g THEN 1 ELSE 0
    <2>1. {i} \in SUBSET Inode
      OBVIOUS
    <2> QED  BY <2>1, NodeCounts
  <1>3. ASSUME NEW x \in 0 .. COUNT_MOD - 1 PROVE x % COUNT_MOD = x
    <2>1. x \in Int
      BY <1>1
    <2> QED  BY <1>1, <2>1, ModRange
  <1>4. CASE i[1] = g
    <2>1. count[g] > 0 => count[g] - 1 \in 0 .. COUNT_MOD - 1
      BY <1>1
    <2>2. count[g] + 1 < COUNT_MOD => count[g] + 1 \in 0 .. COUNT_MOD - 1
      BY <1>1
    <2> QED  BY <1>1, <1>2, <1>3, <1>4, <2>1, <2>2
  <1>5. CASE i[1] # g
    BY <1>1, <1>2, <1>5
  <1> QED  BY <1>4, <1>5

\* The searches of a small file: its data, of which there is little, and no more.
LEMMA SmallSearch ==
    ASSUME NEW bitmap \in SUBSET Block, NEW count \in [Group -> Counter], NEW g \in Group,
           NEW n \in Nat, n <= NDIRECT
    PROVE  LET data == DataBlocks(bitmap, count, g, n)
           IN  /\ data \in SUBSET Block /\ data \cap bitmap = {}
               /\ Cardinality(data) <= NDIRECT
               /\ \A h \in Group : InGroup(data, h) <= count[h]
               /\ \A b \in data : Rank(data, g, b) < NDIRECT
               /\ PtrBlocks(bitmap \cup data, Debit(count, data), n) = {}
  <1> DEFINE data == DataBlocks(bitmap, count, g, n)
             S == Avail(bitmap, count)
             T == Avail(bitmap \cup data, Debit(count, data))
  <1>1. data \in SUBSET Block /\ data \cap bitmap = {}
    BY SearchFindsFree DEF DataBlocks
  <1>2. Cardinality(data) <= n /\ \A h \in Group : InGroup(data, h) <= count[h]
    BY SearchCounted DEF DataBlocks
  <1>3. Cardinality(data) <= NDIRECT
    <2>1. Cardinality(data) \in Nat
      BY <1>1, BlockFinite
    <2> HIDE DEF data
    <2> QED  BY <1>2, <2>1, BlockMapAssumption
  <1>4. \A b \in data : Rank(data, g, b) < NDIRECT
    <2>1. S \in SUBSET Block /\ data = Take(S, g, n)
      BY DEF Avail, SearchBlocks, DataBlocks
    <2> HIDE DEF S, data
    <2>2. \A b \in data : Rank(data, g, b) < n
      BY <2>1, TakenRanks
    <2> QED  BY <1>1, <2>2, RankNat, BlockMapAssumption
  <1>5. PtrBlocks(bitmap \cup data, Debit(count, data), n) = {}
    <2> HIDE DEF data
    <2>1. T \in SUBSET Block /\ PtrBlocks(bitmap \cup data, Debit(count, data), n) = Take(T, 0, PointerBlocks(n))
      BY DEF Avail, SearchBlocks, PtrBlocks
    <2> HIDE DEF T
    <2> QED  BY <2>1, TakeNone, SmallNeedsNoPointer
  <1> HIDE DEF data
  <1> QED  BY <1>1, <1>2, <1>3, <1>4, <1>5 DEF data

\* What allocate_node_blocks does for a small file, given its data.
SmallEffect(i, data, bitmap, count) ==
    /\ data \cap bitmap = {} /\ block_bitmap' = bitmap \cup data
    /\ Cardinality(data) <= NDIRECT
    /\ \A g \in Group : InGroup(data, g) <= count[g]
    /\ \A g \in Group : free_blocks_count'[g] = count[g] - InGroup(data, g)
    /\ node'[i].freed = data /\ \A j \in Inode : j # i => node'[j] = node[j]

\* What allocating a node of direct blocks takes and counts.
LEMMA SmallAllocation ==
    ASSUME TypeOK, NEW i \in Inode, NEW mode, NEW n \in Nat, n <= NDIRECT,
           NEW bitmap \in SUBSET Block, NEW count \in [Group -> Counter],
           AllocateNodeBlocks(i, mode, n, bitmap, count)
    PROVE  \E data \in SUBSET Block : SmallEffect(i, data, bitmap, count)
  <1> DEFINE data == DataBlocks(bitmap, count, i[1], n)
             ptrs == PtrBlocks(bitmap \cup data, Debit(count, data), n)
  <1>1. /\ block_bitmap' = bitmap \cup data \cup ptrs
        /\ free_blocks_count' = Debit(Debit(count, data), ptrs)
        /\ node' = [node EXCEPT ![i] = NewNode(mode, data, ptrs, i[1], n)]
    BY DEF AllocateNodeBlocks
  <1>2. /\ data \in SUBSET Block /\ data \cap bitmap = {} /\ ptrs = {}
        /\ Cardinality(data) <= NDIRECT /\ \A g \in Group : InGroup(data, g) <= count[g]
        /\ \A b \in data : Rank(data, i[1], b) < NDIRECT
    <2>1. i[1] \in Group
      BY DEF Inode
    <2> QED  BY <2>1, SmallSearch
  <1> HIDE DEF data, ptrs
  <1>3. node'[i].freed = data /\ \A j \in Inode : j # i => node'[j] = node[j]
    <2>1. LET new == NewNode(mode, data, {}, i[1], n)
          IN  new.freed = data /\ new.rest = {} /\ new.again = [h \in Group |-> 0]
      <3>1. data \in SUBSET Block /\ \A b \in data : Rank(data, i[1], b) < NDIRECT
        BY <1>2
      <3> QED  BY <3>1, SmallNode
    <2> QED  BY <1>1, <1>2, <2>1 DEF TypeOK
  <1>4. \A g \in Group : free_blocks_count'[g] = count[g] - InGroup(data, g)
    <2> SUFFICES ASSUME NEW g \in Group PROVE free_blocks_count'[g] = count[g] - InGroup(data, g)
      OBVIOUS
    <2>1. {} \in SUBSET Block /\ InGroup({}, g) = 0
      BY GroupCounts
    <2>2. Debit(count, data) \in [Group -> Counter]
      BY <1>2, CountersTyped
    <2>3. Debit(count, data)[g] = count[g] - InGroup(data, g)
      BY <1>2, CountersMove
    <2> DEFINE next == Debit(count, data)
    <2> HIDE DEF next
    <2>4. next[g] \in Nat /\ next \in [Group -> Counter]
      BY <2>2, GeometryAssumption DEF Counter, next
    <2>5. Debit(next, {})[g] = next[g] - InGroup({}, g)
      BY <2>1, <2>4, CountersMove
    <2>6. Debit(next, {})[g] = next[g]
      BY <2>1, <2>4, <2>5
    <2> QED  BY <1>1, <1>2, <2>3, <2>6 DEF next
  <1> QED  BY <1>1, <1>2, <1>3, <1>4 DEF SmallEffect


\* While no delete is torn, the counters are compared with the disk as it is.
LEMMA Settled ==
    ASSUME torn = NoInode, NEW g \in Group
    PROVE  Pending = {} /\ InGroup(Pending, g) = 0 /\ Nodes({torn}, g) = 0
  <1>1. Pending = {} /\ {} \in SUBSET Block
    BY DEF Pending
  <1>2. InGroup({}, g) = 0
    BY <1>1, GroupCounts
  <1>3. {torn} \cap InodesOf(g) = {}
    BY NoInodeIsNone DEF InodesOf
  <1> QED  BY <1>1, <1>2, <1>3, FS_EmptySet DEF Nodes

\* When no delete is torn, the counters are compared with the disk as it is.
LEMMA SettledCounts ==
    ASSUME TypeOK, torn = NoInode
    PROVE  /\ BlocksCounted <=> \A g \in Group : Balanced(block_bitmap, free_blocks_count[g], g, cuts)
           /\ NodesCounted <=> \A g \in Group : NodesBalanced(inode_bitmap, free_inodes_count[g], g, cuts)
  <1>1. block_bitmap \ Pending = block_bitmap /\ inode_bitmap \ {torn} = inode_bitmap
    BY NoInodeIsNone DEF Pending, TypeOK
  <1>2. \A g \in Group : /\ free_blocks_count[g] + InGroup(Pending, g) = free_blocks_count[g]
                         /\ free_inodes_count[g] + Nodes({torn}, g) = free_inodes_count[g]
    <2> SUFFICES ASSUME NEW g \in Group
                 PROVE  /\ free_blocks_count[g] + InGroup(Pending, g) = free_blocks_count[g]
                        /\ free_inodes_count[g] + Nodes({torn}, g) = free_inodes_count[g]
      OBVIOUS
    <2>1. free_blocks_count[g] \in Int /\ free_inodes_count[g] \in Int
      BY GeometryAssumption DEF TypeOK, Counter
    <2> QED  BY <2>1, Settled
  <1> QED  BY <1>1, <1>2 DEF BlocksCounted, NodesCounted

\* The same of the next state, which is how the steps below use it.
LEMMA SettledNext ==
    ASSUME TypeOK', torn' = NoInode,
           \A g \in Group : Balanced(block_bitmap', free_blocks_count'[g], g, cuts'),
           \A g \in Group : NodesBalanced(inode_bitmap', free_inodes_count'[g], g, cuts')
    PROVE  BlocksCounted' /\ NodesCounted'
  <1>1. /\ Pending' = {} /\ block_bitmap' \ Pending' = block_bitmap'
        /\ inode_bitmap' \ {torn'} = inode_bitmap'
    BY NoInodeIsNone DEF Pending, TypeOK
  <1>2. \A g \in Group : /\ free_blocks_count'[g] + InGroup(Pending', g) = free_blocks_count'[g]
                         /\ free_inodes_count'[g] + Nodes({torn'}, g) = free_inodes_count'[g]
    <2> SUFFICES ASSUME NEW g \in Group
                 PROVE  /\ free_blocks_count'[g] + InGroup({}, g) = free_blocks_count'[g]
                        /\ free_inodes_count'[g] + Nodes({NoInode}, g) = free_inodes_count'[g]
      BY <1>1
    <2>1. free_blocks_count'[g] \in Int /\ free_inodes_count'[g] \in Int
      BY GeometryAssumption DEF TypeOK, Counter
    <2>2. {} \in SUBSET Block /\ {NoInode} \cap InodesOf(g) = {}
      BY NoInodeIsNone DEF InodesOf
    <2>3. InGroup({}, g) = 0 /\ Nodes({NoInode}, g) = 0
      BY <2>2, GroupCounts, FS_EmptySet DEF Nodes
    <2> QED  BY <2>1, <2>3
  <1> QED  BY <1>1, <1>2 DEF BlocksCounted, NodesCounted, InGroup, Nodes

\* The reserved blocks of a group are those its counter starts without.
LEMMA ReservedPerGroup ==
    ASSUME NEW g \in Group
    PROVE  Reserved \in SUBSET Block /\ InGroup(Reserved, g) = ReservedCount(g)
           /\ ReservedCount(g) \in 0 .. BLOCKS_PER_GROUP
  <1> DEFINE r == ReservedCount(g)
             K == 0 .. r - 1
             f == [k \in K |-> <<g, k>>]
  <1>1. r \in Nat /\ r > 0 /\ r <= BLOCKS_PER_GROUP
    BY GeometryAssumption DEF ReservedCount
  <1> HIDE DEF r
  <1>2. IsFiniteSet(K) /\ Cardinality(K) = r
    <2>1. 0 \in Int /\ r - 1 \in Int /\ ~(0 > r - 1)
      BY <1>1
    <2>2. IsFiniteSet(K) /\ Cardinality(K) = r - 1 - 0 + 1
      BY <2>1, FS_Interval
    <2> QED  BY <1>1, <2>2
  <1>3. Reserved \cap BlocksOf(g) = {<<g, k>> : k \in K}
    <2>1. Reserved \cap BlocksOf(g) = {b \in Block : b[1] = g /\ b[2] < r}
      BY DEF Reserved, BlocksOf, r
    <2>2. {b \in Block : b[1] = g /\ b[2] < r} = {<<g, k>> : k \in K}
      BY <1>1, GeometryAssumption DEF Block
    <2> QED  BY <2>1, <2>2
  <1>4. f \in Bijection(K, Reserved \cap BlocksOf(g))
    <2>1. f \in [K -> Reserved \cap BlocksOf(g)] /\ \A a, b \in K : f[a] = f[b] => a = b
      BY <1>3
    <2>2. \A b \in Reserved \cap BlocksOf(g) : \E k \in K : f[k] = b
      BY <1>3
    <2> QED  BY <2>1, <2>2 DEF Bijection, Injection, Surjection, IsInjective
  <1>5. Cardinality(Reserved \cap BlocksOf(g)) = r
    <2>1. ExistsBijection(K, Reserved \cap BlocksOf(g))
      BY <1>4 DEF ExistsBijection
    <2> HIDE DEF K
    <2> QED  BY <1>2, <2>1, FS_Bijection
  <1> QED  BY <1>1, <1>5 DEF InGroup, Reserved, r

\* The counters of a formatted disk are exact.
LEMMA InitCounts == CountsFit /\ CrashInit => CountInv
  <1> SUFFICES ASSUME CountsFit, CrashInit PROVE CountInv
    OBVIOUS
  <1> DEFINE count == [g \in Group |-> BLOCKS_PER_GROUP - ReservedCount(g)]
             table == SearchBlocks(Reserved, count, 0, 1)
  <1>1. Init /\ cuts = 0 /\ torn = NoInode
    BY FormattedIsReserved DEF CrashInit, Init
  <1>2. /\ block_bitmap = Reserved \cup table /\ free_blocks_count = Debit(count, table)
        /\ inode_bitmap = {Root}
        /\ free_inodes_count = [g \in Group |-> IF g = 0 THEN INODES_PER_GROUP - 1 ELSE INODES_PER_GROUP]
        /\ node[Root] = NewNode("IFDIR", table, {}, 0, 1)
        /\ \A i \in Inode : i # Root => node[i].freed = {}
    BY <1>1, NoInodeIsNone DEF Init, InitFrom
  <1>3. TypeOK /\ 0 \in 0 .. MaxCuts
    BY <1>1, InitTyped, CutsAssumption
  <1>4. count \in [Group -> Counter] /\ Reserved \in SUBSET Block
    <2>1. \A g \in Group : BLOCKS_PER_GROUP - ReservedCount(g) \in Counter
      BY ReservedPerGroup, GeometryAssumption DEF Counter
    <2> QED  BY <2>1 DEF Reserved
  <1>5. \A g \in Group : count[g] = BLOCKS_PER_GROUP - ReservedCount(g) /\ count[g] \in Nat
    BY ReservedPerGroup, GeometryAssumption
  <1> HIDE DEF count
  <1>6. /\ table \in SUBSET Block /\ table \cap Reserved = {} /\ Cardinality(table) <= 1
        /\ \A g \in Group : InGroup(table, g) <= count[g]
        /\ \A b \in table : Rank(table, 0, b) < 1
    <2>1. 1 \in Nat
      OBVIOUS
    <2>2. table \in SUBSET Block /\ table \cap Reserved = {}
      BY SearchFindsFree
    <2>3. Cardinality(table) <= 1 /\ \A g \in Group : InGroup(table, g) <= count[g]
      BY <1>4, <2>1, SearchCounted
    <2>4. \A b \in table : Rank(table, 0, b) < 1
      <3> DEFINE S == Avail(Reserved, count)
      <3>1. S \in SUBSET Block /\ table = Take(S, 0, 1)
        BY DEF Avail, SearchBlocks
      <3> HIDE DEF S
      <3>2. \A b \in Take(S, 0, 1) : Rank(Take(S, 0, 1), 0, b) < 1
        BY <2>1, <3>1, TakenRanks
      <3> QED  BY <3>1, <3>2
    <2> QED  BY <2>2, <2>3, <2>4
  <1> HIDE DEF table
  <1>7. \A g \in Group : Balanced(block_bitmap, free_blocks_count[g], g, cuts)
    <2> SUFFICES ASSUME NEW g \in Group PROVE Balanced(block_bitmap, free_blocks_count[g], g, cuts)
      OBVIOUS
    <2>1. InGroup(Reserved, g) = ReservedCount(g) /\ ReservedCount(g) \in Int
      BY ReservedPerGroup
    <2>2. Balanced(Reserved, count[g], g, 0)
      BY <1>5, <2>1, GeometryAssumption, BlockMapAssumption DEF Balanced
    <2>3. Balanced(Reserved \cup table, count[g] - InGroup(table, g), g, 0)
      BY <1>3, <1>4, <1>5, <1>6, <2>2, BalancedAfterTake
    <2>4. free_blocks_count[g] = count[g] - InGroup(table, g)
      BY <1>2, <1>4, <1>6, CountersMove
    <2> QED  BY <1>1, <1>2, <2>3, <2>4
  <1>8. \A g \in Group : NodesBalanced(inode_bitmap, free_inodes_count[g], g, cuts)
    <2> SUFFICES ASSUME NEW g \in Group PROVE NodesBalanced(inode_bitmap, free_inodes_count[g], g, cuts)
      OBVIOUS
    <2>1. Nodes({Root}, g) = IF Root[1] = g THEN 1 ELSE 0
      BY NoInodeIsNone, NodeCounts
    <2>2. Nodes(inode_bitmap, g) = IF g = 0 THEN 1 ELSE 0
      BY <1>2, <2>1 DEF Root
    <2> QED  BY <1>1, <1>2, <2>2, GeometryAssumption DEF NodesBalanced
  <1>9. FewFreed
    <2>1. LET new == NewNode("IFDIR", table, {}, 0, 1)
          IN  new.freed = table /\ new.rest = {} /\ new.again = [h \in Group |-> 0]
      <3>1. 1 \in Nat /\ 1 <= NDIRECT /\ \A b \in table : Rank(table, 0, b) < NDIRECT
        BY <1>6, RankNat, BlockMapAssumption
      <3> QED  BY <1>6, <3>1, SmallNode
    <2>2. Cardinality(table) <= NDIRECT /\ Cardinality({}) <= NDIRECT
      <3>1. Cardinality(table) \in Nat
        BY <1>6, BlockFinite
      <3> QED  BY <1>6, <3>1, FS_EmptySet, BlockMapAssumption
    <2> QED  BY <1>2, <2>1, <2>2 DEF FewFreed
  <1> QED  BY <1>1, <1>3, <1>7, <1>8, <1>9, SettledCounts DEF CountInv, CutsLeft


\* The table that a directory may get is counted as well.
LEMMA ExtensionCounted ==
    ASSUME TypeOK, NEW p \in Inode, NEW extend \in BOOLEAN
    PROVE  \A g \in Group : InGroup(Extension(p, extend), g) <= free_blocks_count[g]
  <1> DEFINE ext == Extension(p, extend)
  <1>1. CASE extend
    <2>1. 1 \in Nat /\ ext = SearchBlocks(block_bitmap, free_blocks_count, p[1], 1)
      BY <1>1 DEF Extension
    <2>2. \A g \in Group :
            InGroup(SearchBlocks(block_bitmap, free_blocks_count, p[1], 1), g) <= free_blocks_count[g]
      BY <2>1, SearchCounted DEF TypeOK
    <2> QED  BY <2>1, <2>2
  <1>2. CASE ~extend
    <2>1. ext = {}
      BY <1>2 DEF Extension
    <2>2. \A g \in Group : InGroup({}, g) = 0 /\ free_blocks_count[g] >= 0
      BY GroupCounts, GeometryAssumption DEF TypeOK, Counter
    <2> QED  BY <2>1, <2>2
  <1> QED  BY <1>1, <1>2

\* A write that is not cut keeps the bounds of the counters.
LEMMA WholeWriteCounts ==
    ASSUME CountsFit, DiskInv, CountInv, torn = NoInode, NodeAvailable, UNCHANGED <<cuts, torn, lost>>,
           TypeOK', NEW p \in Linked, NEW mode \in {"IFDIR", "IFREG"}, NEW n \in Nat, n <= NDIRECT,
           NEW extend \in BOOLEAN, Write(p, mode, n, extend)
    PROVE  CountInv'
  <1>0. TypeOK /\ p \in Inode /\ cuts \in 0 .. MaxCuts
    BY WholeClaims DEF DiskInv, CrashTypeOK, CountInv, CutsLeft
  <1> DEFINE ext == Extension(p, extend)
  <1> PICK bitmap, count : bitmap = block_bitmap \cup ext /\ count = Debit(free_blocks_count, ext)
    OBVIOUS
  <1>1. PICK i \in Inode :
          /\ FirstFreeInode(i)
          /\ inode_bitmap' = inode_bitmap \cup {i}
          /\ free_inodes_count' =
                [free_inodes_count EXCEPT ![i[1]] = (free_inodes_count[i[1]] - 1) % COUNT_MOD]
          /\ AllocateNodeBlocks(i, mode, n, bitmap, count)
    BY DEF Write
  <1>2. ext \in SUBSET Block /\ ext \cap block_bitmap = {}
        /\ \A g \in Group : InGroup(ext, g) <= free_blocks_count[g]
    BY <1>0, ExtensionFree, ExtensionCounted
  <1>3. count \in [Group -> Counter] /\ bitmap \in SUBSET Block
        /\ \A g \in Group : count[g] = free_blocks_count[g] - InGroup(ext, g)
    BY <1>0, <1>2, CountersTyped, CountersMove DEF TypeOK
  <1> HIDE DEF ext
  <1>4. PICK data \in SUBSET Block : SmallEffect(i, data, bitmap, count)
    <2>1. AllocateNodeBlocks(i, mode, n, bitmap, count)
      BY <1>1
    <2> QED  BY <1>0, <1>3, <2>1, SmallAllocation
  <1> USE DEF SmallEffect
  <1>5. \A g \in Group : Balanced(block_bitmap', free_blocks_count'[g], g, cuts')
    <2> SUFFICES ASSUME NEW g \in Group PROVE Balanced(block_bitmap', free_blocks_count'[g], g, cuts')
      OBVIOUS
    <2>1. Balanced(block_bitmap, free_blocks_count[g], g, cuts) /\ free_blocks_count[g] \in Nat
          /\ block_bitmap \in SUBSET Block /\ count[g] \in Nat
      BY <1>0, <1>3, SettledCounts, GeometryAssumption DEF CountInv, TypeOK, Counter
    <2>2. Balanced(bitmap, count[g], g, cuts)
      BY <1>0, <1>2, <1>3, <2>1, BalancedAfterTake
    <2> QED  BY <1>0, <1>3, <1>4, <2>1, <2>2, BalancedAfterTake
  <1>6. i \notin inode_bitmap
    BY <1>0, <1>1, AvailableIsFresh
  <1>7. \A g \in Group : NodesBalanced(inode_bitmap', free_inodes_count'[g], g, cuts')
    <2> SUFFICES ASSUME NEW g \in Group PROVE NodesBalanced(inode_bitmap', free_inodes_count'[g], g, cuts')
      OBVIOUS
    <2>1. NodesBalanced(inode_bitmap, free_inodes_count[g], g, cuts) /\ free_inodes_count[g] \in Nat
          /\ inode_bitmap \in SUBSET Inode
      BY <1>0, SettledCounts, GeometryAssumption DEF CountInv, TypeOK, Counter
    <2>2. NodesBalanced(inode_bitmap \cup {i}, free_inodes_count[g] - Nodes({i}, g), g, cuts)
      BY <1>0, <1>6, <2>1, NodesBalancedAfter
    <2>3. free_inodes_count'[g] = free_inodes_count[g] - Nodes({i}, g)
      BY <1>0, <1>1, InodeCountersMove DEF FirstFreeInode, TypeOK
    <2> QED  BY <1>1, <2>2, <2>3
  <1>8. FewFreed'
    BY <1>4 DEF CountInv, FewFreed
  <1>9. CutsLeft'
    BY DEF CountInv, CutsLeft
  <1> QED  BY <1>5, <1>7, <1>8, <1>9, SettledNext DEF CountInv

\* A move_dir that is not cut keeps them.
LEMMA WholeMoveCounts ==
    ASSUME CountsFit, DiskInv, CountInv, torn = NoInode, UNCHANGED <<cuts, torn, lost>>, TypeOK',
           NEW i \in Linked, NEW p \in Linked, NEW q \in Linked,
           NEW extend \in BOOLEAN, MoveDir(i, p, q, extend)
    PROVE  CountInv'
  <1>0. TypeOK /\ p \in Inode /\ q \in Inode /\ cuts \in 0 .. MaxCuts
    BY WholeClaims DEF DiskInv, CrashTypeOK, CountInv, CutsLeft
  <1> DEFINE ext   == Extension(q, extend)
             count == Debit(free_blocks_count, ext)
  <1>1. PICK t, unlinked :
          /\ unlinked = Unlinked(p, i) \ {t}
          /\ block_bitmap' = (block_bitmap \cup ext) \ unlinked
          /\ free_blocks_count' = Credit(count, unlinked)
          /\ UNCHANGED <<inode_bitmap, free_inodes_count, node>>
    BY DEF MoveDir
  <1>2. ext \in SUBSET Block /\ ext \cap block_bitmap = {}
        /\ \A g \in Group : InGroup(ext, g) <= free_blocks_count[g]
    BY <1>0, ExtensionFree, ExtensionCounted
  <1>3. count \in [Group -> Counter] /\ block_bitmap \cup ext \in SUBSET Block
        /\ \A g \in Group : count[g] = free_blocks_count[g] - InGroup(ext, g)
    BY <1>0, <1>2, CountersTyped, CountersMove DEF TypeOK
  <1>4. unlinked \in SUBSET Block /\ unlinked \subseteq block_bitmap
    <2>1. tables[p] \subseteq block_bitmap
      BY WholeClaims DEF DiskInv, SoundMarked, Own
    <2> QED  BY <1>0, <1>1, <2>1 DEF Unlinked, TypeOK
  <1> HIDE DEF ext, count
  <1>5. \A g \in Group : Balanced(block_bitmap', free_blocks_count'[g], g, cuts')
    <2> SUFFICES ASSUME NEW g \in Group PROVE Balanced(block_bitmap', free_blocks_count'[g], g, cuts')
      OBVIOUS
    <2>1. Balanced(block_bitmap, free_blocks_count[g], g, cuts) /\ free_blocks_count[g] \in Nat
          /\ block_bitmap \in SUBSET Block /\ count[g] \in Nat
      BY <1>0, <1>3, SettledCounts, GeometryAssumption DEF CountInv, TypeOK, Counter
    <2>2. Balanced(block_bitmap \cup ext, count[g], g, cuts)
      BY <1>0, <1>2, <1>3, <2>1, BalancedAfterTake
    <2>3. /\ count[g] + InGroup(unlinked, g) < COUNT_MOD
          /\ Balanced((block_bitmap \cup ext) \ unlinked, count[g] + InGroup(unlinked, g), g, cuts)
      BY <1>0, <1>3, <1>4, <2>1, <2>2, BalancedAfterGive
    <2>4. free_blocks_count'[g] = count[g] + InGroup(unlinked, g)
      BY <1>1, <1>3, <1>4, <2>3, CountersMove
    <2> QED  BY <1>1, <2>3, <2>4
  <1>6. \A g \in Group : NodesBalanced(inode_bitmap', free_inodes_count'[g], g, cuts')
    BY <1>0, <1>1, SettledCounts DEF CountInv
  <1>7. FewFreed' /\ CutsLeft'
    BY <1>1 DEF CountInv, FewFreed, CutsLeft
  <1> QED  BY <1>5, <1>6, <1>7, SettledNext DEF CountInv


\* A node of direct blocks is credited with the blocks it had.
LEMMA CreditedSmall ==
    ASSUME TypeOK, SmallNodes, NEW i \in Inode
    PROVE  /\ Credited(i) \in [Group -> Counter]
           /\ \A g \in Group :
                 free_blocks_count[g] + InGroup(node[i].freed, g) < COUNT_MOD =>
                     Credited(i)[g] = free_blocks_count[g] + InGroup(node[i].freed, g)
  <1>1. Credited(i) \in [Group -> Counter]
    BY CreditedTyped DEF Credited
  <1>2. ASSUME NEW g \in Group, free_blocks_count[g] + InGroup(node[i].freed, g) < COUNT_MOD
        PROVE  Credited(i)[g] = free_blocks_count[g] + InGroup(node[i].freed, g)
    <2> DEFINE x == Credit(free_blocks_count, node[i].freed)[g]
    <2>1. x = free_blocks_count[g] + InGroup(node[i].freed, g)
      BY <1>2, CountersMove, NodeFields DEF TypeOK
    <2>2. x \in 0 .. COUNT_MOD - 1 /\ COUNT_MOD \in Nat \ {0}
      BY CountersTyped, NodeFields, GeometryAssumption DEF TypeOK, Counter
    <2>3. Credited(i)[g] = (x + node[i].again[g]) % COUNT_MOD /\ node[i].again[g] = 0
      BY DEF Credited, SmallNodes
    <2> HIDE DEF x
    <2>4. x + 0 = x /\ x % COUNT_MOD = x
      BY <2>2, ModRange
    <2> QED  BY <2>1, <2>3, <2>4
  <1> QED  BY <1>1, <1>2

\* What delete ends with: the tree of i and the table of its entry are free and counted.
LEMMA GoneCounts ==
    ASSUME CountsFit, TypeOK, SmallNodes, TypeOK', torn' = NoInode, cuts' = cuts, cuts \in 0 .. MaxCuts,
           NEW i \in Inode, NEW unlinked \in SUBSET Block,
           unlinked \subseteq block_bitmap \ node[i].freed,
           \A g \in Group : Balanced(block_bitmap \ node[i].freed,
                                     free_blocks_count[g] + InGroup(node[i].freed, g), g, cuts),
           \A g \in Group : NodesBalanced(inode_bitmap \ {i}, free_inodes_count[g] + Nodes({i}, g), g, cuts),
           block_bitmap' = (block_bitmap \ node[i].freed) \ unlinked,
           free_blocks_count' = Credit(Credited(i), unlinked),
           inode_bitmap' = inode_bitmap \ {i},
           free_inodes_count' =
               [free_inodes_count EXCEPT ![i[1]] = (free_inodes_count[i[1]] + 1) % COUNT_MOD]
    PROVE  BlocksCounted' /\ NodesCounted'
  <1>1. \A g \in Group : Balanced(block_bitmap', free_blocks_count'[g], g, cuts')
    <2> SUFFICES ASSUME NEW g \in Group PROVE Balanced(block_bitmap', free_blocks_count'[g], g, cuts')
      OBVIOUS
    <2> DEFINE B == block_bitmap \ node[i].freed
               x == free_blocks_count[g] + InGroup(node[i].freed, g)
    <2>1. B \in SUBSET Block /\ node[i].freed \in SUBSET Block
      BY NodeFields DEF TypeOK
    <2>2. x \in Nat /\ InGroup(unlinked, g) \in Nat
      <3>1. free_blocks_count[g] \in Nat
        BY GeometryAssumption DEF TypeOK, Counter
      <3>2. InGroup(node[i].freed, g) \in Nat /\ InGroup(unlinked, g) \in Nat
        BY <2>1, GroupCounts
      <3> QED  BY <3>1, <3>2
    <2>3. Credited(i) \in [Group -> Counter] /\ (x < COUNT_MOD => Credited(i)[g] = x)
      BY CreditedSmall
    <2>4. Balanced(B, x, g, cuts) /\ unlinked \subseteq B
      OBVIOUS
    <2> HIDE DEF B, x
    <2>5. x + InGroup(unlinked, g) < COUNT_MOD /\ Balanced(B \ unlinked, x + InGroup(unlinked, g), g, cuts)
      BY <2>1, <2>2, <2>4, BalancedAfterGive
    <2>6. Credited(i)[g] = x
      BY <2>2, <2>3, <2>5, GeometryAssumption
    <2>7. free_blocks_count'[g] = x + InGroup(unlinked, g)
      BY <2>3, <2>5, <2>6, CountersMove
    <2> QED  BY <2>5, <2>7 DEF B
  <1>2. \A g \in Group : NodesBalanced(inode_bitmap', free_inodes_count'[g], g, cuts')
    <2> SUFFICES ASSUME NEW g \in Group PROVE NodesBalanced(inode_bitmap', free_inodes_count'[g], g, cuts')
      OBVIOUS
    <2> DEFINE z == free_inodes_count[g] + Nodes({i}, g)
    <2>1. NodesBalanced(inode_bitmap \ {i}, z, g, cuts) /\ Nodes(inode_bitmap \ {i}, g) \in 0 .. INODES_PER_GROUP
      <3>1. inode_bitmap \ {i} \in SUBSET Inode
        BY DEF TypeOK
      <3> QED  BY <3>1, NodeCounts
    <2>2. z < COUNT_MOD
      <3>1. z <= INODES_PER_GROUP - Nodes(inode_bitmap \ {i}, g) + cuts
        BY <2>1 DEF NodesBalanced
      <3>2. z \in Int
        <4>1. Nodes({i}, g) = IF i[1] = g THEN 1 ELSE 0
          BY NodeCounts
        <4> QED  BY <4>1, GeometryAssumption DEF TypeOK, Counter
      <3> HIDE DEF z
      <3> QED  BY <2>1, <3>1, <3>2, CutsAssumption, GeometryAssumption DEF CountsFit
    <2>3. free_inodes_count'[g] = z
      BY <2>2, InodeCountersMove DEF TypeOK
    <2> QED  BY <2>1, <2>3
  <1> QED  BY <1>1, <1>2, SettledNext

\* A delete that is not cut keeps them.
LEMMA WholeDeleteCounts ==
    ASSUME CountsFit, DiskInv, SmallNodes, CountInv, torn = NoInode, UNCHANGED <<cuts, torn, lost>>, TypeOK',
           NEW p \in Linked, NEW i \in Linked, Delete(p, i)
    PROVE  CountInv'
  <1>0. TypeOK /\ p \in Inode /\ i \in Inode /\ cuts \in 0 .. MaxCuts
    BY WholeClaims DEF DiskInv, CrashTypeOK, CountInv, CutsLeft
  <1> DEFINE unlinked == Unlinked(p, i)
  <1>1. /\ IsDir(p) /\ i \in inode_bitmap /\ i # Root /\ home[i] \in TableBlocks(p)
        /\ IsDir(i) => IsDirectoryEmpty(i)
        /\ block_bitmap' = (block_bitmap \ node[i].freed) \ unlinked
        /\ free_blocks_count' = Credit(Credited(i), unlinked)
        /\ inode_bitmap' = inode_bitmap \ {i}
        /\ free_inodes_count' =
               [free_inodes_count EXCEPT ![i[1]] = (free_inodes_count[i[1]] + 1) % COUNT_MOD]
        /\ node' = node
    BY DEF Delete, Credited
  <1>2. /\ node[i].freed \in SUBSET Block /\ node[i].freed \subseteq block_bitmap
        /\ unlinked \in SUBSET Block /\ unlinked \subseteq block_bitmap \ node[i].freed
    <2>1. p # i
      BY <1>0, <1>1, TakesNoChain DEF DiskInv
    <2>2. Own(p) \subseteq block_bitmap /\ Own(i) \subseteq block_bitmap /\ Own(p) \cap Own(i) = {}
      BY <2>1, WholeClaims DEF DiskInv, SoundMarked, ClaimedApart
    <2>3. unlinked \subseteq Own(p) /\ node[i].freed \subseteq Own(i)
      BY DEF Own, Unlinked
    <2> QED  BY <1>0, <2>2, <2>3 DEF TypeOK
  <1> HIDE DEF unlinked
  <1>3. \A g \in Group : Balanced(block_bitmap \ node[i].freed,
                                  free_blocks_count[g] + InGroup(node[i].freed, g), g, cuts)
    <2> SUFFICES ASSUME NEW g \in Group
                 PROVE  Balanced(block_bitmap \ node[i].freed,
                                 free_blocks_count[g] + InGroup(node[i].freed, g), g, cuts)
      OBVIOUS
    <2>1. Balanced(block_bitmap, free_blocks_count[g], g, cuts) /\ free_blocks_count[g] \in Nat
          /\ block_bitmap \in SUBSET Block
      BY <1>0, SettledCounts, GeometryAssumption DEF CountInv, TypeOK, Counter
    <2> QED  BY <1>0, <1>2, <2>1, BalancedAfterGive
  <1>4. \A g \in Group : NodesBalanced(inode_bitmap \ {i}, free_inodes_count[g] + Nodes({i}, g), g, cuts)
    <2> SUFFICES ASSUME NEW g \in Group
                 PROVE  NodesBalanced(inode_bitmap \ {i}, free_inodes_count[g] + Nodes({i}, g), g, cuts)
      OBVIOUS
    <2>1. NodesBalanced(inode_bitmap, free_inodes_count[g], g, cuts) /\ free_inodes_count[g] \in Nat
          /\ inode_bitmap \in SUBSET Inode
      BY <1>0, SettledCounts, GeometryAssumption DEF CountInv, TypeOK, Counter
    <2> QED  BY <1>0, <1>1, <2>1, NodesBalancedAfter
  <1>5. BlocksCounted' /\ NodesCounted'
    BY <1>0, <1>1, <1>2, <1>3, <1>4, GoneCounts
  <1>6. FewFreed' /\ CutsLeft'
    BY <1>1 DEF CountInv, FewFreed, CutsLeft
  <1> QED  BY <1>5, <1>6 DEF CountInv

\* The delete given again keeps them.
LEMMA RedoCounts ==
    ASSUME CountsFit, DiskInv, SmallNodes, CountInv, TypeOK', NEW p \in Inode, Redo(p)
    PROVE  CountInv'
  <1>0. TypeOK /\ torn \in Inode /\ torn # NoInode /\ cuts \in 0 .. MaxCuts
    BY DEF DiskInv, CrashTypeOK, Redo, CountInv, CutsLeft
  <1> DEFINE unlinked == {t \in tables[p] : HeldIn(t, torn) = {torn}}
  <1>1. /\ p \in Linked /\ home[torn] \in TableBlocks(p)
        /\ block_bitmap' = (block_bitmap \ node[torn].freed) \ unlinked
        /\ free_blocks_count' = Credit(Credited(torn), unlinked)
        /\ inode_bitmap' = inode_bitmap \ {torn}
        /\ free_inodes_count' =
               [free_inodes_count EXCEPT ![torn[1]] = (free_inodes_count[torn[1]] + 1) % COUNT_MOD]
        /\ torn' = NoInode /\ node' = node /\ cuts' = cuts
    BY DEF Redo, Credited
  <1>2. /\ node[torn].freed \in SUBSET Block
        /\ unlinked \in SUBSET Block /\ unlinked \subseteq block_bitmap \ node[torn].freed
    <2>1. p # torn
      <3>1. tables[torn] = {} /\ home[torn] \notin Own(torn)
        BY <1>0 DEF DiskInv, ChainsOfFolders, TornElsewhere, Sound
      <3> QED  BY <1>1, <3>1 DEF Own, TableBlocks
    <2>2. p \in Sound /\ p \in Claimed /\ torn \in Claimed
      BY <1>0, <1>1, <2>1 DEF Sound, Claimed
    <2>3. Own(p) \subseteq block_bitmap /\ Own(p) \cap Own(torn) = {}
      BY <2>1, <2>2 DEF DiskInv, SoundMarked, ClaimedApart
    <2>4. unlinked \subseteq Own(p) /\ node[torn].freed \subseteq Own(torn) /\ unlinked \subseteq tables[p]
      BY DEF Own
    <2>5. tables[p] \in SUBSET Block /\ node[torn].freed \in SUBSET Block
      BY <1>0, NodeFields
    <2> HIDE DEF unlinked
    <2> QED  BY <2>3, <2>4, <2>5
  <1> HIDE DEF unlinked
  <1>3. /\ \A g \in Group : Balanced(block_bitmap \ node[torn].freed,
                                     free_blocks_count[g] + InGroup(node[torn].freed, g), g, cuts)
        /\ \A g \in Group : NodesBalanced(inode_bitmap \ {torn}, free_inodes_count[g] + Nodes({torn}, g), g, cuts)
    BY <1>0 DEF CountInv, BlocksCounted, NodesCounted, Pending
  <1> PICK i \in Inode : i = torn
    BY <1>0
  <1>4. BlocksCounted' /\ NodesCounted'
    BY <1>0, <1>1, <1>2, <1>3, GoneCounts
  <1>5. FewFreed' /\ CutsLeft'
    BY <1>1 DEF CountInv, FewFreed, CutsLeft
  <1> QED  BY <1>4, <1>5 DEF CountInv


\* A write that is cut keeps them, with one cut more.
LEMMA CutWriteCounts ==
    ASSUME CountsFit, DiskInv, CountInv, torn = NoInode, torn' = torn, cuts < MaxCuts, cuts' = cuts + 1,
           TypeOK', NEW p \in Inode, NEW n \in Nat, n <= NDIRECT, CutWrite(p, n)
    PROVE  CountInv'
  <1>0. TypeOK /\ cuts \in 0 .. MaxCuts
    BY DEF DiskInv, CrashTypeOK, CountInv, CutsLeft
  <1>1. PICK i \in Inode \ inode_bitmap, data, marked, counted \in SUBSET Block, c \in 0 .. 1 :
          /\ FirstFreeInode(i)
          /\ inode_bitmap' = inode_bitmap \cup {i}
          /\ data \cap block_bitmap = {} /\ Cardinality(data) <= NDIRECT
          /\ \A g \in Group : InGroup(data, g) <= free_blocks_count[g]
          /\ counted \subseteq marked /\ marked \subseteq data
          /\ free_inodes_count' = [free_inodes_count EXCEPT ![i[1]] = free_inodes_count[i[1]] - c]
          /\ block_bitmap' = block_bitmap \cup marked
          /\ free_blocks_count' = Debit(free_blocks_count, counted)
    <2> DEFINE D(i) == DataBlocks(block_bitmap, free_blocks_count, i[1], n)
    <2>1. PICK i \in Inode \ inode_bitmap :
            /\ FirstFreeInode(i)
            /\ inode_bitmap' = inode_bitmap \cup {i}
            /\ \E data \in {D(i)} :
               \E ptrs \in {PtrBlocks(block_bitmap \cup data, Debit(free_blocks_count, data), n)} :
               \E marked, counted \in Searched(data, ptrs, i[1]), c \in 0 .. 1 :
                 /\ Cardinality(data \cup ptrs) = n + PointerBlocks(n)
                 /\ CountsLag(counted, marked, Searched(data, ptrs, i[1]))
                 /\ c = 0 => marked = {}
                 /\ free_inodes_count' = [free_inodes_count EXCEPT ![i[1]] = @ - c]
                 /\ block_bitmap' = block_bitmap \cup marked
                 /\ free_blocks_count' = Debit(free_blocks_count, counted)
                 /\ lost' = lost \cup marked
      BY DEF CutWrite
    <2> DEFINE ptrs == PtrBlocks(block_bitmap \cup D(i), Debit(free_blocks_count, D(i)), n)
    <2>2. /\ D(i) \in SUBSET Block /\ D(i) \cap block_bitmap = {} /\ Cardinality(D(i)) <= NDIRECT
          /\ \A g \in Group : InGroup(D(i), g) <= free_blocks_count[g]
          /\ ptrs = {}
      <3>1. i[1] \in Group /\ block_bitmap \in SUBSET Block /\ free_blocks_count \in [Group -> Counter]
        BY <1>0 DEF TypeOK, Inode
      <3> QED  BY <3>1, SmallSearch
    <2> HIDE DEF D
    <2>3. PICK marked, counted \in Searched(D(i), ptrs, i[1]), c \in 0 .. 1 :
                 /\ CountsLag(counted, marked, Searched(D(i), ptrs, i[1]))
                 /\ free_inodes_count' = [free_inodes_count EXCEPT ![i[1]] = @ - c]
                 /\ block_bitmap' = block_bitmap \cup marked
                 /\ free_blocks_count' = Debit(free_blocks_count, counted)
      BY <2>1
    <2> HIDE DEF ptrs
    <2>4. Searched(D(i), ptrs, i[1]) \subseteq SUBSET D(i)
      BY <2>2 DEF Searched, Take
    <2>5. counted \subseteq marked /\ marked \subseteq D(i)
      BY <2>3, <2>4 DEF CountsLag
    <2>6. D(i) \in SUBSET Block /\ marked \in SUBSET Block /\ counted \in SUBSET Block
      BY <2>2, <2>5
    <2> QED  BY <2>1, <2>2, <2>3, <2>5, <2>6
  <1>2. \A g \in Group : Balanced(block_bitmap', free_blocks_count'[g], g, cuts')
    <2> SUFFICES ASSUME NEW g \in Group PROVE Balanced(block_bitmap', free_blocks_count'[g], g, cuts')
      OBVIOUS
    <2> DEFINE x == free_blocks_count[g]
               m == InGroup(marked, g)
               k == InGroup(counted, g)
    <2>1. Balanced(block_bitmap, x, g, cuts) /\ x \in Nat /\ block_bitmap \in SUBSET Block
      BY <1>0, SettledCounts, GeometryAssumption DEF CountInv, TypeOK, Counter
    <2>2. InGroup(data, g) \in Nat /\ m \in Nat /\ k \in Nat /\ k <= m /\ m <= InGroup(data, g)
      BY <1>1, GroupCounts
    <2>3. InGroup(data, g) <= x /\ InGroup(data, g) <= NDIRECT
      <3>1. InGroup(data, g) <= Cardinality(data) /\ Cardinality(data) \in Nat
        BY GroupCounts, BlockFinite
      <3> QED  BY <1>1, <2>2, <3>1, BlockMapAssumption
    <2>4. m <= x /\ k <= x /\ m - k \in 0 .. NDIRECT
      <3> HIDE DEF x, m, k
      <3> QED  BY <2>1, <2>2, <2>3, BlockMapAssumption
    <2>5. x - m \in Nat /\ Balanced(block_bitmap \cup marked, x - m, g, cuts)
      BY <1>0, <1>1, <2>1, <2>4, BalancedAfterTake
    <2>6. block_bitmap \cup marked \in SUBSET Block
      BY <2>1
    <2>7. free_blocks_count'[g] = x - k
      BY <1>0, <1>1, <2>4, CountersMove DEF TypeOK
    <2> HIDE DEF x, m, k
    <2>8. Balanced(block_bitmap \cup marked, (x - m) + (m - k), g, cuts + 1)
      BY <1>0, <2>4, <2>5, <2>6, BalancedAfterCut
    <2>9. (x - m) + (m - k) = x - k
      BY <2>1, <2>2
    <2> QED  BY <1>1, <2>7, <2>8, <2>9
  <1>3. \A g \in Group : NodesBalanced(inode_bitmap', free_inodes_count'[g], g, cuts')
    <2> SUFFICES ASSUME NEW g \in Group PROVE NodesBalanced(inode_bitmap', free_inodes_count'[g], g, cuts')
      OBVIOUS
    <2> DEFINE z == free_inodes_count[g]
               one == Nodes({i}, g)
    <2>1. NodesBalanced(inode_bitmap, z, g, cuts) /\ z \in Nat /\ inode_bitmap \in SUBSET Inode
      BY <1>0, SettledCounts, GeometryAssumption DEF CountInv, TypeOK, Counter
    <2>2. NodesBalanced(inode_bitmap \cup {i}, z - one, g, cuts)
      BY <1>0, <1>1, <2>1, NodesBalancedAfter
    <2>3. one = IF i[1] = g THEN 1 ELSE 0
      BY NodeCounts
    <2>4. z - one \in Nat
      <3>1. i[1] = g => z > 0
        BY <1>1 DEF FirstFreeInode
      <3> QED  BY <2>1, <2>3, <3>1
    <2>5. free_inodes_count'[g] = z - one \/ free_inodes_count'[g] = (z - one) + 1
      <3>1. free_inodes_count'[g] = IF i[1] = g THEN z - c ELSE z
        BY <1>0, <1>1 DEF TypeOK
      <3>2. c = 0 \/ c = 1
        BY <1>1
      <3> QED  BY <2>1, <2>3, <3>1, <3>2
    <2>6. inode_bitmap \cup {i} \in SUBSET Inode
      BY <2>1
    <2> HIDE DEF z, one
    <2>7. \A y \in 0 .. 1 : NodesBalanced(inode_bitmap \cup {i}, (z - one) + y, g, cuts + 1)
      BY <1>0, <2>2, <2>4, <2>6, NodesBalancedAfter
    <2>8. (z - one) + 0 = z - one /\ 0 \in 0 .. 1 /\ 1 \in 0 .. 1
      BY <2>4
    <2> QED  BY <1>1, <2>5, <2>7, <2>8
  <1>4. FewFreed'
    BY DEF CutWrite, CountInv, FewFreed
  <1>5. CutsLeft'
    BY <1>0, CutsAssumption DEF CutsLeft
  <1> QED  BY <1>2, <1>3, <1>4, <1>5, SettledNext DEF CountInv


\* A delete that is cut keeps them, with one cut more.
LEMMA CutDeleteCounts ==
    ASSUME CountsFit, DiskInv, SmallNodes, CountInv, torn = NoInode, cuts < MaxCuts, cuts' = cuts + 1,
           TypeOK', NEW p \in Inode, NEW i \in Inode, CutDelete(p, i)
    PROVE  CountInv'
  <1>0. TypeOK /\ cuts \in 0 .. MaxCuts /\ node' = node /\ CutDeleteEffect(p, i)
    BY CutDeleteLeaves DEF DiskInv, CrashTypeOK, CountInv, CutsLeft, CutDelete
  <1> DEFINE F == node[i].freed
             U == Unlinked(p, i)
             B == block_bitmap \ F
             I == inode_bitmap \ {i}
  <1>1. /\ i \in inode_bitmap
        /\ F \in SUBSET Block /\ F \subseteq block_bitmap /\ Cardinality(F) <= NDIRECT
        /\ U \in SUBSET B /\ B \in SUBSET Block /\ I \in SUBSET Inode
        /\ IsFiniteSet(U) /\ Cardinality(U) <= 1
    <2>1. /\ p \in Linked /\ i \in Linked /\ IsDir(p) /\ i # Root /\ home[i] \in TableBlocks(p)
          /\ IsDir(i) => IsDirectoryEmpty(i)
      BY DEF CutDelete
    <2>2. i \in inode_bitmap /\ p # i
      BY <2>1, WholeClaims, TakesNoChain DEF DiskInv
    <2>3. Own(p) \subseteq block_bitmap /\ Own(i) \subseteq block_bitmap /\ Own(p) \cap Own(i) = {}
      BY <2>1, <2>2, WholeClaims DEF DiskInv, SoundMarked, ClaimedApart
    <2>4. U \subseteq Own(p) /\ F \subseteq Own(i) /\ U \subseteq {home[i]}
      BY <2>1 DEF Own, Unlinked, Kids
    <2>5. IsFiniteSet({home[i]}) /\ Cardinality({home[i]}) = 1
      BY FS_Singleton
    <2>6. IsFiniteSet(U) /\ Cardinality(U) <= 1
      <3> HIDE DEF U
      <3> QED  BY <2>4, <2>5, FS_Subset
    <2>7. Cardinality(F) <= NDIRECT /\ block_bitmap \in SUBSET Block /\ inode_bitmap \in SUBSET Inode
      BY <1>0 DEF CountInv, FewFreed, TypeOK
    <2> QED  BY <2>2, <2>3, <2>4, <2>6, <2>7
  <1> HIDE DEF U
  <1>2. ASSUME NEW g \in Group
        PROVE  /\ free_blocks_count[g] \in Nat /\ InGroup(F, g) \in 0 .. NDIRECT
               /\ Balanced(B, free_blocks_count[g] + InGroup(F, g), g, cuts)
               /\ Credited(i)[g] = free_blocks_count[g] + InGroup(F, g)
    <2>1. Balanced(block_bitmap, free_blocks_count[g], g, cuts) /\ free_blocks_count[g] \in Nat
          /\ block_bitmap \in SUBSET Block
      BY <1>0, SettledCounts, GeometryAssumption DEF CountInv, TypeOK, Counter
    <2>2. free_blocks_count[g] + InGroup(F, g) < COUNT_MOD
          /\ Balanced(B, free_blocks_count[g] + InGroup(F, g), g, cuts)
      BY <1>0, <1>1, <2>1, BalancedAfterGive
    <2>3. InGroup(F, g) \in Nat /\ InGroup(F, g) <= Cardinality(F) /\ Cardinality(F) \in Nat
      BY <1>1, GroupCounts, BlockFinite
    <2>4. InGroup(F, g) \in 0 .. NDIRECT
      BY <1>1, <2>3, BlockMapAssumption
    <2> QED  BY <1>0, <2>1, <2>2, <2>4, CreditedSmall
  <1>3. ASSUME NEW g \in Group
        PROVE  LET z == free_inodes_count[g]
                   one == Nodes({i}, g)
               IN  /\ z \in Nat /\ one \in 0 .. 1 /\ NodesBalanced(I, z + one, g, cuts)
                   /\ InodesCredited(i, 0)[g] = z /\ InodesCredited(i, 1)[g] = z + one
    <2> DEFINE z == free_inodes_count[g]
               one == Nodes({i}, g)
    <2>1. NodesBalanced(inode_bitmap, z, g, cuts) /\ z \in Nat /\ inode_bitmap \in SUBSET Inode
          /\ free_inodes_count \in [Group -> Counter]
      BY <1>0, SettledCounts, GeometryAssumption DEF CountInv, TypeOK, Counter
    <2>2. z + one < COUNT_MOD /\ NodesBalanced(I, z + one, g, cuts)
      BY <1>0, <1>1, <2>1, NodesBalancedAfter
    <2>3. one \in 0 .. 1
      <3>1. one = IF i[1] = g THEN 1 ELSE 0
        BY NodeCounts
      <3> QED  BY <3>1
    <2>4. InodesCredited(i, 1)[g] = z + one
      BY <2>1, <2>2, InodeCountersMove DEF InodesCredited
    <2>5. InodesCredited(i, 0)[g] = z
      <3>1. i[1] \in Group /\ free_inodes_count[i[1]] \in 0 .. COUNT_MOD - 1 /\ COUNT_MOD \in Nat \ {0}
        BY <2>1, GeometryAssumption DEF Counter, Inode
      <3> DEFINE a == free_inodes_count[i[1]]
      <3>2. a \in Int /\ a \in 0 .. COUNT_MOD - 1 /\ a + 0 = a
        BY <3>1
      <3> HIDE DEF a
      <3>3. (a + 0) % COUNT_MOD = a
        BY <3>1, <3>2, ModRange
      <3>4. [free_inodes_count EXCEPT ![i[1]] = a] = free_inodes_count
        BY <2>1 DEF a
      <3> QED  BY <3>3, <3>4 DEF InodesCredited, a
    <2> QED  BY <2>1, <2>2, <2>3, <2>4, <2>5
  <1>4. FewFreed' /\ CutsLeft'
    BY <1>0, CutsAssumption DEF CountInv, FewFreed, CutsLeft
  <1>5. CASE torn' = i
    <2>1. /\ block_bitmap' \ F = B /\ inode_bitmap' \ {i} = I
          /\ free_blocks_count' \in {free_blocks_count, Credited(i)}
          /\ free_inodes_count' \in {free_inodes_count, InodesCredited(i, 0), InodesCredited(i, 1)}
      BY <1>0, <1>5, NoInodeIsNone DEF CutDeleteEffect
    <2>2. Pending' = F
      BY <1>0, <1>5, NoInodeIsNone DEF Pending
    <2>3. ASSUME NEW g \in Group
          PROVE  Balanced(B, free_blocks_count'[g] + InGroup(F, g), g, cuts + 1)
      <3> DEFINE x == free_blocks_count[g]
                 f == InGroup(F, g)
      <3>1. x \in Nat /\ f \in 0 .. NDIRECT /\ Balanced(B, x + f, g, cuts) /\ NDIRECT \in Nat
        BY <1>2, BlockMapAssumption
      <3>2. free_blocks_count'[g] = x \/ free_blocks_count'[g] = x + f
        BY <1>2, <2>1
      <3> HIDE DEF x, f, B
      <3>3. x + f \in Nat /\ (x + f) + 0 = x + f /\ 0 \in 0 .. NDIRECT
        BY <3>1
      <3>4. \A y \in 0 .. NDIRECT : Balanced(B, (x + f) + y, g, cuts + 1)
        BY <1>0, <1>1, <3>1, <3>3, BalancedAfterCut
      <3> QED  BY <3>1, <3>2, <3>3, <3>4 DEF f
    <2>4. ASSUME NEW g \in Group
          PROVE  NodesBalanced(I, free_inodes_count'[g] + Nodes({i}, g), g, cuts + 1)
      <3> DEFINE z == free_inodes_count[g]
                 one == Nodes({i}, g)
      <3>1. z \in Nat /\ one \in 0 .. 1 /\ NodesBalanced(I, z + one, g, cuts)
        BY <1>3
      <3>2. free_inodes_count'[g] = z \/ free_inodes_count'[g] = z + one
        BY <1>3, <2>1
      <3> HIDE DEF z, one, I
      <3>3. z + one \in Nat /\ (z + one) + 0 = z + one /\ 0 \in 0 .. 1
        BY <3>1
      <3>4. \A y \in 0 .. 1 : NodesBalanced(I, (z + one) + y, g, cuts + 1)
        BY <1>0, <1>1, <3>1, <3>3, NodesBalancedAfter
      <3> QED  BY <3>1, <3>2, <3>3, <3>4 DEF one
    <2>5. BlocksCounted'
      BY <2>1, <2>2, <2>3 DEF BlocksCounted, InGroup
    <2>6. NodesCounted'
      BY <1>5, <2>1, <2>4 DEF NodesCounted, Nodes
    <2> QED  BY <1>4, <2>5, <2>6 DEF CountInv
  <1>6. CASE torn' # i
    <2>1. /\ torn' = NoInode
          /\ \E S \in SUBSET (F \cup U) : block_bitmap' = block_bitmap \ S /\ F \subseteq S
          /\ inode_bitmap' = I
          /\ free_blocks_count' = Credited(i)
          /\ free_inodes_count' = InodesCredited(i, 1)
      BY <1>0, <1>6 DEF CutDeleteEffect, U
    <2>2. PICK S \in SUBSET (F \cup U) : block_bitmap' = block_bitmap \ S /\ F \subseteq S
      BY <2>1
    <2> DEFINE T == S \ F
    <2>3. block_bitmap' = B \ T /\ T \subseteq U /\ T \subseteq B /\ T \in SUBSET Block
      BY <1>1, <2>2
    <2> HIDE DEF T
    <2>4. Cardinality(T) <= 1 /\ Cardinality(T) \in Nat
      BY <1>1, <2>3, BlockFinite, FS_Subset
    <2>5. ASSUME NEW g \in Group PROVE Balanced(block_bitmap', free_blocks_count'[g], g, cuts')
      <3> DEFINE x == free_blocks_count[g] + InGroup(F, g)
      <3>1. Balanced(B, x, g, cuts) /\ free_blocks_count'[g] = x
            /\ free_blocks_count[g] \in Nat /\ InGroup(F, g) \in 0 .. NDIRECT
        BY <1>2, <2>1
      <3>4. x \in Nat
        BY <3>1
      <3>2. InGroup(T, g) <= 1
        <4>1. InGroup(T, g) <= Cardinality(T) /\ InGroup(T, g) \in Nat
          BY <2>3, GroupCounts
        <4> QED  BY <2>4, <4>1
      <3> HIDE DEF x, B
      <3>3. Balanced(B \ T, x, g, cuts + 1)
        BY <1>0, <1>1, <2>3, <3>1, <3>2, <3>4, BalancedAfterCut
      <3> QED  BY <2>3, <3>1, <3>3
    <2>6. ASSUME NEW g \in Group PROVE NodesBalanced(inode_bitmap', free_inodes_count'[g], g, cuts')
      <3> DEFINE z == free_inodes_count[g] + Nodes({i}, g)
      <3>1. NodesBalanced(I, z, g, cuts) /\ free_inodes_count'[g] = z
            /\ free_inodes_count[g] \in Nat /\ Nodes({i}, g) \in 0 .. 1
        BY <1>3, <2>1
      <3>4. z \in Nat
        BY <3>1
      <3> HIDE DEF z, I
      <3>2. \A y \in 0 .. 1 : NodesBalanced(I, z + y, g, cuts + 1)
        BY <1>0, <1>1, <3>1, <3>4, NodesBalancedAfter
      <3>3. 0 \in 0 .. 1 /\ z + 0 = z
        BY <3>4
      <3> QED  BY <2>1, <3>1, <3>2, <3>3
    <2> QED  BY <1>4, <2>1, <2>5, <2>6, SettledNext DEF CountInv
  <1> QED  BY <1>5, <1>6


\* Every step keeps them.
LEMMA CountInductive ==
    ASSUME MaxFileBlocks <= NDIRECT, CountsFit
    PROVE  DiskInv /\ DiskInv' /\ SmallNodes /\ CountInv /\ [CrashNext]_crashVars => CountInv'
  <1> SUFFICES ASSUME DiskInv, DiskInv', SmallNodes, CountInv, [CrashNext]_crashVars PROVE CountInv'
    OBVIOUS
  <1>0. TypeOK' /\ Linked \subseteq Inode
    BY DEF DiskInv, CrashTypeOK, TypeOK, Linked
  <1>1. 1 \in Nat /\ 1 <= NDIRECT /\ \A n \in 1 .. MaxFileBlocks : n \in Nat /\ n <= NDIRECT
    BY BlockMapAssumption, GeometryAssumption
  <1>2. CASE Whole
    <2>1. torn = NoInode /\ UNCHANGED <<cuts, torn, lost>>
      BY <1>2 DEF Whole
    <2>2. ASSUME NEW p \in Linked, NEW extend \in BOOLEAN, NodeAvailable, MakeFolder(p, extend)
          PROVE  CountInv'
      BY <1>0, <1>1, <2>1, <2>2, WholeWriteCounts DEF MakeFolder
    <2>3. ASSUME NEW p \in Linked, NEW n \in 1 .. MaxFileBlocks, NEW extend \in BOOLEAN,
                 NodeAvailable, WriteFile(p, n, extend)
          PROVE  CountInv'
      BY <1>0, <1>1, <2>1, <2>3, WholeWriteCounts DEF WriteFile
    <2>4. ASSUME NEW p \in Linked, NEW i \in Linked, Delete(p, i) PROVE CountInv'
      BY <1>0, <2>1, <2>4, WholeDeleteCounts
    <2>5. ASSUME NEW i \in Linked, NEW p \in Linked, NEW q \in Linked, NEW extend \in BOOLEAN,
                 MoveDir(i, p, q, extend)
          PROVE  CountInv'
      BY <1>0, <2>1, <2>5, WholeMoveCounts
    <2> QED  BY <1>2, <2>2, <2>3, <2>4, <2>5 DEF Whole
  <1>3. CASE Cut
    <2>1. torn = NoInode /\ cuts < MaxCuts /\ cuts' = cuts + 1
      BY <1>3 DEF Cut
    <2>2. ASSUME NEW p \in Inode, NEW n \in 1 .. MaxFileBlocks, CutWrite(p, n), torn' = torn
          PROVE  CountInv'
      BY <1>0, <1>1, <2>1, <2>2, CutWriteCounts
    <2>3. ASSUME NEW p \in Inode, NEW i \in Inode, CutDelete(p, i) PROVE CountInv'
      BY <1>0, <2>1, <2>3, CutDeleteCounts
    <2> QED  BY <1>3, <2>2, <2>3 DEF Cut
  <1>4. ASSUME NEW p \in Inode, Redo(p) PROVE CountInv'
    BY <1>0, <1>4, RedoCounts
  <1>5. CASE UNCHANGED crashVars
    BY <1>5 DEF crashVars, vars, CountInv, CutsLeft, FewFreed, BlocksCounted, NodesCounted, Pending
  <1> QED  BY <1>2, <1>3, <1>4, <1>5 DEF CrashNext

\* However often the machine is switched off, each cut makes a group's counter of
\* blocks say at most one too few, so that search_blocks and allocate_node miss no
\* more than that; without a cut the counters are exact.  It holds if no file needs a
\* pointer block and no counter can wrap.
THEOREM CountersHideAtMostOne ==
    ASSUME MaxFileBlocks <= NDIRECT, CountsFit PROVE CrashSpec => []CountsHideAtMostOne
  <1>1. TypeOK /\ CountInv => CountsHideAtMostOne
    <2> SUFFICES ASSUME TypeOK, CountInv, torn = NoInode, NEW g \in Group
                 PROVE  LET clear == BLOCKS_PER_GROUP - InGroup(block_bitmap, g)
                            free  == INODES_PER_GROUP - Nodes(inode_bitmap, g)
                        IN  /\ free_blocks_count[g] >= clear - cuts
                            /\ free_inodes_count[g] >= free
                            /\ cuts = 0 => free_blocks_count[g] = clear /\ free_inodes_count[g] = free
      BY DEF CountsHideAtMostOne, InGroup, Nodes
    <2>1. /\ Balanced(block_bitmap, free_blocks_count[g], g, cuts)
          /\ NodesBalanced(inode_bitmap, free_inodes_count[g], g, cuts)
      BY SettledCounts DEF CountInv
    <2>2. free_blocks_count[g] \in Int /\ free_inodes_count[g] \in Int
          /\ InGroup(block_bitmap, g) \in Int /\ Nodes(inode_bitmap, g) \in Int
      <3>1. block_bitmap \in SUBSET Block /\ inode_bitmap \in SUBSET Inode
        BY DEF TypeOK
      <3>2. InGroup(block_bitmap, g) \in Int
        <4>1. \A S \in SUBSET Block : InGroup(S, g) \in Nat
          BY GroupCounts
        <4> QED  BY <3>1, <4>1
      <3>3. Root \in Inode
        BY NoInodeIsNone
      <3>4. Nodes(inode_bitmap, g) \in Int
        <4>1. \A S \in SUBSET Inode : Nodes(S, g) \in 0 .. INODES_PER_GROUP
          BY <3>3, NodeCounts
        <4> QED  BY <3>1, <4>1, GeometryAssumption
      <3> QED  BY <3>2, <3>4, GeometryAssumption DEF TypeOK, Counter
    <2>3. 0 * NDIRECT = 0
      BY BlockMapAssumption
    <2> QED  BY <2>1, <2>2, <2>3, GeometryAssumption DEF Balanced, NodesBalanced
  <1>2. DiskInv => TypeOK
    BY DEF DiskInv, CrashTypeOK
  <1>3. CrashInit => CountInv
    BY InitCounts
  <1>4. DiskInv /\ DiskInv' /\ SmallNodes /\ CountInv /\ [CrashNext]_crashVars => CountInv'
    BY CountInductive
  <1>5. CrashSpec => []SmallNodes
    BY SmallAlways
  <1> QED  BY <1>1, <1>2, <1>3, <1>4, <1>5, DiskAlways, PTL DEF CrashSpec
=============================================================================
