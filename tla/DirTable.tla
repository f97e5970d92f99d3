------------------------------ MODULE DirTable ------------------------------
(***************************************************************************)
(* The directory tables of the EXT2 driver, word by word: entries of       *)
(* variable length in blocks that are chained by an entry of type NEXT,    *)
(* with whatever the words held before wherever the code does not write.   *)
(* One block group; a file owns no block here (Ext2Alloc has the blocks).  *)
(*                                                                         *)
(* An entry at word o: its inode (or, for NEXT, a block) in word o, its    *)
(* rec_len, file_type and name in word o+1 and the ones after it.  The     *)
(* name is kept with word o+1.  A free entry is one whose inode is 0; the  *)
(* code that frees one leaves its other words alone.                       *)
(***************************************************************************)
EXTENDS Integers, Sequences, FiniteSets

CONSTANTS Names,
          LongNames,    \* names of four to seven characters; others are shorter
          WORDS,        \* 4-byte words of a block, BLOCK_SIZE / 4
          MaxInode,     \* bound: inodes in use at a time
          MaxBlock,     \* bound: blocks for tables
          StackTypes    \* file types in the uninitialised part of a new table

\* a NEXT has no name
NoName == ""

ASSUME DirTableAssumption ==
    /\ LongNames \subseteq Names /\ LongNames \cap {NoName, ".", ".."} = {}
    /\ WORDS \in Nat /\ WORDS >= 13
    /\ MaxInode \in Nat \ {0} /\ MaxBlock \in Nat \ {0}
    /\ StackTypes \subseteq {"none", "REG", "DIR", "NEXT"}

Inode == 1 .. MaxInode
Root  == 1
Blk   == 1 .. MaxBlock
Word  == 0 .. WORDS - 1

\* get_directory_record_length / 4: a header of two words and the name with its NUL
RecLen(n) == IF n \in LongNames THEN 4 ELSE 3

\* where the third entry of a directory's first table starts
FirstChild == RecLen(".") + RecLen("..")

\* offset of the first word an entry may not reach: room for a NEXT
SpaceTotal == WORDS - RecLen(NoName)

\* a word as an inode field and as the second word of an entry; the second
\* word of an entry and those of a name are no block number
Junk == MaxInode + MaxBlock + 1
Num(i) == [inode |-> i, type |-> "none", rec |-> 0, name |-> NoName]
Meta(n, type) == [inode |-> Junk, type |-> type, rec |-> RecLen(n), name |-> n]
Pad == [inode |-> Junk, type |-> "none", rec |-> 0, name |-> NoName]

VARIABLES disk,     \* block -> its words
          first,    \* node->block[0] of a directory, 0 for what is not one
          used,     \* inodes that are allocated
          free      \* blocks that are not
vars == <<disk, first, used, free>>

LiveDirs == {d \in used : first[d] # 0}

-----------------------------------------------------------------------------
(* Following a chain on disk s.  A place is a block and the offset of an    *)
(* entry's first word in it.                                                *)

Place    == [b : Blk, o : 0 .. WORDS - 2]
At(b, o) == [b |-> b, o |-> o]

InodeOn(s, x) == s[x.b][x.o].inode
MetaOn(s, x)  == s[x.b][x.o + 1]
IsNext(s, x)  == MetaOn(s, x).type = "NEXT"
After(s, x)   == IF IsNext(s, x) THEN At(InodeOn(s, x), 0)
                                 ELSE At(x.b, x.o + MetaOn(s, x).rec)

\* the loops stop at a free entry, whatever they look at first there; from a
\* word that is no entry's they may get out of the table, or nowhere
Stops(s, x) == InodeOn(s, x) = 0 \/ After(s, x) \notin Place \ {x}

Walk(s, a) ==
    LET walk[x \in Place] ==
          {x} \cup (IF Stops(s, x) THEN {} ELSE walk[After(s, x)])
    IN  walk[a]

InodeAt(x) == InodeOn(disk, x)
MetaAt(x)  == MetaOn(disk, x)

\* the places of a directory after "." and "..": its entries, the NEXTs between
\* its tables, and the free entry where it ends
Children(d) == At(first[d], FirstChild)
Visited(d)  == Walk(disk, Children(d))
IsEntry(s, x) == InodeOn(s, x) # 0 /\ ~IsNext(s, x)
Entries(d)  == {x \in Visited(d) : IsEntry(disk, x)}
End(d)      == CHOOSE x \in Visited(d) : InodeAt(x) = 0

\* the NEXT that led to the table of x
Into(d, x) == CHOOSE y \in Visited(d) : IsNext(disk, y) /\ InodeAt(y) = x.b

\* is_directory_entry_same
Same(x, n, type) == MetaAt(x).type = type /\ MetaAt(x).name = n

Listing(d) ==
    IF d \in LiveDirs
    THEN {<<MetaAt(x).name, MetaAt(x).type, InodeAt(x)>> : x \in Entries(d)}
    ELSE {}

D == INSTANCE Directory WITH entry <- [d \in Inode |-> Listing(d)]

-----------------------------------------------------------------------------
(* Writing into a table.                                                    *)

\* an entry and the inode field of the terminator after it
PutEntry(t, o, i, type, n) ==
    [w \in Word |-> IF w = o THEN Num(i)
                    ELSE IF w = o + 1 THEN Meta(n, type)
                    ELSE IF w > o /\ w < o + RecLen(n) THEN Pad
                    ELSE IF w = o + RecLen(n) THEN Num(0)
                    ELSE t[w]]

\* the free entry at o becomes the pointer to the next table
PutNext(t, o, b) == [t EXCEPT ![o] = Num(b), ![o + 1] = Meta(NoName, "NEXT")]

\* a shift of everything from o on by rec words, the last rec words stay
Shift(t, o, rec) ==
    [w \in Word |-> IF w >= o /\ w + rec < WORDS THEN t[w + rec] ELSE t[w]]

\* init_directory_table, on top of what the stack holds
NewTable(i, parent, type) ==
    PutEntry(PutEntry([w \in Word |-> [Pad EXCEPT !.type = type]], 0, i, "DIR", "."),
             RecLen("."), parent, "DIR", "..")

\* search_blocks for one block, allocate_node
Lowest(S) == CHOOSE x \in S : \A y \in S : x <= y

-----------------------------------------------------------------------------
Init ==
    /\ \E type \in StackTypes :
          disk = [b \in Blk |-> IF b = 1 THEN NewTable(Root, Root, type)
                                         ELSE [w \in Word |-> Pad]]
    /\ first = [i \in Inode |-> IF i = Root THEN 1 ELSE 0]
    /\ used = {Root}
    /\ free = Blk \ {1}

\* the insertion loop of write and move_dir looks for NEXT before it looks at the
\* inode: from a free entry that looks like a NEXT it goes on to block 0, and
\* anything may happen
Ends(p) == \E x \in Visited(p) : InodeAt(x) = 0 /\ ~IsNext(disk, x)

\* mutant: only the first table is searched for the name
TakenInFirst(p, n) == \E x \in Entries(p) : x.b = first[p] /\ MetaAt(x).name = n

\* an entry of p already has the name, of whatever type
Taken(p, n) == \E x \in Entries(p) : MetaAt(x).name = n

\* what write does to the tables of p: the block and offset of the new entry,
\* the disk with it, and the blocks left
Insert(p, n, type, i) ==
    LET end == End(p)
        new == Lowest(free)
    IN  IF end.o + RecLen(n) <= SpaceTotal
        THEN [disk |-> [disk EXCEPT ![end.b] = PutEntry(@, end.o, i, type, n)],
              free |-> free]
        ELSE [disk |-> [disk EXCEPT ![end.b] = PutNext(@, end.o, new),
                                    ![new]   = PutEntry(@, 0, i, type, n)],
              free |-> free \ {new}]

Fits(p, n) == End(p).o + RecLen(n) <= SpaceTotal

\* write, as long as there are inodes and blocks
Write(p, n, type) ==
    /\ p \in LiveDirs /\ Ends(p)
    /\ ~Taken(p, n)
    /\ used # Inode
    /\ Cardinality(free) >= (IF Fits(p, n) THEN 0 ELSE 1) + (IF type = "DIR" THEN 1 ELSE 0)
    /\ \E i \in {Lowest(Inode \ used)}, r \in {Insert(p, n, type, Lowest(Inode \ used))} :
         /\ used' = used \cup {i}
         /\ IF type = "DIR"
            THEN /\ \E junk \in StackTypes :
                       disk' = [r.disk EXCEPT ![Lowest(r.free)] = NewTable(i, p, junk)]
                 /\ first' = [first EXCEPT ![i] = Lowest(r.free)]
                 /\ free' = r.free \ {Lowest(r.free)}
            ELSE /\ disk' = r.disk /\ free' = r.free
                 /\ first' = [first EXCEPT ![i] = 0]

MakeFolder(p, n) == Write(p, n, "DIR")
WriteFile(p, n)  == Write(p, n, "REG")

\* mutant: a table is never freed
UnlinksNever(t, x, rec) == FALSE

\* the end of delete and move_dir: table t, read from the block of x, loses the
\* entry at x that was rec words long, or leaves the chain if that was all
Unlinks(t, x, rec) ==
    x.o = 0 /\ (t[rec].inode = 0 \/ t[rec + 1].type = "NEXT")

\* mutant: the entry that led to the table keeps its type
TakeOutKeepsType(s, t, x, y, rec, shift) ==
    IF Unlinks(t, x, rec)
    THEN [s EXCEPT ![y.b] = [disk[y.b] EXCEPT ![y.o] = Num(t[rec].inode)]]
    ELSE [s EXCEPT ![x.b] = Shift(t, x.o, shift)]

\* y is the NEXT that led to the table
TakeOut(s, t, x, y, rec, shift) ==
    IF Unlinks(t, x, rec)
    THEN [s EXCEPT ![y.b] = [disk[y.b] EXCEPT
                               ![y.o] = Num(t[rec].inode),
                               ![y.o + 1] = [@ EXCEPT !.type = t[rec + 1].type]]]
    ELSE [s EXCEPT ![x.b] = Shift(t, x.o, shift)]

IsDirectoryEmpty(i) == disk[first[i]][FirstChild].inode = 0

\* delete; the inode keeps its mode and its blocks
Delete(p, n, type) ==
    /\ p \in LiveDirs
    /\ \E x \in Entries(p) :
         /\ Same(x, n, type)
         /\ type = "DIR" => IsDirectoryEmpty(InodeAt(x))
         /\ disk' = TakeOut(disk, disk[x.b], x, Into(p, x), MetaAt(x).rec, MetaAt(x).rec)
         /\ used' = used \ {InodeAt(x)}
         /\ free' = free \cup (IF type = "DIR" THEN {first[InodeAt(x)]} ELSE {})
                         \cup (IF Unlinks(disk[x.b], x, MetaAt(x).rec) THEN {x.b} ELSE {})
    /\ UNCHANGED first

-----------------------------------------------------------------------------
(* move_dir: directory n of p becomes m of q.  The destination is a path;   *)
(* the caller's directory and a new name m, or a directory that exists,     *)
(* where the name stays n.  The table that holds the entry is read into     *)
(* to_deleted_block before the insertion, which works on that copy if it    *)
(* gets to the same block.                                                  *)

\* the insertion extends the chain from the very table the entry leaves: the
\* new block is read over the copy, and the new entry is put into another buffer
ExtendsOwnTable(x, end, m) == end.b = x.b /\ end.o + RecLen(m) > SpaceTotal

\* mutant: ".." is left as it was
HeaderOwnOnly(t, i, q) == [t EXCEPT ![0] = Num(i)]

\* after the header of directory i names its new parent
Header(t, i, q) == [t EXCEPT ![0] = Num(i), ![RecLen(".")] = Num(q)]

MoveDir(p, n, q, m) ==
    LET end == End(q)
        new == Lowest(free)
    IN  /\ {p, q} \subseteq LiveDirs /\ Ends(q)
        /\ ~Taken(q, m)
        /\ Fits(q, m) \/ free # {}
        /\ \E x \in Entries(p) :
             /\ Same(x, n, "DIR")
             /\ \E i \in {InodeAt(x)}, rec \in {MetaAt(x).rec},
                   r \in {IF ExtendsOwnTable(x, end, m)
                          THEN [disk |-> [disk EXCEPT ![end.b] = PutNext(@, end.o, new)],
                                free |-> free \ {new}]
                          ELSE Insert(q, m, "DIR", InodeAt(x))} :
                \E d \in {[r.disk EXCEPT ![first[i]] = Header(@, i, q)]} :
                \E t \in {IF ExtendsOwnTable(x, end, m) THEN disk[new] ELSE d[x.b]} :
                   \* shifted by the length of ".", which entry points at
                   /\ disk' = TakeOut(d, t, x, Into(p, x), rec, RecLen("."))
                   /\ free' = r.free \cup IF Unlinks(t, x, rec) THEN {x.b} ELSE {}
        /\ UNCHANGED <<first, used>>

\* read_directory, as resolve_path and the shell call it: an entry at offset 0
\* is taken for ".", so the parent's node is written over the entry's
ReadDirectory(p, n) ==
    /\ p \in LiveDirs
    /\ \E x \in Entries(p) :
         /\ Same(x, n, "DIR")
         /\ first' = IF x.o = 0 THEN [first EXCEPT ![InodeAt(x)] = first[p]] ELSE first
    /\ UNCHANGED <<disk, used, free>>

-----------------------------------------------------------------------------
(* What the code does wrong in every build is left out of Next: a lookup of *)
(* a directory whose entry starts a chained table, and a move of a long     *)
(* name, out of a full table it extends itself, or into the directory's own *)
(* sub-tree.                                                                *)

NotFirst(p, n) == \A x \in Entries(p) : Same(x, n, "DIR") => x.o # 0

Outside(p, n, q) ==
    \A x \in Entries(p) : Same(x, n, "DIR") => ~D!Within(q, InodeAt(x))

OtherTable(p, n, q, m) ==
    \A x \in Entries(p) :
        Same(x, n, "DIR") => ~ExtendsOwnTable(x, End(q), m)

Lookup(p, n)     == NotFirst(p, n) /\ ReadDirectory(p, n)
Move(p, n, q, m) ==
    n \notin LongNames /\ Outside(p, n, q) /\ OtherTable(p, n, q, m) /\ MoveDir(p, n, q, m)

Next ==
    \/ \E p \in LiveDirs, n \in Names : MakeFolder(p, n)
    \/ \E p \in LiveDirs, n \in Names : WriteFile(p, n)
    \/ \E p \in LiveDirs, n \in Names, type \in {"REG", "DIR"} : Delete(p, n, type)
    \/ \E p, q \in LiveDirs, n, m \in Names : Move(p, n, q, m)
    \/ \E p \in LiveDirs, n \in Names : Lookup(p, n)

Spec == Init /\ [][Next]_vars

-----------------------------------------------------------------------------
\* Every operation changes exactly the entries that Directory says: a name that
\* was written is found until it is deleted or moved, whatever happens to the
\* tables around it.
ImplementsDirectory == D!Spec

\* No write goes on to a next table from an entry that is free ("value 0
\* indicate entry not used", ext2-api.h).  True with at most one chained table
\* and names of one length: a shift by another length can leave a NEXT's type
\* behind a free entry.
NeverAstray == \A p \in LiveDirs : Ends(p)

\* the tables of a directory
Chain(d) == {first[d]} \cup {x.b : x \in Entries(d)}

\* Every block is free or a table of exactly one directory: a table that became
\* empty is unlinked and freed, one that did not is neither.
TablesPartition ==
    /\ \A c, d \in LiveDirs : c # d => Chain(c) \cap Chain(d) = {}
    /\ UNION {Chain(d) : d \in LiveDirs} = Blk \ free

\* A directory's table says who it is and who its parent is, after any moves:
\* ".." of an entry's directory is the directory the entry is in.
ParentLinks ==
    \A d \in LiveDirs :
        /\ disk[first[d]][0].inode = d
        /\ \A x \in Entries(d) : MetaAt(x).type = "DIR" =>
              /\ InodeAt(x) \in LiveDirs
              /\ disk[first[InodeAt(x)]][RecLen(".")].inode = d
=============================================================================
