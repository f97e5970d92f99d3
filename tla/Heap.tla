-------------------------------- MODULE Heap --------------------------------
(***************************************************************************)
(* The user heap of memory.c: malloc, free and realloc on one page frame.  *)
(* The code steps through the heap with a struct allocator pointer, so an  *)
(* entry's size, in bytes for the caller, is a number of whole headers for *)
(* the chain: addresses here count headers (SIZEOF bytes each).            *)
(*                                                                         *)
(* The frame is zeroed when it is mapped; a free entry of size 0 stands    *)
(* for the memory that was never used.                                     *)
(***************************************************************************)
EXTENDS Integers, FiniteSets

CONSTANTS SIZEOF,   \* sizeof(struct allocator), 12 in the code
          HEAP,     \* headers in the frame, PAGE_FRAME_SIZE / SIZEOF
          Sizes     \* bound: sizes the program asks for

ASSUME HeapAssumption ==
    SIZEOF \in Nat \ {0} /\ HEAP \in Nat \ {0} /\ Sizes \subseteq Nat \ {0}

Addr == 0 .. HEAP - 1
Zero == [size |-> 0, prevsize |-> 0, is_allocated |-> FALSE]

VARIABLES heap,   \* the frame, read as a header at each address
          live    \* <<entry, size, k>> of what the program has and did not free;
                  \* k tells apart what was given out twice
vars == <<heap, live>>

\* a read past the frame finds nothing
At(h, u) == IF u \in Addr THEN h[u] ELSE Zero
Put(h, u, header) == [a \in Addr |-> IF a = u THEN header ELSE h[a]]

After(h, u) == u + SIZEOF + At(h, u).size

\* a loop: Step leaves alone what the condition of the loop stops at, and no loop
\* over the entries makes more steps than the frame has headers
Repeat(start, Step(_)) ==
    LET after[k \in 0 .. HEAP] == IF k = 0 THEN start ELSE Step(after[k - 1])
    IN  after[HEAP]

-----------------------------------------------------------------------------
(* malloc                                                                   *)

PassAllocated(h, w) ==
    IF w.at < HEAP /\ h[w.at].is_allocated
    THEN [at |-> After(h, w.at), prevsize |-> h[w.at].size] ELSE w

\* the first free entry and the size of the entry before it
FirstFree(h) == Repeat([at |-> 0, prevsize |-> 0], LAMBDA w : PassAllocated(h, w))

\* an entry that is not larger by a header is taken whole
FitsExactly(e, size) == e.size - size < SIZEOF

\* the heap after the entry at u is taken for size; one that is too small is
\* taken as well, and the one after it handed out
TakeEntry(h, u, prevsize, size) ==
    LET e == h[u]
        taken == [e EXCEPT !.is_allocated = TRUE, !.prevsize = prevsize]
    IN  IF e.size = 0
        THEN [heap |-> Put(h, u, [taken EXCEPT !.size = size]), entry |-> u]
        ELSE IF e.size < size
        THEN [heap |-> Put(h, u, taken), entry |-> After(h, u)]
        ELSE IF FitsExactly(e, size)
        THEN [heap |-> Put(h, u, taken), entry |-> u]
        ELSE [heap |-> Put(Put(h, u, [taken EXCEPT !.size = size]), u + size + SIZEOF,
                           [size |-> e.size - size - SIZEOF, prevsize |-> size,
                            is_allocated |-> FALSE]),
              entry |-> u]

\* the units the caller writes: size bytes after the header
Data(x) == x[1] + 1 .. x[1] + (x[2] + SIZEOF - 1) \div SIZEOF

\* what the caller's bytes look like as a header
Bytes == {Zero, [size |-> 1, prevsize |-> 1, is_allocated |-> FALSE],
                [size |-> 1, prevsize |-> 1, is_allocated |-> TRUE]}

\* what the program has once it is given an entry
Given(have, entry, size) ==
    have \cup {<<entry, size, Cardinality({y \in have : y[1] = entry /\ y[2] = size})>>}

Malloc(size) ==
    LET f == FirstFree(heap)
    IN  IF f.at >= HEAP THEN UNCHANGED vars
        ELSE \E r \in {TakeEntry(heap, f.at, f.prevsize, size)}, bytes \in Bytes :
               /\ live' = Given(live, r.entry, size)
               /\ heap' = [a \in Addr |-> IF a \in Data(<<r.entry, size>>) THEN bytes
                                          ELSE r.heap[a]]

-----------------------------------------------------------------------------
(* free                                                                     *)

\* mutant: whether the neighbour is in use is not asked
IsFreeAnyway(h, u) == At(h, u).size # 0

IsFree(h, u) == ~At(h, u).is_allocated /\ At(h, u).size # 0

Absorb(u, w) ==
    IF w.next < HEAP /\ IsFree(w.heap, w.next)
    THEN [heap |-> [w.heap EXCEPT ![u].size = @ + w.heap[w.next].size + SIZEOF],
          next |-> After(w.heap, w.next)]
    ELSE w

\* the free entries that follow u are added to its size
Forward(h, u) == Repeat([heap |-> h, next |-> After(h, u)], LAMBDA w : Absorb(u, w)).heap

Prev(w) == w.current - w.heap[w.current].prevsize - SIZEOF

JoinPrev(w) ==
    IF Prev(w) >= 0 /\ IsFree(w.heap, Prev(w))
    THEN [heap |-> [w.heap EXCEPT ![Prev(w)].size = @ + w.heap[w.current].size + SIZEOF],
          current |-> Prev(w)]
    ELSE w

\* u is added to the free entry before it, and so on; the prevsize of the entry
\* that follows is left as it was
Backward(h, u) == Repeat([heap |-> h, current |-> u], JoinPrev).heap

\* mutant: no merging with what comes before
FreeForwardOnly(h, u) == Forward([h EXCEPT ![u].is_allocated = FALSE], u)

FreeEntry(h, u) == Backward(Forward([h EXCEPT ![u].is_allocated = FALSE], u), u)

\* free of something that is not marked as allocated answers FALSE
Free(x) ==
    /\ x \in live
    /\ live' = live \ {x}
    /\ heap' = IF At(heap, x[1]).is_allocated THEN FreeEntry(heap, x[1]) ELSE heap

\* realloc: malloc, copy, free of the old; a free that fails gives the new one
\* back instead
Realloc(x, size) ==
    LET f == FirstFree(heap)
    IN  /\ x \in live
        /\ f.at < HEAP
        /\ \E r \in {TakeEntry(heap, f.at, f.prevsize, size)}, bytes \in Bytes :
           \E h \in {[a \in Addr |-> IF a \in Data(<<r.entry, size>>) THEN bytes ELSE r.heap[a]]} :
             IF At(h, x[1]).is_allocated
             THEN /\ heap' = FreeEntry(h, x[1])
                  /\ live' = Given(live, r.entry, size) \ {x}
             ELSE /\ heap' = IF At(h, r.entry).is_allocated THEN FreeEntry(h, r.entry) ELSE h
                  /\ live' = live

-----------------------------------------------------------------------------
(* The callers that the allocator serves well ask for one size only, and    *)
(* free a block that would be merged with a free neighbour only when no     *)
(* block after it is live.                                                  *)

LastLive(x)  == \A y \in live : y[1] <= x[1]
NextLive(x)  == \E y \in live : y[1] = After(heap, x[1])
PrevLive(x)  == x[1] = 0 \/ \E y \in live : After(heap, y[1]) = x[1]
FreesSafely(x) == LastLive(x) \/ (NextLive(x) /\ PrevLive(x))

Init == heap = [u \in Addr |-> Zero] /\ live = {}

Next == \/ \E size \in Sizes : Malloc(size)
        \/ \E x \in live : FreesSafely(x) /\ Free(x)
        \/ \E x \in live, size \in Sizes : FreesSafely(x) /\ Realloc(x, size)

Spec == Init /\ [][Next]_vars

\* a program that frees in any order; the snake game frees its arrays in the
\* order in which it asked for them
NextAnyOrder == \/ \E size \in Sizes : Malloc(size)
                \/ \E x \in live : Free(x)
SpecAnyOrder == Init /\ [][NextAnyOrder]_vars

-----------------------------------------------------------------------------
IsEntry(u) == u < HEAP /\ (heap[u].is_allocated \/ heap[u].size # 0)

AddEntry(w) ==
    IF IsEntry(w.at) THEN [at |-> After(heap, w.at), passed |-> w.passed \cup {w.at}] ELSE w

\* the entries malloc steps through
Chain == Repeat([at |-> 0, passed |-> {}], AddEntry).passed

\* What malloc has handed out and was not freed is never handed out again, in
\* part or in whole, and no header is in it.
DataDisjoint ==
    \A x, y \in live : x # y =>
        ({x[1]} \cup Data(x)) \cap ({y[1]} \cup Data(y)) = {}

\* Every live block is an entry of the chain and every allocated entry is
\* live: no free merges an entry with one that is not free ("B dan C digabung",
\* memory.c), and none is lost.
ChainIsLive == {u \in Chain : heap[u].is_allocated} = {x[1] : x \in live}

\* "B dan C digabung" (memory.c:96-97, B and C are merged, where B is an "empty
\* memory block"): what free merges into a free entry was free, so a free entry
\* reaches over no live block.
MergesFreeOnly ==
    \A u \in Chain : ~heap[u].is_allocated =>
        \A x \in live : ~(u < x[1] /\ x[1] < After(heap, u))

\* Once everything is freed the heap is one free block again.
FreeGivesBack == live = {} => Cardinality(Chain) <= 1
=============================================================================
