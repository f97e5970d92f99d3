----------------------------- MODULE MemoryProofs ---------------------------
(***************************************************************************)
(* Theorems about Heap, for a frame, a header and a request of any size,   *)
(* and about Paging, which maps the frame, for any number of pages and any *)
(* amount of memory.                                                       *)
(***************************************************************************)
EXTENDS Heap, Paging, FiniteSetTheorems, WellFoundedInduction, TLAPS

\* The callers of the property ask for one size.
Size    == CHOOSE s \in Sizes : TRUE
OneSize == Sizes = {Size}

(***************************************************************************)
(* The inductive invariant.  However blocks were split and merged, every   *)
(* header that matters is at a multiple of Pitch: first n slots of one     *)
(* block each, of which the last is in use, then one free entry that       *)
(* reaches over m slots, if m is not zero, then memory that was never used.*)
(* Between the headers anything may be written.                            *)
(***************************************************************************)

Pitch  == Size + SIZEOF
Pos(k) == k * Pitch
Slot(k) == <<Pos(k), Size, 0>>

Header      == [size : Nat, prevsize : Nat, is_allocated : BOOLEAN]
PrevSize(k) == IF k = 0 THEN 0 ELSE Size

Shape(h, have, n, m) ==
    /\ h \in [Addr -> Header]
    /\ n + m > 0 => Pos(n + m - 1) < HEAP
    /\ \A k \in 0 .. n - 1 : h[Pos(k)].size = Size /\ h[Pos(k)].prevsize = PrevSize(k)
    /\ n > 0 => h[Pos(n - 1)].is_allocated
    /\ m > 0 => h[Pos(n)].size = Pos(m) - SIZEOF /\ ~h[Pos(n)].is_allocated
    /\ \A a \in Addr : a >= Pos(n + m) => h[a] = Zero
    /\ have = {Slot(k) : k \in {k \in 0 .. n - 1 : h[Pos(k)].is_allocated}}

HeapInv == \E n, m \in Nat : Shape(heap, live, n, m)

(***************************************************************************)
(* Slots.                                                                  *)
(***************************************************************************)

\* The size of a block and of its header, in plain arithmetic.
LEMMA Pitches ==
    ASSUME OneSize
    PROVE  /\ Size \in Nat /\ Size > 0 /\ SIZEOF \in Nat /\ SIZEOF > 0 /\ HEAP \in Nat /\ HEAP > 0
           /\ Pitch \in Nat /\ Pitch = Size + SIZEOF
  <1>1. Size \in Nat \ {0}
    BY HeapAssumption DEF OneSize
  <1> QED  BY <1>1, HeapAssumption DEF Pitch

\* Slots lie one behind another, Pitch apart.
LEMMA Positions ==
    ASSUME OneSize, NEW j \in Nat, NEW k \in Nat
    PROVE  /\ Pos(k) \in Nat /\ Pos(0) = 0 /\ k <= Pos(k)
           /\ Pos(k + 1) = Pos(k) + Pitch
           /\ Pos(j + k) = Pos(j) + Pos(k)
           /\ j < k => Pos(j) + Pitch <= Pos(k)
           /\ Pos(j) = Pos(k) => j = k
  <1>0. Pitch \in Nat /\ Pitch > 0
    BY Pitches
  <1>1. ASSUME NEW d \in Nat PROVE d * Pitch \in Nat /\ d <= d * Pitch
    BY <1>0
  <1>2. /\ (k + 1) * Pitch = k * Pitch + Pitch /\ (j + k) * Pitch = j * Pitch + k * Pitch
        /\ 0 * Pitch = 0
    BY <1>0
  <1>3. ASSUME NEW a \in Nat, NEW b \in Nat, a < b PROVE a * Pitch + Pitch <= b * Pitch
    <2>1. b - a - 1 \in Nat /\ b = (a + 1) + (b - a - 1)
      BY <1>3
    <2> DEFINE d == b - a - 1
    <2>2. ((a + 1) + d) * Pitch = (a * Pitch + Pitch) + d * Pitch
      <3> HIDE DEF d
      <3> QED  BY <1>0, <2>1 DEF d
    <2>3. d * Pitch \in Nat /\ a * Pitch \in Nat
      BY <1>1, <2>1
    <2> QED  BY <1>0, <2>1, <2>2, <2>3
  <1>4. Pos(j) = Pos(k) => j = k
    <2>1. j * Pitch \in Nat /\ k * Pitch \in Nat
      BY <1>1
    <2> QED  BY <1>0, <1>3, <2>1 DEF Pos
  <1> QED  BY <1>1, <1>2, <1>3, <1>4 DEF Pos

\* What is written into a block ends before the next slot.
LEMMA DataInSlot ==
    ASSUME OneSize, NEW k \in Nat
    PROVE  \A a \in Data(Slot(k)) : a \in Nat /\ Pos(k) < a /\ a < Pos(k + 1)
  <1> DEFINE q == (Size + SIZEOF - 1) \div SIZEOF
             r == (Size + SIZEOF - 1) % SIZEOF
  <1>0. Size \in Nat /\ Size > 0 /\ SIZEOF \in Nat /\ SIZEOF > 0
    BY Pitches
  <1>1. q \in Int /\ q <= Size
    <2> DEFINE a == Size + SIZEOF - 1
    <2>1. a \in Nat /\ a = Size + SIZEOF - 1
      BY <1>0
    <2> HIDE DEF a
    <2>2. a \div SIZEOF \in Int /\ a % SIZEOF \in 0 .. SIZEOF - 1 /\ a = SIZEOF * (a \div SIZEOF) + (a % SIZEOF)
      BY <1>0, <2>1
    <2> DEFINE b == a \div SIZEOF
    <2>3. b \in Int /\ SIZEOF * b <= a
      <3>1. SIZEOF * b \in Int
        BY <1>0, <2>2
      <3> HIDE DEF b
      <3> QED  BY <1>0, <2>1, <2>2, <3>1 DEF b
    <2> HIDE DEF b
    <2>4. ~(b > Size)
      <3> SUFFICES ASSUME b > Size PROVE FALSE
        OBVIOUS
      <3>1. b - Size - 1 \in Nat /\ Size - 1 \in Nat
        BY <1>0, <2>3
      <3> DEFINE d == b - Size - 1
                 e == Size - 1
      <3>2. SIZEOF * b = SIZEOF * e + 2 * SIZEOF + SIZEOF * d
        BY <1>0, <2>3
      <3>3. SIZEOF * e >= e /\ SIZEOF * d >= 0 /\ SIZEOF * e \in Int /\ SIZEOF * d \in Int
        <4> HIDE DEF d, e
        <4> QED  BY <1>0, <3>1 DEF d, e
      <3> QED  BY <1>0, <2>1, <2>3, <3>1, <3>2, <3>3
    <2> QED  BY <1>0, <2>3, <2>4 DEF a, b
  <1>2. Data(Slot(k)) = Pos(k) + 1 .. Pos(k) + q
    BY DEF Data, Slot
  <1>3. Pos(k) \in Nat /\ Pos(k + 1) = Pos(k) + Pitch /\ Pitch = Size + SIZEOF
    BY Positions, Pitches
  <1> HIDE DEF q
  <1> QED  BY <1>0, <1>1, <1>2, <1>3


(***************************************************************************)
(* Loops.                                                                  *)
(***************************************************************************)

\* A set of naturals that is not empty has a least member.
LEMMA Least ==
    ASSUME NEW D \in SUBSET Nat, D # {}
    PROVE  \E d \in D : \A e \in D : d <= e
  <1>1. PICK d \in D : \A e \in D : <<e, d>> \notin OpToRel(<, Nat)
    BY NatLessThanWellFounded, WFMin
  <1>2. ASSUME NEW e \in D, e < d PROVE FALSE
    <2>1. <<e, d>> \in Nat \X Nat /\ <<e, d>>[1] < <<e, d>>[2]
      BY <1>2
    <2> QED  BY <1>1, <2>1 DEF OpToRel
  <1> QED  BY <1>2

\* What agrees at the start and keeps to agree from step to step agrees in the end.
LEMMA LoopsAgree ==
    ASSUME NEW f, NEW g, f[0] = g[0], \A k \in 1 .. HEAP : f[k - 1] = g[k - 1] => f[k] = g[k]
    PROVE  f[HEAP] = g[HEAP]
  <1> SUFFICES ASSUME f[HEAP] # g[HEAP] PROVE FALSE
    OBVIOUS
  <1> DEFINE D == {k \in 0 .. HEAP : f[k] # g[k]}
  <1>1. D \in SUBSET Nat /\ HEAP \in D
    BY HeapAssumption
  <1>2. PICK d \in D : \A e \in D : d <= e
    BY <1>1, Least
  <1>3. d \in 1 .. HEAP /\ d - 1 \in 0 .. HEAP /\ d - 1 \notin D
    BY <1>1, <1>2, HeapAssumption
  <1> QED  BY <1>2, <1>3

\* The first n slots are in the frame, and so is the header of the entry behind them.
LEMMA SlotsInFrame ==
    ASSUME OneSize, NEW h, NEW have, NEW n \in Nat, NEW m \in Nat, Shape(h, have, n, m)
    PROVE  /\ \A k \in 0 .. n - 1 : Pos(k) \in Addr
           /\ m > 0 => Pos(n) \in Addr
           /\ n + m <= HEAP
           /\ n + m \in Nat
           /\ \A k \in 0 .. n + m - 1 : Pos(k) \in Addr
  <1>0. HEAP \in Nat /\ HEAP > 0 /\ Pitch \in Nat
    BY Pitches
  <1>1. n + m \in Nat
    OBVIOUS
  <1>2. CASE n + m = 0
    BY <1>0, <1>2
  <1>3. CASE n + m > 0
    <2> DEFINE last == n + m - 1
    <2>1. last \in Nat /\ Pos(last) \in Nat /\ last <= Pos(last) /\ Pos(last) < HEAP
      <3>1. last \in Nat
        BY <1>3
      <3> QED  BY <1>3, <3>1, Positions DEF Shape
    <2>2. ASSUME NEW k \in 0 .. n + m - 1 PROVE Pos(k) \in Addr
      <3>1. k \in Nat /\ (k = last \/ k < last)
        OBVIOUS
      <3>2. Pos(k) \in Nat /\ (k = last \/ Pos(k) + Pitch <= Pos(last))
        BY <2>1, <3>1, Positions
      <3> HIDE DEF last
      <3>3. Pos(k) <= Pos(last)
        BY <1>0, <2>1, <3>2
      <3> QED  BY <1>0, <2>1, <3>2, <3>3 DEF Addr
    <2>3. n + m <= HEAP
      BY <1>0, <2>1
    <2> QED  BY <2>2, <2>3
  <1> QED  BY <1>1, <1>2, <1>3

\* malloc's loop ends at the first slot that is free, or behind all slots.
LEMMA FirstFreeIs ==
    ASSUME OneSize, NEW h, NEW have, NEW n \in Nat, NEW m \in Nat, Shape(h, have, n, m),
           NEW j \in 0 .. n, \A k \in 0 .. j - 1 : h[Pos(k)].is_allocated,
           j < n => ~h[Pos(j)].is_allocated
    PROVE  FirstFree(h) = [at |-> Pos(j), prevsize |-> PrevSize(j)]
  <1> DEFINE start == [at |-> 0, prevsize |-> 0]
             at(i) == [at |-> Pos(i), prevsize |-> PrevSize(i)]
             W == [k \in 0 .. HEAP |-> IF k < j THEN at(k) ELSE at(j)]
             r == CHOOSE f : f = [k \in 0 .. HEAP |-> IF k = 0 THEN start ELSE PassAllocated(h, f[k - 1])]
  <1>0. HEAP \in Nat /\ HEAP > 0 /\ j <= HEAP
    BY Pitches, SlotsInFrame
  <1>1. W[0] = start
    <2>1. at(0) = start
      BY Positions DEF PrevSize
    <2> QED  BY <1>0, <2>1
  <1>2. ASSUME NEW k \in 1 .. HEAP, k <= j PROVE W[k] = PassAllocated(h, W[k - 1])
    <2>1. k - 1 \in 0 .. j - 1 /\ k - 1 \in 0 .. n - 1 /\ k - 1 \in Nat /\ (k - 1) + 1 = k /\ k - 1 \in 0 .. HEAP
      BY <1>0, <1>2
    <2>2. W[k] = at(k) /\ W[k - 1] = at(k - 1)
      BY <1>0, <1>2, <2>1
    <2>3. Pos(k - 1) \in Addr /\ Pos(k - 1) < HEAP /\ h[Pos(k - 1)].is_allocated /\ h[Pos(k - 1)].size = Size
      <3>1. Pos(k - 1) \in Addr
        BY <2>1, SlotsInFrame
      <3> QED  BY <1>0, <2>1, <3>1 DEF Addr, Shape
    <2>4. After(h, Pos(k - 1)) = Pos(k) /\ PrevSize(k) = Size
      <3>1. Pos(k) = Pos(k - 1) + Pitch /\ Pos(k - 1) \in Nat
        BY <2>1, Positions
      <3> QED  BY <1>2, <2>3, <3>1, Pitches DEF After, At, PrevSize
    <2>5. PassAllocated(h, at(k - 1)) = at(k)
      BY <2>3, <2>4 DEF PassAllocated
    <2> HIDE DEF W, at
    <2> QED  BY <2>2, <2>5
  <1>3. ASSUME NEW k \in 1 .. HEAP, k > j PROVE W[k] = PassAllocated(h, W[k - 1])
    <2>1. W[k] = at(j) /\ W[k - 1] = at(j)
      BY <1>0, <1>3
    <2>2. ~(Pos(j) < HEAP /\ h[Pos(j)].is_allocated)
      <3>1. CASE j < n
        BY <3>1
      <3>2. CASE j = n /\ m > 0
        BY <3>2 DEF Shape
      <3>3. CASE j = n /\ m = 0
        <4>1. Pos(j) \in Nat /\ n + m = j
          BY <3>3, Positions
        <4>2. Pos(j) < HEAP => Pos(j) \in Addr
          BY <1>0, <4>1 DEF Addr
        <4> QED  BY <4>1, <4>2 DEF Shape, Zero
      <3> QED  BY <3>1, <3>2, <3>3
    <2>3. PassAllocated(h, at(j)) = at(j)
      BY <2>2 DEF PassAllocated
    <2> HIDE DEF W, at
    <2> QED  BY <2>1, <2>3
  <1>4. W = [k \in 0 .. HEAP |-> IF k = 0 THEN start ELSE PassAllocated(h, W[k - 1])]
    <2>1. \A k \in 0 .. HEAP : k = 0 \/ k \in 1 .. HEAP
      BY <1>0
    <2>2. \A k \in 1 .. HEAP : k <= j \/ k > j
      OBVIOUS
    <2>3. \A k \in 0 .. HEAP : W[k] = IF k = 0 THEN start ELSE PassAllocated(h, W[k - 1])
      <3> HIDE DEF W, start
      <3> QED  BY <1>0, <1>1, <1>2, <1>3, <2>1, <2>2
    <2> QED  BY <2>3
  <1>5. r = [k \in 0 .. HEAP |-> IF k = 0 THEN start ELSE PassAllocated(h, r[k - 1])]
    <2> HIDE DEF W, start
    <2> QED  BY <1>4
  <1>6. r[HEAP] = W[HEAP]
    <2> HIDE DEF r, W, start
    <2>1. r[0] = W[0]
      BY <1>0, <1>1, <1>5
    <2>2. \A k \in 1 .. HEAP : r[k] = PassAllocated(h, r[k - 1]) /\ W[k] = PassAllocated(h, W[k - 1])
      BY <1>0, <1>4, <1>5
    <2> QED  BY <2>1, <2>2, LoopsAgree
  <1>7. FirstFree(h) = r[HEAP]
    BY DEF FirstFree, Repeat
  <1>8. W[HEAP] = at(j)
    BY <1>0
  <1> QED  BY <1>6, <1>7, <1>8


(***************************************************************************)
(* malloc takes one slot.                                                  *)
(***************************************************************************)

\* Either a slot is free and those before it are not, or none is.
LEMMA SomeFreeSlot ==
    ASSUME NEW h, NEW n \in Nat
    PROVE  \E j \in 0 .. n : /\ \A k \in 0 .. j - 1 : h[Pos(k)].is_allocated
                             /\ j < n => ~h[Pos(j)].is_allocated
  <1> DEFINE D == {k \in 0 .. n - 1 : ~h[Pos(k)].is_allocated}
  <1>1. CASE D = {}
    BY <1>1
  <1>2. CASE D # {}
    <2>1. D \in SUBSET Nat
      OBVIOUS
    <2>2. \E j \in D : \A k \in D : j <= k
      <3> HIDE DEF D
      <3> QED  BY <1>2, <2>1, Least
    <2>3. PICK j \in D : \A k \in D : j <= k
      BY <2>2
    <2> QED  BY <2>3
  <1> QED  BY <1>1, <1>2

\* the header that malloc leaves at slot j
Taken(j) == [size |-> Size, prevsize |-> PrevSize(j), is_allocated |-> TRUE]

\* A header is its three fields.
LEMMA SameHeader ==
    ASSUME NEW a \in Header, NEW b \in Header,
           a.size = b.size, a.prevsize = b.prevsize, a.is_allocated = b.is_allocated
    PROVE  a = b
  BY DEF Header

\* What malloc writes into the header it takes.
LEMMA HeadersTaken ==
    ASSUME NEW e \in Header, NEW p \in Nat, NEW s \in Nat
    PROVE  LET taken == [e EXCEPT !.is_allocated = TRUE, !.prevsize = p]
           IN  /\ taken = [size |-> e.size, prevsize |-> p, is_allocated |-> TRUE]
               /\ [taken EXCEPT !.size = s] = [size |-> s, prevsize |-> p, is_allocated |-> TRUE]
  <1> DEFINE taken == [e EXCEPT !.is_allocated = TRUE, !.prevsize = p]
             new(z) == [size |-> z, prevsize |-> p, is_allocated |-> TRUE]
  <1>1. taken \in Header /\ taken.size = e.size /\ taken.prevsize = p /\ taken.is_allocated = TRUE
    BY DEF Header
  <1>2. e.size \in Nat /\ \A z \in Nat : new(z) \in Header
    BY DEF Header
  <1>3. taken = new(e.size)
    <2> HIDE DEF taken
    <2>1. new(e.size) \in Header /\ new(e.size).size = e.size /\ new(e.size).prevsize = p
          /\ new(e.size).is_allocated = TRUE
      BY <1>2
    <2> HIDE DEF new
    <2> QED  BY <1>1, <2>1, SameHeader
  <1> DEFINE sized == [taken EXCEPT !.size = s]
  <1>4. sized \in Header /\ sized.size = s /\ sized.prevsize = p /\ sized.is_allocated = TRUE
    <2> HIDE DEF taken
    <2> QED  BY <1>1 DEF Header
  <1>5. sized = new(s)
    <2> HIDE DEF sized
    <2>1. new(s) \in Header /\ new(s).size = s /\ new(s).prevsize = p /\ new(s).is_allocated = TRUE
      BY <1>2
    <2> HIDE DEF new
    <2> QED  BY <1>4, <2>1, SameHeader
  <1> QED  BY <1>3, <1>5

\* What malloc does to the heap when it takes a slot, or the first behind the last.
LEMMA TakeEntryIs ==
    ASSUME OneSize, NEW h, NEW have, NEW n \in Nat, NEW m \in Nat, Shape(h, have, n, m),
           NEW j \in 0 .. n, j < n => ~h[Pos(j)].is_allocated, Pos(j) \in Addr
    PROVE  LET r == TakeEntry(h, Pos(j), PrevSize(j), Size)
               split == j = n /\ m > 1
           IN  /\ r.entry = Pos(j) /\ r.heap \in [Addr -> Header]
               /\ r.heap[Pos(j)] = Taken(j)
               /\ \A a \in Addr : a # Pos(j) /\ ~(split /\ a = Pos(n + 1)) => r.heap[a] = h[a]
               /\ split => r.heap[Pos(n + 1)].size = Pos(m - 1) - SIZEOF /\ ~r.heap[Pos(n + 1)].is_allocated
  <1> DEFINE u == Pos(j)
             e == h[u]
             r == TakeEntry(h, u, PrevSize(j), Size)
             split == j = n /\ m > 1
             rest == [size |-> e.size - Size - SIZEOF, prevsize |-> Size, is_allocated |-> FALSE]
  <1> SUFFICES /\ r.entry = u /\ r.heap \in [Addr -> Header]
               /\ r.heap[u] = Taken(j)
               /\ \A a \in Addr : a # u /\ ~(split /\ a = Pos(n + 1)) => r.heap[a] = h[a]
               /\ split => r.heap[Pos(n + 1)].size = Pos(m - 1) - SIZEOF /\ ~r.heap[Pos(n + 1)].is_allocated
    OBVIOUS
  <1>0. /\ Size \in Nat /\ Size > 0 /\ SIZEOF \in Nat /\ SIZEOF > 0 /\ Pitch = Size + SIZEOF
        /\ h \in [Addr -> Header] /\ e \in Header /\ PrevSize(j) \in Nat /\ Taken(j) \in Header
        /\ u \in Addr
    <2>1. h \in [Addr -> Header]
      BY DEF Shape
    <2>2. PrevSize(j) \in Nat
      BY Pitches DEF PrevSize
    <2> QED  BY <2>1, <2>2, Pitches DEF Taken, Header
  <1> DEFINE taken == [e EXCEPT !.is_allocated = TRUE, !.prevsize = PrevSize(j)]
  <1>1. [taken EXCEPT !.size = Size] = Taken(j) /\ (e.size = Size => taken = Taken(j))
    <2>1. e \in Header /\ PrevSize(j) \in Nat /\ Size \in Nat
      BY <1>0
    <2> HIDE DEF e
    <2>2. /\ taken = [size |-> e.size, prevsize |-> PrevSize(j), is_allocated |-> TRUE]
          /\ [taken EXCEPT !.size = Size] = [size |-> Size, prevsize |-> PrevSize(j), is_allocated |-> TRUE]
      BY <2>1, HeadersTaken
    <2> HIDE DEF taken
    <2> QED  BY <2>2 DEF Taken
  <1>2. CASE ~split
    <2>1. e.size = Size \/ e.size = 0
      <3>1. CASE j < n
        BY <3>1 DEF Shape
      <3>2. CASE j = n /\ m = 1
        <4>1. Pos(1) = Pitch
          <5>1. Pos(0 + 1) = Pos(0) + Pitch /\ Pos(0) = 0
            BY Positions
          <5> QED  BY <1>0, <5>1
        <4> QED  BY <1>0, <3>2, <4>1 DEF Shape
      <3>3. CASE j = n /\ m = 0
        <4>1. u \in Addr /\ u >= Pos(n + m)
          BY <3>3 DEF Addr
        <4> QED  BY <4>1 DEF Shape, Zero
      <3> QED  BY <1>2, <3>1, <3>2, <3>3
    <2>2. r = [heap |-> Put(h, u, Taken(j)), entry |-> u]
      <3>1. CASE e.size = 0
        BY <1>1, <3>1 DEF TakeEntry
      <3>2. CASE e.size = Size
        <4>1. ~(e.size = 0) /\ ~(e.size < Size) /\ FitsExactly(e, Size)
          BY <1>0, <3>2 DEF FitsExactly
        <4> QED  BY <1>1, <3>2, <4>1 DEF TakeEntry
      <3> QED  BY <2>1, <3>1, <3>2
    <2> HIDE DEF r, u
    <2> QED  BY <1>0, <1>2, <2>2 DEF Put
  <1>3. CASE split
    <2>1. Pos(m) = Pos(m - 1) + Pitch /\ Pos(m - 1) \in Nat /\ Pos(m - 1) >= Pitch /\ Pos(m) \in Nat
      <3>1. m - 1 \in Nat /\ 0 < m - 1 /\ (m - 1) + 1 = m
        BY <1>3
      <3>2. Pos(0) + Pitch <= Pos(m - 1) /\ Pos(0) = 0 /\ Pos(m - 1) \in Nat /\ Pos((m - 1) + 1) = Pos(m - 1) + Pitch
        BY <3>1, Positions
      <3> QED  BY <1>0, <3>1, <3>2
    <2>2. e.size = Pos(m) - SIZEOF
      BY <1>3 DEF Shape
    <2>3. ~(e.size = 0) /\ ~(e.size < Size) /\ ~FitsExactly(e, Size) /\ e.size - Size - SIZEOF = Pos(m - 1) - SIZEOF
          /\ Pos(m - 1) - SIZEOF \in Nat
      BY <1>0, <2>1, <2>2 DEF FitsExactly
    <2>4. Pos(n + 1) = u + Size + SIZEOF /\ Pos(n + 1) \in Addr /\ Pos(n + 1) # u
      <3>1. Pos(n + 1) = Pos(n) + Pitch /\ Pos(n) \in Nat
        BY Positions
      <3>2. n + 1 \in 0 .. n + m - 1
        BY <1>3
      <3>3. Pos(n + 1) \in Addr
        BY <3>2, SlotsInFrame
      <3> QED  BY <1>0, <1>3, <3>1, <3>3
    <2>5. r = [heap |-> Put(Put(h, u, Taken(j)), Pos(n + 1), rest), entry |-> u]
      BY <1>1, <2>3, <2>4 DEF TakeEntry
    <2>6. rest \in Header /\ rest.size = Pos(m - 1) - SIZEOF /\ ~rest.is_allocated
      BY <1>0, <2>3 DEF Header
    <2> HIDE DEF r, rest, u
    <2> QED  BY <1>0, <1>3, <2>4, <2>5, <2>6 DEF Put
  <1> QED  BY <1>2, <1>3


\* What is left of the free entry behind the slots when a slot is taken from it.
Rest(m) == IF m > 0 THEN m - 1 ELSE 0

\* The slot is one more block, and the frame keeps its shape.
LEMMA TakeKeepsShape ==
    ASSUME OneSize, NEW h, NEW have, NEW n \in Nat, NEW m \in Nat, Shape(h, have, n, m),
           NEW j \in 0 .. n, j < n => ~h[Pos(j)].is_allocated, Pos(j) \in Addr,
           NEW g \in [Addr -> Header], g[Pos(j)] = Taken(j),
           \A a \in Addr : a # Pos(j) /\ ~(j = n /\ m > 1 /\ a = Pos(n + 1)) => g[a] = h[a],
           j = n /\ m > 1 => g[Pos(n + 1)].size = Pos(m - 1) - SIZEOF /\ ~g[Pos(n + 1)].is_allocated,
           NEW after \in [Addr -> Header], \A a \in Addr : a \notin Data(<<Pos(j), Size>>) => after[a] = g[a]
    PROVE  /\ j < n => Shape(after, have \cup {Slot(j)}, n, m)
           /\ j = n => Shape(after, have \cup {Slot(j)}, n + 1, Rest(m))
  <1>0. /\ HEAP \in Nat /\ HEAP > 0 /\ Pitch \in Nat /\ Pitch > 0 /\ Size \in Nat /\ SIZEOF \in Nat
        /\ \A k \in 0 .. n + m - 1 : Pos(k) \in Addr
        /\ \A k \in 0 .. n - 1 : Pos(k) \in Addr
    <2>1. Pitch > 0
      BY Pitches
    <2>2. /\ \A k \in 0 .. n + m - 1 : Pos(k) \in Addr
          /\ \A k \in 0 .. n - 1 : Pos(k) \in Addr
      BY SlotsInFrame
    <2> QED  BY <2>1, <2>2, Pitches
  <1>1. \A a \in Data(<<Pos(j), Size>>) : a \in Nat /\ Pos(j) < a /\ a < Pos(j + 1)
    <2>1. Data(<<Pos(j), Size>>) = Data(Slot(j))
      BY DEF Data, Slot
    <2> QED  BY <2>1, DataInSlot
  <1>2. \A k \in Nat : Pos(k) \in Nat /\ ~(Pos(j) < Pos(k) /\ Pos(k) < Pos(j + 1)) /\ (Pos(k) = Pos(j) => k = j)
    <2> SUFFICES ASSUME NEW k \in Nat
                 PROVE  Pos(k) \in Nat /\ ~(Pos(j) < Pos(k) /\ Pos(k) < Pos(j + 1)) /\ (Pos(k) = Pos(j) => k = j)
      OBVIOUS
    <2>1. j \in Nat /\ j + 1 \in Nat
      OBVIOUS
    <2>2. Pos(j) \in Nat /\ Pos(k) \in Nat /\ Pos(j + 1) \in Nat
      BY <2>1, Positions
    <2>3. k = j \/ k < j \/ k = j + 1 \/ j + 1 < k
      BY <2>1
    <2>4. /\ k < j => Pos(k) + Pitch <= Pos(j)
          /\ j + 1 < k => Pos(j + 1) + Pitch <= Pos(k)
          /\ Pos(k) = Pos(j) => k = j
      BY <2>1, Positions
    <2> QED  BY <1>0, <2>2, <2>3, <2>4
  <1>3. after \in [Addr -> Header] /\ \A k \in Nat : Pos(k) \in Addr => after[Pos(k)] = g[Pos(k)]
    BY <1>1, <1>2
  <1>4. \A a \in Addr : a >= Pos(j + 1) /\ ~(j = n /\ m > 1 /\ a = Pos(n + 1)) => after[a] = h[a]
    <2>1. Pos(j) \in Nat /\ Pos(j + 1) \in Nat /\ Pos(j + 1) = Pos(j) + Pitch /\ Addr \subseteq Nat
      BY Positions DEF Addr
    <2> SUFFICES ASSUME NEW a \in Addr, a >= Pos(j + 1), ~(j = n /\ m > 1 /\ a = Pos(n + 1))
                 PROVE  after[a] = h[a]
      OBVIOUS
    <2>2. a \notin Data(<<Pos(j), Size>>) /\ a # Pos(j)
      BY <1>0, <1>1, <2>1
    <2> QED  BY <2>2
  <1>5. \A k \in 0 .. n - 1 : k # j => after[Pos(k)] = h[Pos(k)]
    <2> SUFFICES ASSUME NEW k \in 0 .. n - 1, k # j PROVE after[Pos(k)] = h[Pos(k)]
      OBVIOUS
    <2>1. Pos(k) \in Addr /\ Pos(k) # Pos(j) /\ k \in Nat
      BY <1>0, <1>2
    <2>2. Pos(k) # Pos(n + 1)
      <3>1. Pos(k) + Pitch <= Pos(n + 1) /\ Pos(k) \in Nat
        BY <2>1, Positions
      <3> QED  BY <1>0, <3>1
    <2> QED  BY <1>3, <2>1, <2>2
  <1>6. after[Pos(j)] = Taken(j)
    BY <1>3
  <1>7. ASSUME j < n PROVE Shape(after, have \cup {Slot(j)}, n, m)
    <2>1. \A k \in 0 .. n - 1 : after[Pos(k)].size = Size /\ after[Pos(k)].prevsize = PrevSize(k)
      BY <1>5, <1>6 DEF Shape, Taken
    <2>2. after[Pos(n - 1)].is_allocated
      BY <1>5, <1>6, <1>7 DEF Shape, Taken
    <2>3. m > 0 => after[Pos(n)].size = Pos(m) - SIZEOF /\ ~after[Pos(n)].is_allocated
      <3>1. m > 0 => Pos(n) \in Addr
        BY <1>0
      <3>2. Pos(n) # Pos(j)
        BY <1>2, <1>7
      <3>3. m > 0 => after[Pos(n)] = h[Pos(n)]
        BY <1>3, <1>7, <3>1, <3>2
      <3> QED  BY <3>3 DEF Shape
    <2>4. \A a \in Addr : a >= Pos(n + m) => after[a] = Zero
      <3> SUFFICES ASSUME NEW a \in Addr, a >= Pos(n + m) PROVE after[a] = Zero
        OBVIOUS
      <3>1. j + 1 \in Nat /\ n + m \in Nat /\ (j + 1 = n + m \/ j + 1 < n + m)
        BY <1>7
      <3>2. Pos(j + 1) \in Nat /\ Pos(n + m) \in Nat /\ (j + 1 < n + m => Pos(j + 1) + Pitch <= Pos(n + m))
        BY <3>1, Positions
      <3>3. a >= Pos(j + 1)
        BY <1>0, <3>1, <3>2 DEF Addr
      <3> QED  BY <1>4, <1>7, <3>3 DEF Shape
    <2>5. have \cup {Slot(j)} = {Slot(k) : k \in {k \in 0 .. n - 1 : after[Pos(k)].is_allocated}}
      <3>1. have = {Slot(k) : k \in {k \in 0 .. n - 1 : h[Pos(k)].is_allocated}}
        BY DEF Shape
      <3>2. {k \in 0 .. n - 1 : after[Pos(k)].is_allocated} = {k \in 0 .. n - 1 : h[Pos(k)].is_allocated} \cup {j}
        BY <1>5, <1>6, <1>7 DEF Taken
      <3> QED  BY <3>1, <3>2
    <2> QED  BY <1>3, <2>1, <2>2, <2>3, <2>4, <2>5 DEF Shape
  <1>8. ASSUME j = n PROVE Shape(after, have \cup {Slot(j)}, n + 1, Rest(m))
    <2> DEFINE q == Rest(m)
    <2>0. q \in Nat /\ (m > 0 => q = m - 1) /\ (m = 0 => q = 0) /\ (q > 0 => m > 1 /\ q = m - 1)
      BY DEF Rest
    <2>1. Pos((n + 1) + q - 1) < HEAP
      <3>1. CASE m > 0
        <4>1. (n + 1) + q - 1 = n + m - 1 /\ n + m > 0
          BY <2>0, <3>1
        <4>2. n + m > 0 => Pos(n + m - 1) < HEAP
          BY DEF Shape
        <4> QED  BY <4>1, <4>2
      <3>2. CASE m = 0
        <4>1. (n + 1) + q - 1 = j
          BY <1>8, <2>0, <3>2
        <4> QED  BY <1>0, <4>1 DEF Addr
      <3> QED  BY <3>1, <3>2
    <2>2. \A k \in 0 .. (n + 1) - 1 : after[Pos(k)].size = Size /\ after[Pos(k)].prevsize = PrevSize(k)
      BY <1>5, <1>6, <1>8 DEF Shape, Taken
    <2>3. (n + 1) - 1 = j /\ after[Pos(j)].is_allocated
      BY <1>6, <1>8 DEF Taken
    <2>4. q > 0 => after[Pos(n + 1)].size = Pos(q) - SIZEOF /\ ~after[Pos(n + 1)].is_allocated
      <3> SUFFICES ASSUME q > 0
                   PROVE  after[Pos(n + 1)].size = Pos(q) - SIZEOF /\ ~after[Pos(n + 1)].is_allocated
        OBVIOUS
      <3>1. m > 1 /\ q = m - 1 /\ n + 1 \in 0 .. n + m - 1
        BY <2>0
      <3>2. Pos(n + 1) \in Addr
        BY <1>0, <3>1
      <3>3. after[Pos(n + 1)] = g[Pos(n + 1)]
        BY <1>3, <3>2
      <3> QED  BY <1>8, <3>1, <3>3
    <2>5. \A a \in Addr : a >= Pos((n + 1) + q) => after[a] = Zero
      <3> SUFFICES ASSUME NEW a \in Addr, a >= Pos((n + 1) + q) PROVE after[a] = Zero
        OBVIOUS
      <3>1. n + 1 \in Nat /\ (n + 1) + q \in Nat /\ n + m \in Nat /\ (n + m = (n + 1) + q \/ n + m < (n + 1) + q)
        BY <2>0
      <3>2. /\ Pos(n + 1) \in Nat /\ Pos((n + 1) + q) \in Nat /\ Pos(n + m) \in Nat /\ Pos(q) \in Nat
            /\ Pos((n + 1) + q) = Pos(n + 1) + Pos(q) /\ q <= Pos(q)
            /\ n + m < (n + 1) + q => Pos(n + m) + Pitch <= Pos((n + 1) + q)
        BY <2>0, <3>1, Positions
      <3>3. a >= Pos(n + 1) /\ a >= Pos(n + m) /\ (q > 0 => a # Pos(n + 1))
        <4> DEFINE top == Pos((n + 1) + q)
                   old == Pos(n + m)
                   next == Pos(n + 1)
                   some == Pos(q)
        <4>1. /\ top \in Nat /\ old \in Nat /\ next \in Nat /\ some \in Nat /\ a \in Nat /\ a >= top
              /\ top = next + some /\ q <= some /\ (old = top \/ old + Pitch <= top)
          BY <1>0, <3>1, <3>2 DEF Addr
        <4> HIDE DEF top, old, next, some, q
        <4>2. a >= next /\ a >= old /\ (q > 0 => a # next)
          BY <1>0, <2>0, <4>1
        <4> QED  BY <4>2 DEF old, next
      <3> HIDE DEF q
      <3>4. m > 1 => q > 0
        BY <2>0
      <3> QED  BY <1>4, <1>8, <3>3, <3>4 DEF Shape
    <2>6. have \cup {Slot(j)} = {Slot(k) : k \in {k \in 0 .. (n + 1) - 1 : after[Pos(k)].is_allocated}}
      <3>1. have = {Slot(k) : k \in {k \in 0 .. n - 1 : h[Pos(k)].is_allocated}}
        BY DEF Shape
      <3>2. {k \in 0 .. (n + 1) - 1 : after[Pos(k)].is_allocated}
              = {k \in 0 .. n - 1 : h[Pos(k)].is_allocated} \cup {j}
        BY <1>5, <1>6, <1>8 DEF Taken
      <3> QED  BY <3>1, <3>2
    <2> HIDE DEF q
    <2> QED  BY <1>3, <2>1, <2>2, <2>3, <2>4, <2>5, <2>6 DEF Shape, q
  <1> QED  BY <1>7, <1>8


\* The program has nothing at a slot that is free.
LEMMA GivenOnce ==
    ASSUME OneSize, NEW h, NEW have, NEW n \in Nat, NEW m \in Nat, Shape(h, have, n, m),
           NEW j \in 0 .. n, j < n => ~h[Pos(j)].is_allocated
    PROVE  Slot(j) \notin have /\ Given(have, Pos(j), Size) = have \cup {Slot(j)}
  <1>1. \A y \in have : y[1] # Pos(j)
    <2> SUFFICES ASSUME NEW k \in 0 .. n - 1, h[Pos(k)].is_allocated PROVE Slot(k)[1] # Pos(j)
      BY DEF Shape
    <2>1. k \in Nat /\ j \in Nat /\ k # j
      OBVIOUS
    <2>2. Pos(k) # Pos(j)
      BY <2>1, Positions
    <2> QED  BY <2>2 DEF Slot
  <1>2. {y \in have : y[1] = Pos(j) /\ y[2] = Size} = {}
    BY <1>1
  <1>3. Cardinality({y \in have : y[1] = Pos(j) /\ y[2] = Size}) = 0
    BY <1>2, FS_EmptySet
  <1> QED  BY <1>1, <1>3 DEF Given, Slot

\* the entry that malloc takes with the heap then, and the frame once the caller
\* has written to it
Chosen(h) == LET f == FirstFree(h) IN TakeEntry(h, f.at, f.prevsize, Size)
Written(h, bytes) ==
    [a \in Addr |-> IF a \in Data(<<Chosen(h).entry, Size>>) THEN bytes ELSE Chosen(h).heap[a]]

\* What malloc gives was nobody's, and is a slot of the frame.
LEMMA MallocGives ==
    ASSUME OneSize, NEW h, NEW have, NEW n \in Nat, NEW m \in Nat, Shape(h, have, n, m),
           FirstFree(h).at < HEAP, NEW bytes \in Bytes
    PROVE  \E j, p, q \in Nat :
              /\ Shape(Written(h, bytes), have \cup {Slot(j)}, p, q)
              /\ Chosen(h).entry = Pos(j) /\ Slot(j) \notin have
              /\ Given(have, Chosen(h).entry, Size) = have \cup {Slot(j)}
              /\ \/ j < n /\ p = n
                 \/ j = n /\ p = n + 1 /\ \A k \in 0 .. n - 1 : h[Pos(k)].is_allocated
  <1>1. PICK j \in 0 .. n : /\ \A k \in 0 .. j - 1 : h[Pos(k)].is_allocated
                            /\ j < n => ~h[Pos(j)].is_allocated
    BY SomeFreeSlot
  <1>2. FirstFree(h) = [at |-> Pos(j), prevsize |-> PrevSize(j)]
    BY <1>1, FirstFreeIs
  <1>3. Pos(j) \in Addr /\ bytes \in Header
    <2>1. Pos(j) \in Nat /\ Pos(j) < HEAP
      BY <1>2, Positions
    <2>2. Zero \in Header
      BY DEF Zero, Header
    <2>3. [size |-> 1, prevsize |-> 1, is_allocated |-> FALSE] \in Header
      BY DEF Header
    <2>4. [size |-> 1, prevsize |-> 1, is_allocated |-> TRUE] \in Header
      BY DEF Header
    <2>5. bytes \in Header
      BY <2>2, <2>3, <2>4 DEF Bytes
    <2> QED  BY <2>1, <2>5, Pitches DEF Addr
  <1> DEFINE r == TakeEntry(h, Pos(j), PrevSize(j), Size)
             g == r.heap
             after == [a \in Addr |-> IF a \in Data(<<r.entry, Size>>) THEN bytes ELSE r.heap[a]]
  <1>4. /\ r.entry = Pos(j) /\ g \in [Addr -> Header]
        /\ g[Pos(j)] = Taken(j)
        /\ \A a \in Addr : a # Pos(j) /\ ~(j = n /\ m > 1 /\ a = Pos(n + 1)) => g[a] = h[a]
        /\ j = n /\ m > 1 => g[Pos(n + 1)].size = Pos(m - 1) - SIZEOF /\ ~g[Pos(n + 1)].is_allocated
    BY <1>1, <1>3, TakeEntryIs
  <1>5. /\ j < n => Shape(after, have \cup {Slot(j)}, n, m)
        /\ j = n => Shape(after, have \cup {Slot(j)}, n + 1, Rest(m))
    <2>1. after = [a \in Addr |-> IF a \in Data(<<Pos(j), Size>>) THEN bytes ELSE g[a]]
      BY <1>4
    <2> HIDE DEF r
    <2> HIDE DEF g
    <2>2. /\ after \in [Addr -> Header]
          /\ \A a \in Addr : a \notin Data(<<Pos(j), Size>>) => after[a] = g[a]
      BY <1>3, <1>4, <2>1
    <2> HIDE DEF after
    <2>3. ASSUME NEW x \in [Addr -> Header], x[Pos(j)] = Taken(j),
                 \A a \in Addr : a # Pos(j) /\ ~(j = n /\ m > 1 /\ a = Pos(n + 1)) => x[a] = h[a],
                 j = n /\ m > 1 => x[Pos(n + 1)].size = Pos(m - 1) - SIZEOF /\ ~x[Pos(n + 1)].is_allocated,
                 NEW y \in [Addr -> Header], \A a \in Addr : a \notin Data(<<Pos(j), Size>>) => y[a] = x[a]
          PROVE  /\ j < n => Shape(y, have \cup {Slot(j)}, n, m)
                 /\ j = n => Shape(y, have \cup {Slot(j)}, n + 1, Rest(m))
      BY <1>1, <1>3, <2>3, TakeKeepsShape
    <2> QED  BY <1>4, <2>2, <2>3
  <1>6. Slot(j) \notin have /\ Given(have, r.entry, Size) = have \cup {Slot(j)}
    BY <1>1, <1>4, GivenOnce
  <1>7. Rest(m) \in Nat /\ n + 1 \in Nat /\ j \in Nat /\ (j < n \/ j = n)
    BY DEF Rest
  <1>8. \E p, q \in Nat : /\ Shape(after, have \cup {Slot(j)}, p, q)
                          /\ \/ j < n /\ p = n
                             \/ j = n /\ p = n + 1 /\ \A k \in 0 .. n - 1 : h[Pos(k)].is_allocated
    <2> HIDE DEF after, r
    <2>1. CASE j < n
      BY <1>5, <2>1
    <2>2. CASE j = n
      BY <1>1, <1>5, <1>7, <2>2
    <2> QED  BY <1>7, <2>1, <2>2
  <1>9. Chosen(h) = r
    BY <1>2 DEF Chosen
  <1>10. Written(h, bytes) = after
    BY <1>9 DEF Written
  <1> HIDE DEF r, after
  <1> QED  BY <1>4, <1>6, <1>7, <1>8, <1>9, <1>10


(***************************************************************************)
(* free.                                                                   *)
(***************************************************************************)

\* What 0 has, and with each number the next, all numbers have.
LEMMA EveryNumber ==
    ASSUME NEW D, 0 \in D, \A k \in Nat : k \in D => k + 1 \in D
    PROVE  Nat \subseteq D
  <1> SUFFICES ASSUME Nat \ D # {} PROVE FALSE
    OBVIOUS
  <1>1. PICK d \in Nat \ D : \A e \in Nat \ D : d <= e
    BY Least
  <1>2. d - 1 \in Nat /\ (d - 1) + 1 = d /\ d - 1 \notin Nat \ D
    BY <1>1
  <1> QED  BY <1>1, <1>2

\* The entries that the backward merge reaches, one after the other.
LEMMA BackwardSteps ==
    ASSUME NEW h, NEW u
    PROVE  \E f : /\ f[0] = [heap |-> h, current |-> u]
                  /\ \A k \in 1 .. HEAP : f[k] = JoinPrev(f[k - 1])
                  /\ Backward(h, u) = f[HEAP].heap
  <1> DEFINE start == [heap |-> h, current |-> u]
             D == {k \in Nat : \E f : f = [i \in 0 .. k |-> IF i = 0 THEN start ELSE JoinPrev(f[i - 1])]}
             r == CHOOSE f : f = [k \in 0 .. HEAP |-> IF k = 0 THEN start ELSE JoinPrev(f[k - 1])]
  <1> HIDE DEF start
  <1>1. 0 \in D
    <2> DEFINE f == [i \in 0 .. 0 |-> start]
    <2>1. f = [i \in 0 .. 0 |-> IF i = 0 THEN start ELSE JoinPrev(f[i - 1])]
      OBVIOUS
    <2> QED  BY <2>1
  <1>2. ASSUME NEW k \in Nat, k \in D PROVE k + 1 \in D
    <2>1. PICK f : f = [i \in 0 .. k |-> IF i = 0 THEN start ELSE JoinPrev(f[i - 1])]
      BY <1>2
    <2> DEFINE g == [i \in 0 .. k + 1 |-> IF i <= k THEN f[i] ELSE JoinPrev(f[k])]
    <2>2. ASSUME NEW i \in 0 .. k + 1 PROVE g[i] = IF i = 0 THEN start ELSE JoinPrev(g[i - 1])
      <3>1. CASE i = 0
        <4>1. f[0] = start
          BY <2>1
        <4> QED  BY <3>1, <4>1
      <3>2. CASE i \in 1 .. k
        <4>1. i \in 0 .. k /\ i # 0 /\ i - 1 \in 0 .. k + 1 /\ i - 1 <= k /\ i <= k
          BY <3>2
        <4>2. f[i] = JoinPrev(f[i - 1])
          BY <2>1, <4>1
        <4>3. g[i] = f[i] /\ g[i - 1] = f[i - 1]
          BY <4>1
        <4> QED  BY <4>1, <4>2, <4>3
      <3>3. CASE i = k + 1
        <4>1. g[i] = JoinPrev(f[k]) /\ g[i - 1] = f[k] /\ i # 0
          BY <3>3
        <4> QED  BY <4>1
      <3>4. i = 0 \/ i \in 1 .. k \/ i = k + 1
        OBVIOUS
      <3> QED  BY <3>1, <3>2, <3>3, <3>4
    <2>3. g = [i \in 0 .. k + 1 |-> g[i]]
      OBVIOUS
    <2>4. g = [i \in 0 .. k + 1 |-> IF i = 0 THEN start ELSE JoinPrev(g[i - 1])]
      <3> HIDE DEF g
      <3> QED  BY <2>2, <2>3
    <2> HIDE DEF g
    <2> QED  BY <2>4
  <1>3. HEAP \in D
    <2> HIDE DEF D
    <2>1. Nat \subseteq D
      BY <1>1, <1>2, EveryNumber
    <2> QED  BY <2>1, HeapAssumption
  <1>4. r = [k \in 0 .. HEAP |-> IF k = 0 THEN start ELSE JoinPrev(r[k - 1])]
    BY <1>3
  <1>5. Backward(h, u) = r[HEAP].heap
    BY DEF Backward, Repeat, start
  <1> HIDE DEF r
  <1>6. r[0] = start /\ \A k \in 1 .. HEAP : r[k] = JoinPrev(r[k - 1])
    BY <1>4, HeapAssumption
  <1> QED  BY <1>5, <1>6 DEF start

\* The forward merge ends with its first step, or with the one after it.
LEMMA ForwardIs ==
    ASSUME NEW h, NEW u, NEW w,
           Absorb(u, [heap |-> h, next |-> After(h, u)]) = w, Absorb(u, w) = w
    PROVE  Forward(h, u) = w.heap
  <1> DEFINE start == [heap |-> h, next |-> After(h, u)]
             W == [k \in 0 .. HEAP |-> IF k = 0 THEN start ELSE w]
             r == CHOOSE f : f = [k \in 0 .. HEAP |-> IF k = 0 THEN start ELSE Absorb(u, f[k - 1])]
  <1>0. HEAP \in Nat /\ HEAP > 0
    BY HeapAssumption
  <1>1. Forward(h, u) = r[HEAP].heap
    BY DEF Forward, Repeat
  <1>2. Absorb(u, start) = w
    OBVIOUS
  <1> HIDE DEF start
  <1>3. ASSUME NEW k \in 1 .. HEAP PROVE W[k] = Absorb(u, W[k - 1])
    <2>1. k \in 0 .. HEAP /\ k - 1 \in 0 .. HEAP /\ k # 0
      BY <1>0
    <2>2. W[k] = w /\ (W[k - 1] = start \/ W[k - 1] = w)
      BY <2>1
    <2> HIDE DEF W
    <2> QED  BY <1>2, <2>2
  <1>4. W = [k \in 0 .. HEAP |-> IF k = 0 THEN start ELSE Absorb(u, W[k - 1])]
    <2>1. W = [k \in 0 .. HEAP |-> W[k]] /\ W[0] = start
      BY <1>0
    <2>2. \A k \in 0 .. HEAP : k = 0 \/ k \in 1 .. HEAP
      BY <1>0
    <2> HIDE DEF W
    <2> QED  BY <1>3, <2>1, <2>2
  <1>5. r = [k \in 0 .. HEAP |-> IF k = 0 THEN start ELSE Absorb(u, r[k - 1])]
    <2> HIDE DEF W
    <2> QED  BY <1>4
  <1>6. r[HEAP] = W[HEAP]
    <2> HIDE DEF r, W
    <2>1. r[0] = W[0]
      BY <1>0, <1>4, <1>5
    <2>2. \A k \in 1 .. HEAP : r[k] = Absorb(u, r[k - 1]) /\ W[k] = Absorb(u, W[k - 1])
      BY <1>0, <1>4, <1>5
    <2> QED  BY <2>1, <2>2, LoopsAgree
  <1>7. W[HEAP] = w
    BY <1>0
  <1> QED  BY <1>1, <1>6, <1>7


\* the frame after the entry at u is marked as free, and after it has grown
Unmarked(h, u) == [h EXCEPT ![u].is_allocated = FALSE]
Grown(h, u, s) == [h EXCEPT ![u].size = @ + s + SIZEOF]

\* Freeing an entry changes its mark alone.
LEMMA UnmarkedIs ==
    ASSUME NEW h \in [Addr -> Header], NEW u \in Addr
    PROVE  /\ Unmarked(h, u) \in [Addr -> Header]
           /\ Unmarked(h, u)[u].size = h[u].size /\ Unmarked(h, u)[u].prevsize = h[u].prevsize
           /\ ~Unmarked(h, u)[u].is_allocated
           /\ \A a \in Addr : a # u => Unmarked(h, u)[a] = h[a]
  <1> DEFINE e == [h[u] EXCEPT !.is_allocated = FALSE]
  <1>1. e \in Header /\ e.size = h[u].size /\ e.prevsize = h[u].prevsize /\ e.is_allocated = FALSE
    BY DEF Header
  <1>2. Unmarked(h, u) = [h EXCEPT ![u] = e]
    BY DEF Unmarked
  <1> HIDE DEF e
  <1> QED  BY <1>1, <1>2

\* Merging changes the size of the entry that stays.
LEMMA GrownIs ==
    ASSUME NEW h \in [Addr -> Header], NEW u \in Addr, NEW s \in Nat
    PROVE  /\ Grown(h, u, s) \in [Addr -> Header]
           /\ Grown(h, u, s)[u].size = h[u].size + s + SIZEOF
           /\ Grown(h, u, s)[u].prevsize = h[u].prevsize
           /\ Grown(h, u, s)[u].is_allocated = h[u].is_allocated
           /\ \A a \in Addr : a # u => Grown(h, u, s)[a] = h[a]
  <1> DEFINE e == [h[u] EXCEPT !.size = @ + s + SIZEOF]
  <1>1. e \in Header /\ e.size = h[u].size + s + SIZEOF /\ e.prevsize = h[u].prevsize
        /\ e.is_allocated = h[u].is_allocated
    <2>1. h[u].size + s + SIZEOF \in Nat
      BY HeapAssumption DEF Header
    <2> QED  BY <2>1 DEF Header
  <1>2. Grown(h, u, s) = [h EXCEPT ![u] = e]
    BY DEF Grown
  <1> HIDE DEF e
  <1> QED  BY <1>1, <1>2

\* The entry before slot k is slot k - 1.
LEMMA PrevIs ==
    ASSUME OneSize, NEW w, NEW k \in Nat, w.current = Pos(k), w.heap[Pos(k)].prevsize = PrevSize(k)
    PROVE  IF k = 0 THEN ~(Prev(w) >= 0) ELSE Prev(w) = Pos(k - 1) /\ Prev(w) >= 0
  <1>1. CASE k = 0
    <2>1. Prev(w) = 0 - SIZEOF
      BY <1>1, Positions, Pitches DEF Prev, PrevSize
    <2> QED  BY <1>1, <2>1, Pitches
  <1>2. CASE k # 0
    <2>1. k - 1 \in Nat /\ (k - 1) + 1 = k
      BY <1>2
    <2>2. Pos(k - 1) \in Nat /\ Pos((k - 1) + 1) = Pos(k - 1) + Pitch
      BY <2>1, Positions
    <2>3. Prev(w) = Pos(k) - Size - SIZEOF
      BY <1>2 DEF Prev, PrevSize
    <2> QED  BY <1>2, <2>1, <2>2, <2>3, Pitches
  <1> QED  BY <1>1, <1>2

\* Between two blocks in use nothing is merged.
LEMMA FreeBetween ==
    ASSUME OneSize, NEW h, NEW have, NEW n \in Nat, NEW m \in Nat, Shape(h, have, n, m),
           NEW i \in 0 .. n - 1, i + 1 < n,
           h[Pos(i + 1)].is_allocated, i = 0 \/ h[Pos(i - 1)].is_allocated
    PROVE  FreeEntry(h, Pos(i)) = Unmarked(h, Pos(i))
  <1> DEFINE u == Pos(i)
             g == Unmarked(h, u)
  <1>0. /\ HEAP \in Nat /\ Size \in Nat /\ SIZEOF \in Nat /\ Pitch = Size + SIZEOF
        /\ h \in [Addr -> Header] /\ u \in Addr /\ u \in Nat /\ i \in Nat
        /\ \A k \in 0 .. n - 1 : Pos(k) \in Addr
        /\ h[u].size = Size /\ h[u].prevsize = PrevSize(i)
    <2>1. i \in Nat /\ Pos(i) \in Nat
      <3>1. i \in Nat
        OBVIOUS
      <3> QED  BY <3>1, Positions
    <2>2. \A k \in 0 .. n - 1 : Pos(k) \in Addr
      BY SlotsInFrame
    <2>3. h \in [Addr -> Header] /\ h[u].size = Size /\ h[u].prevsize = PrevSize(i)
      BY DEF Shape
    <2> QED  BY <2>1, <2>2, <2>3, Pitches
  <1>1. g \in [Addr -> Header] /\ g[u].size = Size /\ g[u].prevsize = PrevSize(i) /\ ~g[u].is_allocated
        /\ \A a \in Addr : a # u => g[a] = h[a]
    <2>1. h \in [Addr -> Header] /\ u \in Addr /\ h[u].size = Size /\ h[u].prevsize = PrevSize(i)
      BY <1>0
    <2> HIDE DEF u
    <2> QED  BY <2>1, UnmarkedIs
  <1>2. \A k \in 0 .. n - 1 : k # i => g[Pos(k)] = h[Pos(k)]
    <2> HIDE DEF g
    <2> SUFFICES ASSUME NEW k \in 0 .. n - 1, k # i PROVE g[Pos(k)] = h[Pos(k)]
      OBVIOUS
    <2>1. Pos(k) # u /\ Pos(k) \in Addr
      <3>1. k \in Nat /\ i \in Nat
        BY <1>0
      <3>2. Pos(k) # Pos(i)
        BY <3>1, Positions
      <3> QED  BY <1>0, <3>2
    <2> QED  BY <1>1, <2>1
  <1> HIDE DEF g
  <1>3. Forward(g, u) = g
    <2> DEFINE w == [heap |-> g, next |-> After(g, u)]
    <2>1. w.next = Pos(i + 1)
      <3>1. Pos(i + 1) = Pos(i) + Pitch
        BY <1>0, Positions
      <3> QED  BY <1>0, <1>1, <3>1 DEF After, At
    <2>2. w.heap[w.next].is_allocated /\ w.next \in Addr
      <3>1. i + 1 \in 0 .. n - 1 /\ i + 1 # i
        BY <1>0
      <3> QED  BY <1>0, <1>2, <2>1, <3>1
    <2>3. Absorb(u, w) = w
      <3> HIDE DEF w
      <3> QED  BY <2>2 DEF Absorb, IsFree, At
    <2>4. Forward(g, u) = w.heap
      BY <2>3, ForwardIs
    <2> QED  BY <2>4
  <1>4. Backward(g, u) = g
    <2> DEFINE w == [heap |-> g, current |-> u]
    <2>1. JoinPrev(w) = w
      <3>1. IF i = 0 THEN ~(Prev(w) >= 0) ELSE Prev(w) = Pos(i - 1) /\ Prev(w) >= 0
        <4>1. w.current = Pos(i) /\ w.heap[Pos(i)].prevsize = PrevSize(i)
          BY <1>1
        <4> HIDE DEF w
        <4> QED  BY <1>0, <4>1, PrevIs
      <3>2. CASE i = 0
        <4> HIDE DEF w
        <4> QED  BY <3>1, <3>2 DEF JoinPrev
      <3>3. CASE i # 0
        <4>1. i - 1 \in 0 .. n - 1 /\ i - 1 # i
          BY <1>0, <3>3
        <4>2. w.heap[Pos(i - 1)].is_allocated /\ Pos(i - 1) \in Addr
          BY <1>0, <1>2, <3>3, <4>1
        <4> HIDE DEF w
        <4> QED  BY <3>1, <3>3, <4>2 DEF JoinPrev, IsFree, At
      <3> QED  BY <3>2, <3>3
    <2>2. PICK f : /\ f[0] = w
                   /\ \A k \in 1 .. HEAP : f[k] = JoinPrev(f[k - 1])
                   /\ Backward(g, u) = f[HEAP].heap
      BY BackwardSteps
    <2> DEFINE c == [k \in 0 .. HEAP |-> w]
    <2>3. c[0] = w /\ c[HEAP] = w /\ \A k \in 1 .. HEAP : c[k] = JoinPrev(c[k - 1])
      BY <1>0, <2>1
    <2>4. f[HEAP] = c[HEAP]
      <3> HIDE DEF c, w
      <3> QED  BY <2>2, <2>3, LoopsAgree
    <2>5. w.heap = g
      OBVIOUS
    <2> HIDE DEF c, w
    <2> QED  BY <2>2, <2>3, <2>4, <2>5
  <1> QED  BY <1>3, <1>4 DEF FreeEntry, g, Unmarked


\* Different slots lie at different places.
LEMMA OtherSlots ==
    ASSUME OneSize, NEW i \in Nat, NEW k \in Nat, k # i
    PROVE  Pos(k) # Pos(i) /\ Slot(k) # Slot(i)
  <1>1. Pos(k) # Pos(i)
    BY Positions
  <1> QED  BY <1>1 DEF Slot

\* A block that is not the last is only marked, and the frame keeps its shape.
LEMMA FreeBetweenKeeps ==
    ASSUME OneSize, NEW h, NEW have, NEW n \in Nat, NEW m \in Nat, Shape(h, have, n, m),
           NEW i \in 0 .. n - 1, i + 1 < n
    PROVE  Shape(Unmarked(h, Pos(i)), have \ {Slot(i)}, n, m)
  <1> DEFINE u == Pos(i)
             g == Unmarked(h, u)
  <1>0. /\ HEAP \in Nat /\ Pitch \in Nat /\ Pitch > 0 /\ h \in [Addr -> Header] /\ i \in Nat
        /\ \A k \in 0 .. n - 1 : Pos(k) \in Addr
        /\ m > 0 => Pos(n) \in Addr
    <2>1. /\ \A k \in 0 .. n - 1 : Pos(k) \in Addr
          /\ m > 0 => Pos(n) \in Addr
      BY SlotsInFrame
    <2>2. h \in [Addr -> Header]
      BY DEF Shape
    <2> QED  BY <2>1, <2>2, Pitches
  <1>1. /\ g \in [Addr -> Header] /\ g[u].size = h[u].size /\ g[u].prevsize = h[u].prevsize
        /\ ~g[u].is_allocated /\ \A a \in Addr : a # u => g[a] = h[a]
    <2>1. h \in [Addr -> Header] /\ u \in Addr
      BY <1>0
    <2> HIDE DEF u
    <2> QED  BY <2>1, UnmarkedIs
  <1> HIDE DEF g
  <1>2. \A k \in Nat : k # i /\ Pos(k) \in Addr => g[Pos(k)] = h[Pos(k)]
    <2>1. \A k \in Nat : k # i => Pos(k) # u
      BY <1>0, OtherSlots
    <2> HIDE DEF u
    <2> QED  BY <1>1, <2>1
  <1>3. \A k \in 0 .. n - 1 : g[Pos(k)].size = Size /\ g[Pos(k)].prevsize = PrevSize(k)
    <2> SUFFICES ASSUME NEW k \in 0 .. n - 1
                 PROVE  g[Pos(k)].size = Size /\ g[Pos(k)].prevsize = PrevSize(k)
      OBVIOUS
    <2>1. h[Pos(k)].size = Size /\ h[Pos(k)].prevsize = PrevSize(k)
      BY DEF Shape
    <2> QED  BY <1>0, <1>1, <1>2, <2>1
  <1>4. n > 0 => g[Pos(n - 1)].is_allocated
    <2>1. n - 1 \in 0 .. n - 1 /\ n - 1 # i /\ n - 1 \in Nat
      BY <1>0
    <2> QED  BY <1>0, <1>2, <2>1 DEF Shape
  <1>5. m > 0 => g[Pos(n)].size = Pos(m) - SIZEOF /\ ~g[Pos(n)].is_allocated
    BY <1>0, <1>2 DEF Shape
  <1>6. \A a \in Addr : a >= Pos(n + m) => g[a] = Zero
    <2>1. n + m \in Nat /\ i < n + m
      BY <1>0
    <2>2. Pos(i) + Pitch <= Pos(n + m) /\ Pos(i) \in Nat /\ Pos(n + m) \in Nat
      BY <1>0, <2>1, Positions
    <2>3. \A a \in Addr : a >= Pos(n + m) => a # u
      BY <1>0, <2>2 DEF Addr
    <2> HIDE DEF u
    <2> QED  BY <1>1, <2>3 DEF Shape
  <1>7. have \ {Slot(i)} = {Slot(k) : k \in {k \in 0 .. n - 1 : g[Pos(k)].is_allocated}}
    <2>1. \A k \in 0 .. n - 1 : g[Pos(k)].is_allocated <=> (h[Pos(k)].is_allocated /\ k # i)
      <3> SUFFICES ASSUME NEW k \in 0 .. n - 1
                   PROVE  g[Pos(k)].is_allocated <=> (h[Pos(k)].is_allocated /\ k # i)
        OBVIOUS
      <3> QED  BY <1>0, <1>1, <1>2
    <2>2. \A k \in 0 .. n - 1 : k # i => Slot(k) # Slot(i)
      <3>1. \A k \in 0 .. n - 1 : k \in Nat
        OBVIOUS
      <3> QED  BY <1>0, <3>1, OtherSlots
    <2>3. have = {Slot(k) : k \in {k \in 0 .. n - 1 : h[Pos(k)].is_allocated}}
      BY DEF Shape
    <2> QED  BY <2>1, <2>2, <2>3
  <1> QED  BY <1>1, <1>3, <1>4, <1>5, <1>6, <1>7 DEF Shape, g


\* The last block that is freed takes the free entry behind it.
LEMMA FreeLastForward ==
    ASSUME OneSize, NEW h, NEW have, NEW n \in Nat, NEW m \in Nat, Shape(h, have, n, m), n > 0
    PROVE  LET u == Pos(n - 1)
               x == Forward(Unmarked(h, u), u)
           IN  /\ x \in [Addr -> Header]
               /\ x[u].size = Pos(m + 1) - SIZEOF /\ x[u].prevsize = PrevSize(n - 1)
               /\ ~x[u].is_allocated
               /\ \A a \in Addr : a # u => x[a] = h[a]
  <1> DEFINE u == Pos(n - 1)
             g == Unmarked(h, u)
             start == [heap |-> g, next |-> After(g, u)]
             End(x) == /\ x \in [Addr -> Header]
                       /\ x[u].size = Pos(m + 1) - SIZEOF /\ x[u].prevsize = PrevSize(n - 1)
                       /\ ~x[u].is_allocated
                       /\ \A a \in Addr : a # u => x[a] = h[a]
  <1> SUFFICES End(Forward(g, u))
    OBVIOUS
  <1>0. /\ HEAP \in Nat /\ Size \in Nat /\ Size > 0 /\ SIZEOF \in Nat /\ SIZEOF > 0 /\ Pitch = Size + SIZEOF
        /\ n - 1 \in Nat /\ (n - 1) + 1 = n /\ n + m \in Nat
    BY Pitches
  <1>1. /\ Pos(n - 1) \in Nat /\ Pos(n) = Pos(n - 1) + Pitch /\ Pos(m) \in Nat /\ Pos(m + 1) = Pos(m) + Pitch
        /\ Pos(n + m) = Pos(n) + Pos(m) /\ Pos(n) \in Nat /\ Pos(n + m) \in Nat
    <2>1. Pos(n - 1) \in Nat /\ Pos((n - 1) + 1) = Pos(n - 1) + Pitch
      BY <1>0, Positions
    <2>2. Pos(m) \in Nat /\ Pos(m + 1) = Pos(m) + Pitch /\ Pos(n + m) = Pos(n) + Pos(m) /\ Pos(n) \in Nat
      BY Positions
    <2> QED  BY <1>0, <2>1, <2>2
  <1>2. u \in Addr /\ h \in [Addr -> Header] /\ h[u].size = Size /\ h[u].prevsize = PrevSize(n - 1)
    <2>1. n - 1 \in 0 .. n - 1
      BY <1>0
    <2>2. Pos(n - 1) \in Addr
      BY <2>1, SlotsInFrame
    <2> QED  BY <2>1, <2>2 DEF Shape
  <1>3. /\ g \in [Addr -> Header] /\ g[u].size = Size /\ g[u].prevsize = PrevSize(n - 1)
        /\ ~g[u].is_allocated /\ \A a \in Addr : a # u => g[a] = h[a]
    <2> HIDE DEF u
    <2> QED  BY <1>2, UnmarkedIs
  <1>4. start.next = Pos(n)
    BY <1>0, <1>1, <1>2, <1>3 DEF After, At
  <1> HIDE DEF g
  \* nothing behind the entry that grows is a free entry
  <1>5. ASSUME NEW x, End(x) PROVE ~(Pos(n + m) < HEAP /\ IsFree(x, Pos(n + m)))
    <2> SUFFICES ASSUME Pos(n + m) < HEAP PROVE ~IsFree(x, Pos(n + m))
      OBVIOUS
    <2>1. Pos(n + m) \in Addr /\ Pos(n + m) # u
      BY <1>0, <1>1 DEF Addr
    <2>2. h[Pos(n + m)] = Zero
      BY <1>1, <2>1 DEF Shape
    <2>3. x[Pos(n + m)] = Zero
      BY <1>5, <2>1, <2>2
    <2> QED  BY <2>1, <2>3 DEF IsFree, At, Zero
  <1>6. CASE m = 0
    <2>1. End(g)
      <3>1. Pos(m + 1) - SIZEOF = Size
        BY <1>0, <1>1, <1>6, Positions
      <3> HIDE DEF u
      <3> QED  BY <1>3, <3>1
    <2>2. n + m = n
      BY <1>6
    <2> HIDE DEF End
    <2>3. ~(start.next < HEAP /\ IsFree(start.heap, start.next))
      <3>1. start.heap = g
        OBVIOUS
      <3> HIDE DEF start
      <3> QED  BY <1>4, <1>5, <2>1, <2>2, <3>1
    <2>4. Absorb(u, start) = start
      <3> HIDE DEF start, u
      <3> QED  BY <2>3 DEF Absorb
    <2>5. Forward(g, u) = start.heap
      <3> HIDE DEF u
      <3> QED  BY <2>4, ForwardIs
    <2> HIDE DEF u
    <2> QED  BY <2>1, <2>5
  <1>7. CASE m > 0
    <2> DEFINE s == Pos(m) - SIZEOF
               x == Grown(g, u, s)
               w == [heap |-> x, next |-> Pos(n + m)]
    <2>1. s \in Nat /\ s > 0
      <3>1. 0 \in Nat /\ 0 < m /\ Pos(0) + Pitch <= Pos(m) /\ Pos(0) = 0
        BY <1>7, Positions
      <3> QED  BY <1>0, <1>1, <3>1
    <2>2. Pos(n) \in Addr /\ Pos(n) # u /\ Pos(n) < HEAP
      <3>1. Pos(n) \in Addr
        BY <1>7, SlotsInFrame
      <3> QED  BY <1>0, <1>1, <3>1 DEF Addr
    <2>3. h[Pos(n)].size = s /\ ~h[Pos(n)].is_allocated
      BY <1>7 DEF Shape
    <2>4. g[Pos(n)].size = s /\ ~g[Pos(n)].is_allocated
      <3> HIDE DEF u
      <3> QED  BY <1>3, <2>2, <2>3
    <2>5. IsFree(g, Pos(n)) /\ After(g, Pos(n)) = Pos(n + m)
      BY <1>0, <1>1, <2>1, <2>2, <2>4 DEF IsFree, After, At
    <2>6. Absorb(u, start) = w
      <3>1. start.heap = g
        OBVIOUS
      <3>2. g[start.next].size = s /\ start.next < HEAP /\ IsFree(start.heap, start.next)
            /\ After(start.heap, start.next) = Pos(n + m)
        BY <1>4, <2>2, <2>4, <2>5, <3>1
      <3> HIDE DEF start, s, u
      <3> QED  BY <3>1, <3>2 DEF Absorb, Grown
    <2>7. End(x)
      <3>1. /\ x \in [Addr -> Header] /\ x[u].size = g[u].size + s + SIZEOF
            /\ x[u].prevsize = g[u].prevsize /\ x[u].is_allocated = g[u].is_allocated
            /\ \A a \in Addr : a # u => x[a] = g[a]
        <4> HIDE DEF u, s
        <4> QED  BY <1>2, <1>3, <2>1, GrownIs
      <3>2. g[u].size + s + SIZEOF = Pos(m + 1) - SIZEOF
        <4>1. g[u].size = Size
          BY <1>3
        <4> QED  BY <1>0, <1>1, <4>1
      <3> HIDE DEF x, u, s
      <3> QED  BY <1>3, <3>1, <3>2
    <2> HIDE DEF End
    <2>8. ~(w.next < HEAP /\ IsFree(w.heap, w.next))
      <3>1. w.heap = x /\ w.next = Pos(n + m)
        OBVIOUS
      <3> HIDE DEF w, x
      <3> QED  BY <1>5, <2>7, <3>1
    <2>9. Absorb(u, w) = w
      <3> HIDE DEF w, u
      <3> QED  BY <2>8 DEF Absorb
    <2>10. Forward(g, u) = w.heap
      <3> HIDE DEF w, u
      <3> QED  BY <2>6, <2>9, ForwardIs
    <2>11. w.heap = x
      OBVIOUS
    <2> HIDE DEF w, x
    <2> QED  BY <2>7, <2>10, <2>11
  <1> QED  BY <1>6, <1>7


\* Going back from the last slot, the entries of the slots i .. n - 1 have become
\* one; e is the number of slots up to the memory that was never used.
Joined(w, h, i, n, e) ==
    /\ w.heap \in [Addr -> Header]
    /\ w.current = Pos(i)
    /\ w.heap[Pos(i)].size = Pos(e - i) - SIZEOF
    /\ w.heap[Pos(i)].prevsize = PrevSize(i)
    /\ ~w.heap[Pos(i)].is_allocated
    /\ \A a \in Addr : a \notin {Pos(k) : k \in i .. n - 1} => w.heap[a] = h[a]

\* One step of the loop that merges with what is before takes in one free slot.
LEMMA JoinNext ==
    ASSUME OneSize, NEW h, NEW have, NEW n \in Nat, NEW m \in Nat, Shape(h, have, n, m),
           NEW w, NEW i \in 1 .. n - 1, Joined(w, h, i, n, n + m), ~h[Pos(i - 1)].is_allocated
    PROVE  Joined(JoinPrev(w), h, i - 1, n, n + m)
  <1> DEFINE b == i - 1
             u == Pos(b)
             s == Pos((n + m) - i) - SIZEOF
             x == Grown(w.heap, u, s)
             v == [heap |-> x, current |-> u]
  <1>0. /\ HEAP \in Nat /\ Size \in Nat /\ Size > 0 /\ SIZEOF \in Nat /\ SIZEOF > 0 /\ Pitch = Size + SIZEOF
        /\ b \in Nat /\ b + 1 = i /\ i \in Nat /\ b \in 0 .. n - 1 /\ b < i
        /\ (n + m) - i \in Nat /\ 0 < (n + m) - i /\ (n + m) - b = ((n + m) - i) + 1
    BY Pitches
  <1>1. u \in Addr /\ u \in Nat
    <2>1. u \in Addr
      BY <1>0, SlotsInFrame
    <2> QED  BY <1>0, <2>1, Positions
  <1>2. s \in Nat /\ Pos((n + m) - b) = s + SIZEOF + Pitch
    <2>1. Pos(0) = 0 /\ Pos(0) + Pitch <= Pos((n + m) - i) /\ Pos((n + m) - i) \in Nat
      <3>1. 0 \in Nat
        OBVIOUS
      <3> QED  BY <1>0, <3>1, Positions
    <2>2. Pos(((n + m) - i) + 1) = Pos((n + m) - i) + Pitch
      BY <1>0, Positions
    <2> QED  BY <1>0, <2>1, <2>2
  <1>3. u \notin {Pos(k) : k \in i .. n - 1}
    <2> SUFFICES ASSUME NEW k \in i .. n - 1 PROVE Pos(k) # u
      OBVIOUS
    <2>1. k \in Nat /\ k # b
      BY <1>0
    <2> QED  BY <1>0, <2>1, OtherSlots
  <1>4. h[u].size = Size /\ h[u].prevsize = PrevSize(b) /\ ~h[u].is_allocated
    BY <1>0 DEF Shape
  <1>5. w.heap[u] = h[u]
    BY <1>1, <1>3 DEF Joined
  <1>6. Prev(w) = u /\ Prev(w) >= 0
    <2>1. i # 0 /\ i \in Nat /\ w.current = Pos(i) /\ w.heap[Pos(i)].prevsize = PrevSize(i)
      BY <1>0 DEF Joined
    <2> QED  BY <2>1, PrevIs
  <1>7. IsFree(w.heap, u)
    BY <1>0, <1>1, <1>4, <1>5 DEF IsFree, At
  <1>8. w.heap[w.current].size = s
    BY DEF Joined
  <1>9. JoinPrev(w) = v
    <2> HIDE DEF s, u
    <2> QED  BY <1>6, <1>7, <1>8 DEF JoinPrev, Grown
  <1>10. /\ x \in [Addr -> Header] /\ x[u].size = w.heap[u].size + s + SIZEOF
         /\ x[u].prevsize = w.heap[u].prevsize /\ x[u].is_allocated = w.heap[u].is_allocated
         /\ \A a \in Addr : a # u => x[a] = w.heap[a]
    <2>1. w.heap \in [Addr -> Header]
      BY DEF Joined
    <2> HIDE DEF s, u
    <2> QED  BY <1>1, <1>2, <2>1, GrownIs
  <1> HIDE DEF x
  <1>11. x[u].size = Pos((n + m) - b) - SIZEOF
    <2>1. w.heap[u].size = Size
      BY <1>4, <1>5
    <2> HIDE DEF u, s, b
    <2> QED  BY <1>0, <1>2, <1>10, <2>1
  <1>12. \A a \in Addr : a \notin {Pos(k) : k \in b .. n - 1} => x[a] = h[a]
    <2> SUFFICES ASSUME NEW a \in Addr, a \notin {Pos(k) : k \in b .. n - 1} PROVE x[a] = h[a]
      OBVIOUS
    <2>1. a # u
      <3>1. b \in b .. n - 1
        BY <1>0
      <3> QED  BY <3>1
    <2>2. a \notin {Pos(k) : k \in i .. n - 1}
      <3>1. i .. n - 1 \subseteq b .. n - 1
        BY <1>0
      <3> QED  BY <3>1
    <2>3. w.heap[a] = h[a]
      BY <2>2 DEF Joined
    <2> HIDE DEF u
    <2> QED  BY <1>10, <2>1, <2>3
  <1>13. x[u].prevsize = PrevSize(b) /\ ~x[u].is_allocated
    BY <1>4, <1>5, <1>10
  <1>14. v.heap = x /\ v.current = u
    OBVIOUS
  <1> HIDE DEF v
  <1> QED  BY <1>9, <1>10, <1>11, <1>12, <1>13, <1>14 DEF Joined

\* The loop stops at a slot that is in use, or at the start of the frame.
LEMMA JoinEnds ==
    ASSUME OneSize, NEW h, NEW have, NEW n \in Nat, NEW m \in Nat, Shape(h, have, n, m),
           NEW w, NEW i \in 0 .. n - 1, Joined(w, h, i, n, n + m),
           i = 0 \/ h[Pos(i - 1)].is_allocated
    PROVE  JoinPrev(w) = w
  <1>1. IF i = 0 THEN ~(Prev(w) >= 0) ELSE Prev(w) = Pos(i - 1) /\ Prev(w) >= 0
    <2>1. i \in Nat /\ w.current = Pos(i) /\ w.heap[Pos(i)].prevsize = PrevSize(i)
      BY DEF Joined
    <2> QED  BY <2>1, PrevIs
  <1>2. CASE i = 0
    BY <1>1, <1>2 DEF JoinPrev
  <1>3. CASE i # 0
    <2>1. i - 1 \in 0 .. n - 1 /\ i - 1 \in Nat
      BY <1>3
    <2>2. Pos(i - 1) \in Addr
      BY <2>1, SlotsInFrame
    <2>3. Pos(i - 1) \notin {Pos(k) : k \in i .. n - 1}
      <3> SUFFICES ASSUME NEW k \in i .. n - 1 PROVE Pos(k) # Pos(i - 1)
        OBVIOUS
      <3>1. k \in Nat /\ k # i - 1
        BY <2>1
      <3> QED  BY <2>1, <3>1, OtherSlots
    <2>4. w.heap[Pos(i - 1)].is_allocated
      BY <1>3, <2>2, <2>3 DEF Joined
    <2>5. ~IsFree(w.heap, Prev(w))
      BY <1>1, <1>3, <2>2, <2>4 DEF IsFree, At
    <2> QED  BY <2>5 DEF JoinPrev
  <1> QED  BY <1>2, <1>3

\* The backward merge goes on to the first of the free slots before it.
LEMMA FreeLastBackward ==
    ASSUME OneSize, NEW h, NEW have, NEW n \in Nat, NEW m \in Nat, Shape(h, have, n, m), n > 0,
           NEW b \in 0 .. n - 1, b = 0 \/ h[Pos(b - 1)].is_allocated,
           \A k \in b .. n - 2 : ~h[Pos(k)].is_allocated,
           NEW x, Joined([heap |-> x, current |-> Pos(n - 1)], h, n - 1, n, n + m)
    PROVE  Joined([heap |-> Backward(x, Pos(n - 1)), current |-> Pos(b)], h, b, n, n + m)
  <1> DEFINE start == [heap |-> x, current |-> Pos(n - 1)]
             at(k) == IF k <= (n - 1) - b THEN (n - 1) - k ELSE b
  <1>0. HEAP \in Nat /\ HEAP > 0 /\ n <= HEAP /\ n - 1 \in Nat
    <2>1. n + m <= HEAP
      BY SlotsInFrame
    <2> QED  BY <2>1, Pitches
  <1>1. PICK f : /\ f[0] = start
                 /\ \A k \in 1 .. HEAP : f[k] = JoinPrev(f[k - 1])
                 /\ Backward(x, Pos(n - 1)) = f[HEAP].heap
    BY BackwardSteps
  <1> DEFINE D == {k \in Nat : k <= HEAP => Joined(f[k], h, at(k), n, n + m)}
  <1>2. 0 \in D
    <2>1. at(0) = n - 1
      BY <1>0
    <2> HIDE DEF at, start
    <2> QED  BY <1>1, <2>1 DEF start
  <1>3. ASSUME NEW k \in Nat, k \in D PROVE k + 1 \in D
    <2> SUFFICES ASSUME k + 1 <= HEAP PROVE Joined(f[k + 1], h, at(k + 1), n, n + m)
      OBVIOUS
    <2>1. Joined(f[k], h, at(k), n, n + m)
      BY <1>0, <1>3
    <2>2. f[k + 1] = JoinPrev(f[k])
      <3>1. k + 1 \in 1 .. HEAP /\ (k + 1) - 1 = k
        BY <1>0
      <3> QED  BY <1>1, <3>1
    <2>3. CASE k + 1 <= (n - 1) - b
      <3>1. at(k) \in 1 .. n - 1 /\ at(k) - 1 = at(k + 1) /\ at(k) - 1 \in b .. n - 2
        BY <1>0, <2>3
      <3>2. ~h[Pos(at(k) - 1)].is_allocated
        BY <3>1
      <3> HIDE DEF at
      <3>3. Joined(JoinPrev(f[k]), h, at(k) - 1, n, n + m)
        BY <2>1, <3>1, <3>2, JoinNext
      <3> QED  BY <2>2, <3>1, <3>3
    <2>4. CASE ~(k + 1 <= (n - 1) - b)
      <3>1. at(k) = b /\ at(k + 1) = b
        BY <1>0, <2>4
      <3> HIDE DEF at
      <3>2. JoinPrev(f[k]) = f[k]
        BY <2>1, <3>1, JoinEnds
      <3> QED  BY <2>1, <2>2, <3>1, <3>2
    <2> QED  BY <2>3, <2>4
  <1>4. HEAP \in D
    <2> HIDE DEF D
    <2>1. Nat \subseteq D
      BY <1>2, <1>3, EveryNumber
    <2> QED  BY <1>0, <2>1
  <1>5. at(HEAP) = b
    BY <1>0
  <1>6. Joined(f[HEAP], h, b, n, n + m)
    <2> HIDE DEF at
    <2> QED  BY <1>0, <1>4, <1>5
  <1> QED  BY <1>1, <1>6 DEF Joined


\* Freeing the last block gives back the free slots before it.
LEMMA FreeLast ==
    ASSUME OneSize, NEW h, NEW have, NEW n \in Nat, NEW m \in Nat, Shape(h, have, n, m), n > 0
    PROVE  \E p, q \in Nat : Shape(FreeEntry(h, Pos(n - 1)), have \ {Slot(n - 1)}, p, q)
  <1> DEFINE u == Pos(n - 1)
             x == Forward(Unmarked(h, u), u)
             y == Backward(x, u)
             C == {b \in 0 .. n - 1 : \A k \in b .. n - 2 : ~h[Pos(k)].is_allocated}
  <1>0. /\ HEAP \in Nat /\ Pitch \in Nat /\ Pitch > 0 /\ n - 1 \in Nat /\ n - 1 \in 0 .. n - 1
        /\ (n + m) - (n - 1) = m + 1 /\ n + m \in Nat
        /\ \A k \in 0 .. n - 1 : Pos(k) \in Addr
    <2>1. \A k \in 0 .. n - 1 : Pos(k) \in Addr
      BY SlotsInFrame
    <2> QED  BY <2>1, Pitches
  <1>1. FreeEntry(h, u) = y
    BY DEF FreeEntry, Unmarked
  <1>2. PICK b \in C : \A c \in C : b <= c
    <2>1. n - 1 \in C
      BY <1>0
    <2>2. C \in SUBSET Nat
      OBVIOUS
    <2>3. \E b \in C : \A c \in C : b <= c
      <3> HIDE DEF C
      <3> QED  BY <2>1, <2>2, Least
    <2> QED  BY <2>3
  <1>3. b \in 0 .. n - 1 /\ b \in Nat /\ \A k \in b .. n - 2 : ~h[Pos(k)].is_allocated
    BY <1>2
  <1>4. b = 0 \/ h[Pos(b - 1)].is_allocated
    <2> SUFFICES ASSUME b # 0, ~h[Pos(b - 1)].is_allocated PROVE FALSE
      OBVIOUS
    <2>1. b - 1 \in 0 .. n - 1 /\ \A k \in b - 1 .. n - 2 : k = b - 1 \/ k \in b .. n - 2
      BY <1>3
    <2>2. b - 1 \in C
      BY <1>3, <2>1
    <2>3. b <= b - 1
      <3> HIDE DEF C
      <3> QED  BY <1>2, <2>2
    <2> QED  BY <1>3, <2>3
  <1> HIDE DEF C
  <1>5. /\ x \in [Addr -> Header]
        /\ x[u].size = Pos(m + 1) - SIZEOF /\ x[u].prevsize = PrevSize(n - 1)
        /\ ~x[u].is_allocated
        /\ \A a \in Addr : a # u => x[a] = h[a]
    BY FreeLastForward
  <1>6. Joined([heap |-> x, current |-> u], h, n - 1, n, n + m)
    <2>1. \A a \in Addr : a \notin {Pos(k) : k \in n - 1 .. n - 1} => x[a] = h[a]
      <3>1. n - 1 \in n - 1 .. n - 1
        BY <1>0
      <3> HIDE DEF x
      <3> QED  BY <1>5, <3>1
    <2> HIDE DEF x
    <2> QED  BY <1>0, <1>5, <2>1 DEF Joined
  <1>7. Joined([heap |-> y, current |-> Pos(b)], h, b, n, n + m)
    <2> HIDE DEF x
    <2> QED  BY <1>3, <1>4, <1>6, FreeLastBackward
  <1> HIDE DEF y
  <1>8. /\ y \in [Addr -> Header]
        /\ y[Pos(b)].size = Pos((n + m) - b) - SIZEOF
        /\ ~y[Pos(b)].is_allocated
        /\ \A a \in Addr : a \notin {Pos(k) : k \in b .. n - 1} => y[a] = h[a]
    BY <1>7 DEF Joined
  <1> DEFINE q == (n + m) - b
  <1>9. q \in Nat /\ b + q = n + m
    BY <1>0, <1>3
  <1>10. \A k \in 0 .. b - 1 : y[Pos(k)] = h[Pos(k)]
    <2> SUFFICES ASSUME NEW k \in 0 .. b - 1 PROVE y[Pos(k)] = h[Pos(k)]
      OBVIOUS
    <2>1. k \in Nat /\ k \in 0 .. n - 1
      BY <1>3
    <2>2. Pos(k) \notin {Pos(c) : c \in b .. n - 1}
      <3> SUFFICES ASSUME NEW c \in b .. n - 1 PROVE Pos(c) # Pos(k)
        OBVIOUS
      <3>1. c \in Nat /\ c # k
        BY <1>3
      <3> QED  BY <2>1, <3>1, OtherSlots
    <2> QED  BY <1>0, <1>8, <2>1, <2>2
  <1>11. n + m > 0 => Pos(b + q - 1) < HEAP
    <2> HIDE DEF q
    <2>1. b + q - 1 = n + m - 1
      BY <1>3, <1>9
    <2> QED  BY <2>1 DEF Shape
  <1>12. \A k \in 0 .. b - 1 : y[Pos(k)].size = Size /\ y[Pos(k)].prevsize = PrevSize(k)
    <2>1. \A k \in 0 .. b - 1 : k \in 0 .. n - 1
      BY <1>3
    <2> QED  BY <1>10, <2>1 DEF Shape
  <1>13. b > 0 => y[Pos(b - 1)].is_allocated
    <2>1. b > 0 => b - 1 \in 0 .. b - 1
      BY <1>3
    <2> QED  BY <1>4, <1>10, <2>1
  <1>14. \A a \in Addr : a >= Pos(b + q) => y[a] = Zero
    <2> SUFFICES ASSUME NEW a \in Addr, a >= Pos(n + m) PROVE y[a] = Zero
      BY <1>9
    <2>1. a \notin {Pos(k) : k \in b .. n - 1}
      <3> SUFFICES ASSUME NEW k \in b .. n - 1 PROVE Pos(k) # a
        OBVIOUS
      <3>1. k \in Nat /\ k < n + m
        BY <1>3
      <3>2. Pos(k) + Pitch <= Pos(n + m) /\ Pos(k) \in Nat /\ Pos(n + m) \in Nat
        BY <1>0, <3>1, Positions
      <3> QED  BY <1>0, <3>2 DEF Addr
    <2> QED  BY <1>8, <2>1 DEF Shape
  <1>15. have \ {Slot(n - 1)} = {Slot(k) : k \in {k \in 0 .. b - 1 : y[Pos(k)].is_allocated}}
    <2>1. have = {Slot(k) : k \in {k \in 0 .. n - 1 : h[Pos(k)].is_allocated}}
      BY DEF Shape
    <2>2. \A k \in 0 .. b - 1 : k \in 0 .. n - 1 /\ k # n - 1 /\ k \in Nat
      BY <1>3
    <2>3. \A k \in 0 .. n - 1 : k \in 0 .. b - 1 \/ k = n - 1 \/ k \in b .. n - 2
      BY <1>0, <1>3
    <2>4. \A k \in 0 .. b - 1 : Slot(k) # Slot(n - 1)
      BY <1>0, <2>2, OtherSlots
    <2>5. \A k \in 0 .. b - 1 : y[Pos(k)].is_allocated <=> h[Pos(k)].is_allocated
      BY <1>10
    <2> QED  BY <1>3, <2>1, <2>2, <2>3, <2>4, <2>5
  <1>16. Shape(y, have \ {Slot(n - 1)}, b, q)
    <2> HIDE DEF q
    <2> QED  BY <1>8, <1>9, <1>11, <1>12, <1>13, <1>14, <1>15 DEF Shape, q
  <1> HIDE DEF q
  <1> QED  BY <1>1, <1>3, <1>9, <1>16

\* A block next to nothing that is free, or the last one.
Freeable(h, n, i) ==
    i = n - 1 \/ (i + 1 < n /\ h[Pos(i + 1)].is_allocated /\ (i = 0 \/ h[Pos(i - 1)].is_allocated))

\* Whichever block is freed, the frame keeps its shape.
LEMMA FreeKeepsShape ==
    ASSUME OneSize, NEW h, NEW have, NEW n \in Nat, NEW m \in Nat, Shape(h, have, n, m),
           NEW i \in 0 .. n - 1, Freeable(h, n, i)
    PROVE  \E p, q \in Nat : Shape(FreeEntry(h, Pos(i)), have \ {Slot(i)}, p, q)
  <1>1. CASE i = n - 1
    <2>1. n > 0
      OBVIOUS
    <2> QED  BY <1>1, <2>1, FreeLast
  <1>2. CASE i + 1 < n /\ h[Pos(i + 1)].is_allocated /\ (i = 0 \/ h[Pos(i - 1)].is_allocated)
    <2>1. FreeEntry(h, Pos(i)) = Unmarked(h, Pos(i))
      BY <1>2, FreeBetween
    <2>2. Shape(Unmarked(h, Pos(i)), have \ {Slot(i)}, n, m)
      BY <1>2, FreeBetweenKeeps
    <2> QED  BY <2>1, <2>2
  <1> QED  BY <1>1, <1>2 DEF Freeable

\* A slot is marked exactly if a caller has it.
LEMMA InUse ==
    ASSUME OneSize, NEW h, NEW have, NEW n \in Nat, NEW m \in Nat, Shape(h, have, n, m),
           NEW k \in 0 .. n - 1
    PROVE  h[Pos(k)].is_allocated <=> Slot(k) \in have
  <1>1. have = {Slot(i) : i \in {i \in 0 .. n - 1 : h[Pos(i)].is_allocated}}
    BY DEF Shape
  <1>2. \A i \in 0 .. n - 1 : i # k => Slot(i) # Slot(k)
    <2>1. k \in Nat /\ \A i \in 0 .. n - 1 : i \in Nat
      OBVIOUS
    <2> QED  BY <2>1, OtherSlots
  <1> QED  BY <1>1, <1>2

\* What FreesSafely asks of a block, of its slot.
LEMMA SafeIsFreeable ==
    ASSUME OneSize, NEW n \in Nat, NEW m \in Nat, Shape(heap, live, n, m),
           NEW x \in live, FreesSafely(x)
    PROVE  \E i \in 0 .. n - 1 : x = Slot(i) /\ heap[Pos(i)].is_allocated /\ Freeable(heap, n, i)
  <1>1. live = {Slot(i) : i \in {i \in 0 .. n - 1 : heap[Pos(i)].is_allocated}}
    BY DEF Shape
  <1>2. PICK i \in 0 .. n - 1 : x = Slot(i) /\ heap[Pos(i)].is_allocated
    BY <1>1
  <1>3. /\ Size \in Nat /\ SIZEOF \in Nat /\ Pitch = Size + SIZEOF /\ Pitch > 0 /\ i \in Nat
        /\ n - 1 \in Nat /\ n - 1 \in 0 .. n - 1
    BY Pitches
  <1>4. \A k \in 0 .. n - 1 : After(heap, Pos(k)) = Pos(k + 1) /\ Slot(k)[1] = Pos(k)
    <2> SUFFICES ASSUME NEW k \in 0 .. n - 1 PROVE After(heap, Pos(k)) = Pos(k + 1) /\ Slot(k)[1] = Pos(k)
      OBVIOUS
    <2>1. k \in Nat
      OBVIOUS
    <2>2. Pos(k) \in Addr /\ heap[Pos(k)].size = Size
      BY SlotsInFrame DEF Shape
    <2>3. Pos(k + 1) = Pos(k) + Pitch /\ Pos(k) \in Nat
      BY <2>1, Positions
    <2> QED  BY <1>3, <2>2, <2>3 DEF After, At, Slot
  <1>5. CASE LastLive(x)
    <2>1. heap[Pos(n - 1)].is_allocated
      BY <1>3 DEF Shape
    <2>2. Slot(n - 1) \in live
      BY <1>1, <1>3, <2>1
    <2>3. Pos(n - 1) <= Pos(i)
      BY <1>2, <1>3, <1>4, <1>5, <2>2 DEF LastLive
    <2>4. ~(i < n - 1)
      <3>1. i < n - 1 => Pos(i) + Pitch <= Pos(n - 1)
        BY <1>3, Positions
      <3>2. Pos(i) \in Nat /\ Pos(n - 1) \in Nat
        BY <1>3, Positions
      <3> QED  BY <1>3, <2>3, <3>1, <3>2
    <2>5. i = n - 1
      BY <1>3, <2>4
    <2> QED  BY <1>2, <2>5 DEF Freeable
  <1>6. CASE NextLive(x) /\ PrevLive(x)
    <2>1. PICK k \in 0 .. n - 1 : heap[Pos(k)].is_allocated /\ Slot(k)[1] = After(heap, x[1])
      BY <1>1, <1>6 DEF NextLive
    <2>2. Pos(k) = Pos(i + 1) /\ k \in Nat /\ i + 1 \in Nat
      BY <1>2, <1>3, <1>4, <2>1
    <2>3. k = i + 1
      BY <2>2, Positions
    <2>4. i = 0 \/ heap[Pos(i - 1)].is_allocated
      <3>1. CASE x[1] = 0
        <4>1. Pos(i) = Pos(0) /\ 0 \in Nat
          BY <1>2, <1>4, <3>1, Positions
        <4> QED  BY <1>3, <4>1, Positions
      <3>2. CASE \E y \in live : After(heap, y[1]) = x[1]
        <4>1. PICK j \in 0 .. n - 1 : heap[Pos(j)].is_allocated /\ After(heap, Slot(j)[1]) = x[1]
          BY <1>1, <3>2
        <4>2. Pos(j + 1) = Pos(i) /\ j + 1 \in Nat /\ (j + 1) - 1 = j
          BY <1>2, <1>4, <4>1
        <4>3. j + 1 = i
          BY <1>3, <4>2, Positions
        <4> QED  BY <4>1, <4>2, <4>3
      <3> QED  BY <1>6, <3>1, <3>2 DEF PrevLive
    <2> QED  BY <1>2, <2>1, <2>3, <2>4 DEF Freeable
  <1> QED  BY <1>5, <1>6 DEF FreesSafely


(***************************************************************************)
(* Every operation keeps the shape of the heap.                            *)
(***************************************************************************)

\* malloc keeps the shape.
LEMMA MallocKeepsShape ==
    ASSUME OneSize, HeapInv, NEW size \in Sizes, Malloc(size)
    PROVE  HeapInv'
  <1>1. PICK n \in Nat : \E m \in Nat : Shape(heap, live, n, m)
    BY DEF HeapInv
  <1>2. PICK m \in Nat : Shape(heap, live, n, m)
    BY <1>1
  <1>3. size = Size
    BY DEF OneSize
  <1> DEFINE f == FirstFree(heap)
  <1>4. CASE f.at >= HEAP
    <2>1. UNCHANGED vars
      BY <1>4 DEF Malloc
    <2> QED  BY <1>2, <2>1 DEF vars, HeapInv
  <1>5. CASE ~(f.at >= HEAP)
    <2>1. PICK bytes \in Bytes : live' = Given(live, Chosen(heap).entry, Size) /\ heap' = Written(heap, bytes)
      BY <1>3, <1>5 DEF Malloc, Chosen, Written
    <2>2. f.at < HEAP
      <3>1. PICK j \in 0 .. n : /\ \A k \in 0 .. j - 1 : heap[Pos(k)].is_allocated
                                /\ j < n => ~heap[Pos(j)].is_allocated
        BY SomeFreeSlot
      <3>2. f.at = Pos(j) /\ j \in Nat
        <4>1. f = [at |-> Pos(j), prevsize |-> PrevSize(j)]
          BY <1>2, <3>1, FirstFreeIs
        <4> HIDE DEF f
        <4> QED  BY <4>1
      <3>3. Pos(j) \in Nat
        BY <3>2, Positions
      <3> HIDE DEF f
      <3> QED  BY <1>5, <3>2, <3>3, Pitches
    <2>3. \E j, p, q \in Nat :
             /\ Shape(Written(heap, bytes), live \cup {Slot(j)}, p, q)
             /\ Given(live, Chosen(heap).entry, Size) = live \cup {Slot(j)}
      <3>1. OneSize /\ bytes \in Bytes /\ FirstFree(heap).at < HEAP /\ n \in Nat /\ m \in Nat
            /\ Shape(heap, live, n, m)
        BY <1>2, <2>2
      <3>2. \E j, p, q \in Nat :
              /\ Shape(Written(heap, bytes), live \cup {Slot(j)}, p, q)
              /\ Chosen(heap).entry = Pos(j) /\ Slot(j) \notin live
              /\ Given(live, Chosen(heap).entry, Size) = live \cup {Slot(j)}
              /\ \/ j < n /\ p = n
                 \/ j = n /\ p = n + 1 /\ \A k \in 0 .. n - 1 : heap[Pos(k)].is_allocated
        BY <3>1, MallocGives
      <3> QED  BY <3>2
    <2> QED  BY <2>1, <2>3 DEF HeapInv
  <1> QED  BY <1>4, <1>5

\* free keeps the shape.
LEMMA FreeKeepsHeap ==
    ASSUME OneSize, HeapInv, NEW x \in live, FreesSafely(x), Free(x)
    PROVE  HeapInv'
  <1>1. PICK n \in Nat : \E m \in Nat : Shape(heap, live, n, m)
    BY DEF HeapInv
  <1>2. PICK m \in Nat : Shape(heap, live, n, m)
    BY <1>1
  <1>3. PICK i \in 0 .. n - 1 : x = Slot(i) /\ heap[Pos(i)].is_allocated /\ Freeable(heap, n, i)
    BY <1>2, SafeIsFreeable
  <1>4. x[1] = Pos(i) /\ Pos(i) \in Addr
    BY <1>2, <1>3, SlotsInFrame DEF Slot
  <1>5. heap' = FreeEntry(heap, Pos(i)) /\ live' = live \ {Slot(i)}
    BY <1>3, <1>4 DEF Free, At
  <1>6. \E p, q \in Nat : Shape(FreeEntry(heap, Pos(i)), live \ {Slot(i)}, p, q)
    BY <1>2, <1>3, FreeKeepsShape
  <1> QED  BY <1>5, <1>6 DEF HeapInv

\* realloc keeps the shape.
LEMMA ReallocKeepsShape ==
    ASSUME OneSize, HeapInv, NEW x \in live, NEW size \in Sizes, FreesSafely(x), Realloc(x, size)
    PROVE  HeapInv'
  <1>1. PICK n \in Nat : \E m \in Nat : Shape(heap, live, n, m)
    BY DEF HeapInv
  <1>2. PICK m \in Nat : Shape(heap, live, n, m)
    BY <1>1
  <1>3. size = Size
    BY DEF OneSize
  <1> DEFINE f == FirstFree(heap)
  <1>4. PICK i \in 0 .. n - 1 : x = Slot(i) /\ heap[Pos(i)].is_allocated /\ Freeable(heap, n, i)
    BY <1>2, SafeIsFreeable
  <1>5. x[1] = Pos(i) /\ i \in Nat
    BY <1>4 DEF Slot
  <1>6. f.at < HEAP
    BY DEF Realloc
  <1>7. PICK bytes \in Bytes :
           At(Written(heap, bytes), x[1]).is_allocated
             => /\ heap' = FreeEntry(Written(heap, bytes), x[1])
                /\ live' = Given(live, Chosen(heap).entry, Size) \ {x}
    BY <1>3 DEF Realloc, Chosen, Written
  <1>8. PICK h : h = Written(heap, bytes)
    OBVIOUS
  <1>9. \E j, p, q \in Nat :
           /\ Shape(h, live \cup {Slot(j)}, p, q)
           /\ Given(live, Chosen(heap).entry, Size) = live \cup {Slot(j)}
           /\ \/ j < n /\ p = n
              \/ j = n /\ p = n + 1 /\ \A k \in 0 .. n - 1 : heap[Pos(k)].is_allocated
    <2>1. OneSize /\ bytes \in Bytes /\ FirstFree(heap).at < HEAP /\ n \in Nat /\ m \in Nat
          /\ Shape(heap, live, n, m)
      BY <1>2, <1>6
    <2>2. \E j, p, q \in Nat :
            /\ Shape(Written(heap, bytes), live \cup {Slot(j)}, p, q)
            /\ Chosen(heap).entry = Pos(j) /\ Slot(j) \notin live
            /\ Given(live, Chosen(heap).entry, Size) = live \cup {Slot(j)}
            /\ \/ j < n /\ p = n
               \/ j = n /\ p = n + 1 /\ \A k \in 0 .. n - 1 : heap[Pos(k)].is_allocated
      BY <2>1, MallocGives
    <2> QED  BY <1>8, <2>2
  <1>10. PICK j \in Nat, p \in Nat, q \in Nat :
           /\ Shape(h, live \cup {Slot(j)}, p, q)
           /\ Given(live, Chosen(heap).entry, Size) = live \cup {Slot(j)}
           /\ \/ j < n /\ p = n
              \/ j = n /\ p = n + 1 /\ \A k \in 0 .. n - 1 : heap[Pos(k)].is_allocated
    BY <1>9
  <1>11. i \in 0 .. p - 1 /\ Pos(i) \in Addr
    <2>1. i \in 0 .. p - 1
      BY <1>10
    <2> QED  BY <1>10, <2>1, SlotsInFrame
  \* what is in use before malloc is in use after it
  <1>12. \A k \in 0 .. p - 1 : (k = j \/ (k \in 0 .. n - 1 /\ heap[Pos(k)].is_allocated)) => h[Pos(k)].is_allocated
    <2> SUFFICES ASSUME NEW k \in 0 .. p - 1, k = j \/ (k \in 0 .. n - 1 /\ heap[Pos(k)].is_allocated)
                 PROVE  h[Pos(k)].is_allocated
      OBVIOUS
    <2>1. Slot(k) \in live \cup {Slot(j)}
      <3>1. CASE k = j
        BY <3>1
      <3>2. CASE k \in 0 .. n - 1 /\ heap[Pos(k)].is_allocated
        BY <1>2, <3>2, InUse
      <3> QED  BY <3>1, <3>2
    <2> QED  BY <1>10, <2>1, InUse
  <1>13. h[Pos(i)].is_allocated
    BY <1>4, <1>11, <1>12
  <1>14. Freeable(h, p, i)
    <2>1. CASE p = n
      <3>1. CASE i = n - 1
        BY <2>1, <3>1 DEF Freeable
      <3>2. CASE i + 1 < n /\ heap[Pos(i + 1)].is_allocated /\ (i = 0 \/ heap[Pos(i - 1)].is_allocated)
        <4>1. i + 1 \in 0 .. n - 1 /\ i + 1 \in 0 .. p - 1
              /\ (i # 0 => i - 1 \in 0 .. n - 1 /\ i - 1 \in 0 .. p - 1)
          BY <1>5, <2>1, <3>2
        <4>2. h[Pos(i + 1)].is_allocated /\ (i = 0 \/ h[Pos(i - 1)].is_allocated)
          BY <1>12, <3>2, <4>1
        <4> QED  BY <2>1, <3>2, <4>2 DEF Freeable
      <3> QED  BY <1>4, <3>1, <3>2 DEF Freeable
    <2>2. CASE j = n /\ p = n + 1 /\ \A k \in 0 .. n - 1 : heap[Pos(k)].is_allocated
      <3>1. i + 1 \in 0 .. p - 1 /\ (i + 1 = j \/ i + 1 \in 0 .. n - 1) /\ i + 1 < p
            /\ (i # 0 => i - 1 \in 0 .. n - 1 /\ i - 1 \in 0 .. p - 1)
        BY <1>5, <2>2
      <3>2. h[Pos(i + 1)].is_allocated /\ (i = 0 \/ h[Pos(i - 1)].is_allocated)
        BY <1>12, <2>2, <3>1
      <3> QED  BY <3>1, <3>2 DEF Freeable
    <2> QED  BY <1>10, <2>1, <2>2
  <1>15. At(h, x[1]).is_allocated
    BY <1>5, <1>11, <1>13 DEF At
  <1>16. heap' = FreeEntry(h, Pos(i)) /\ live' = (live \cup {Slot(j)}) \ {Slot(i)}
    BY <1>4, <1>5, <1>7, <1>8, <1>10, <1>15
  <1>17. \E p1, q1 \in Nat : Shape(FreeEntry(h, Pos(i)), (live \cup {Slot(j)}) \ {Slot(i)}, p1, q1)
    BY <1>10, <1>11, <1>14, FreeKeepsShape
  <1> QED  BY <1>16, <1>17 DEF HeapInv

\* A frame of zeroes has the shape.
LEMMA HeapStart ==
    ASSUME OneSize, Init
    PROVE  HeapInv
  <1>1. Zero \in Header
    BY DEF Zero, Header
  <1>2. heap \in [Addr -> Header] /\ \A a \in Addr : heap[a] = Zero
    BY <1>1 DEF Init
  <1>3. {k \in 0 .. 0 - 1 : heap[Pos(k)].is_allocated} = {} /\ \A k \in 0 .. 0 - 1 : FALSE
    OBVIOUS
  <1>4. Shape(heap, live, 0, 0)
    BY <1>2, <1>3 DEF Shape, Init
  <1> QED  BY <1>4 DEF HeapInv

\* Whatever malloc, free and realloc (memory.c:12-128) have split and merged, for
\* callers that ask for one size and free as FreesSafely says, the frame has the
\* shape above.
THEOREM HeapKeepsShape == ASSUME OneSize PROVE Spec => []HeapInv
  <1>1. Init => HeapInv
    BY HeapStart
  <1>2. HeapInv /\ [Next]_vars => HeapInv'
    <2> SUFFICES ASSUME HeapInv, [Next]_vars PROVE HeapInv'
      OBVIOUS
    <2>1. CASE \E size \in Sizes : Malloc(size)
      BY <2>1, MallocKeepsShape
    <2>2. CASE \E x \in live : FreesSafely(x) /\ Free(x)
      BY <2>2, FreeKeepsHeap
    <2>3. CASE \E x \in live, size \in Sizes : FreesSafely(x) /\ Realloc(x, size)
      BY <2>3, ReallocKeepsShape
    <2>4. CASE UNCHANGED vars
      BY <2>4 DEF vars, HeapInv
    <2> QED  BY <2>1, <2>2, <2>3, <2>4 DEF Next
  <1> QED  BY <1>1, <1>2, PTL DEF Spec


(***************************************************************************)
(* What the shape says of the blocks and of the chain.                     *)
(***************************************************************************)

\* What callers have does not overlap.
LEMMA SlotsDisjoint ==
    ASSUME OneSize, HeapInv
    PROVE  DataDisjoint
  <1>1. PICK n \in Nat : \E m \in Nat : Shape(heap, live, n, m)
    BY DEF HeapInv
  <1>2. live = {Slot(i) : i \in {i \in 0 .. n - 1 : heap[Pos(i)].is_allocated}}
    BY <1>1 DEF Shape
  <1>3. ASSUME NEW i \in Nat, NEW k \in Nat, i < k
        PROVE  ({Slot(i)[1]} \cup Data(Slot(i))) \cap ({Slot(k)[1]} \cup Data(Slot(k))) = {}
    <2>1. Slot(i)[1] = Pos(i) /\ Slot(k)[1] = Pos(k)
      BY DEF Slot
    <2>2. Pos(i) \in Nat /\ Pos(k) \in Nat /\ Pos(i + 1) = Pos(i) + Pitch /\ Pos(i) + Pitch <= Pos(k)
          /\ Pitch \in Nat /\ Pitch > 0
      <3>1. Pos(i) \in Nat /\ Pos(i + 1) = Pos(i) + Pitch
        BY Positions
      <3>2. Pos(k) \in Nat /\ Pos(i) + Pitch <= Pos(k)
        BY <1>3, Positions
      <3>3. Pitch \in Nat /\ Pitch > 0
        BY Pitches
      <3> QED  BY <3>1, <3>2, <3>3
    <2>3. \A a \in Data(Slot(i)) : a \in Nat /\ a < Pos(i + 1)
      BY DataInSlot
    <2>4. \A a \in Data(Slot(k)) : a \in Nat /\ Pos(k) < a
      BY DataInSlot
    <2>5. \A a \in {Slot(i)[1]} \cup Data(Slot(i)) : a \in Nat /\ a < Pos(k)
      BY <2>1, <2>2, <2>3
    <2>6. \A a \in {Slot(k)[1]} \cup Data(Slot(k)) : a \in Nat /\ a >= Pos(k)
      BY <2>1, <2>2, <2>4
    <2> DEFINE A == {Slot(i)[1]} \cup Data(Slot(i))
               B == {Slot(k)[1]} \cup Data(Slot(k))
    <2> HIDE DEF A, B
    <2>7. A \cap B = {}
      BY <2>2, <2>5, <2>6 DEF A, B
    <2> QED  BY <2>7 DEF A, B
  <1> SUFFICES ASSUME NEW x \in live, NEW y \in live, x # y
               PROVE  ({x[1]} \cup Data(x)) \cap ({y[1]} \cup Data(y)) = {}
    BY DEF DataDisjoint
  <1>4. PICK i \in 0 .. n - 1 : x = Slot(i)
    BY <1>2
  <1>5. PICK k \in 0 .. n - 1 : y = Slot(k)
    BY <1>2
  <1>6. i \in Nat /\ k \in Nat /\ (i < k \/ k < i)
    BY <1>4, <1>5
  <1>7. CASE i < k
    BY <1>3, <1>4, <1>5, <1>6, <1>7
  <1>8. CASE k < i
    <2>1. ({y[1]} \cup Data(y)) \cap ({x[1]} \cup Data(x)) = {}
      BY <1>3, <1>4, <1>5, <1>6, <1>8
    <2> QED  BY <2>1
  <1> QED  BY <1>6, <1>7, <1>8

\* The number of entries that malloc steps through.
Entries(n, m) == IF m > 0 THEN n + 1 ELSE n

\* The entries the loop visits are the slots and the free entry behind them.
LEMMA ChainIs ==
    ASSUME OneSize, NEW n \in Nat, NEW m \in Nat, Shape(heap, live, n, m)
    PROVE  Chain = {Pos(k) : k \in 0 .. Entries(n, m) - 1}
  <1> DEFINE E == Entries(n, m)
             start == [at |-> 0, passed |-> {}]
             at(k) == IF k < E THEN Pos(k) ELSE Pos(n + m)
             state(k) == [at |-> at(k), passed |-> {Pos(c) : c \in 0 .. k - 1}]
             W == [k \in 0 .. HEAP |-> IF k < E THEN state(k) ELSE state(E)]
             r == CHOOSE f : f = [k \in 0 .. HEAP |-> IF k = 0 THEN start ELSE AddEntry(f[k - 1])]
  <1>0. /\ HEAP \in Nat /\ HEAP > 0 /\ E \in Nat /\ E <= HEAP /\ n + m \in Nat
        /\ Size \in Nat /\ Size > 0 /\ SIZEOF \in Nat /\ SIZEOF > 0 /\ Pitch = Size + SIZEOF
    <2>1. n + m <= HEAP
      BY SlotsInFrame
    <2>2. E \in Nat /\ E <= n + m
      BY DEF Entries
    <2> HIDE DEF E
    <2> QED  BY <2>1, <2>2, Pitches
  <1>1. W[0] = start
    <2>1. at(0) = 0
      <3>1. CASE 0 < E
        BY <3>1, Positions
      <3>2. CASE ~(0 < E)
        <4>1. n + m = 0
          BY <3>2 DEF Entries
        <4> QED  BY <3>2, <4>1, Positions
      <3> QED  BY <3>1, <3>2
    <2>2. {Pos(c) : c \in 0 .. 0 - 1} = {}
      OBVIOUS
    <2>3. state(0) = start
      BY <2>1, <2>2
    <2>4. W[0] = state(0)
      <3>1. E = 0 \/ 0 < E
        BY <1>0
      <3> HIDE DEF state, E
      <3> QED  BY <1>0, <3>1
    <2> QED  BY <2>3, <2>4
  <1>2. ASSUME NEW k \in Nat, k < E PROVE AddEntry(state(k)) = state(k + 1)
    <2>1. Pos(k) \in Addr /\ Pos(k) < HEAP
      <3>1. k \in 0 .. n + m - 1
        BY <1>2 DEF Entries
      <3>2. Pos(k) \in Addr
        BY <3>1, SlotsInFrame
      <3> QED  BY <1>0, <3>2 DEF Addr
    <2>2. heap[Pos(k)].size # 0 /\ After(heap, Pos(k)) = at(k + 1)
      <3>1. CASE k < n
        <4>1. heap[Pos(k)].size = Size
          BY <3>1 DEF Shape
        <4>2. Pos(k) \in Nat /\ Pos(k + 1) = Pos(k) + Pitch
          BY Positions
        <4>3. at(k + 1) = Pos(k + 1)
          <5>1. CASE k + 1 < E
            BY <5>1
          <5>2. CASE ~(k + 1 < E)
            <6>1. k + 1 = n + m
              BY <1>2, <3>1, <5>2 DEF Entries
            <6> QED  BY <5>2, <6>1
          <5> QED  BY <5>1, <5>2
        <4> HIDE DEF at
        <4> QED  BY <1>0, <2>1, <4>1, <4>2, <4>3 DEF After, At
      <3>2. CASE ~(k < n)
        <4>1. k = n /\ m > 0 /\ ~(k + 1 < E)
          BY <1>2, <3>2 DEF Entries
        <4>2. heap[Pos(n)].size = Pos(m) - SIZEOF
          BY <4>1 DEF Shape
        <4>3. Pos(n) \in Nat /\ Pos(m) \in Nat /\ Pos(n + m) = Pos(n) + Pos(m)
          BY Positions
        <4>4. Pos(m) >= Pitch
          <5>1. 0 \in Nat /\ 0 < m /\ Pos(0) = 0 /\ Pos(0) + Pitch <= Pos(m)
            BY <4>1, Positions
          <5> QED  BY <1>0, <4>3, <5>1
        <4>5. at(k + 1) = Pos(n + m)
          BY <4>1
        <4> HIDE DEF at
        <4> QED  BY <1>0, <2>1, <4>1, <4>2, <4>3, <4>4, <4>5 DEF After, At
      <3> QED  BY <3>1, <3>2
    <2>3. state(k).at = Pos(k) /\ state(k).passed = {Pos(c) : c \in 0 .. k - 1}
      BY <1>2
    <2>4. {Pos(c) : c \in 0 .. k - 1} \cup {Pos(k)} = {Pos(c) : c \in 0 .. (k + 1) - 1}
      <3>1. 0 .. (k + 1) - 1 = (0 .. k - 1) \cup {k}
        OBVIOUS
      <3> QED  BY <3>1
    <2>5. AddEntry(state(k)) = [at |-> After(heap, Pos(k)), passed |-> {Pos(c) : c \in 0 .. k - 1} \cup {Pos(k)}]
      <3>1. IsEntry(Pos(k))
        BY <2>1, <2>2 DEF IsEntry
      <3> HIDE DEF state
      <3> QED  BY <2>3, <3>1 DEF AddEntry
    <2> HIDE DEF at
    <2> QED  BY <2>2, <2>4, <2>5
  <1>3. AddEntry(state(E)) = state(E)
    <2>1. state(E).at = Pos(n + m)
      BY <1>0
    <2>2. ~IsEntry(Pos(n + m))
      <3>1. Pos(n + m) \in Nat
        BY <1>0, Positions
      <3>2. Pos(n + m) < HEAP => Pos(n + m) \in Addr
        BY <1>0, <3>1 DEF Addr
      <3>3. Pos(n + m) < HEAP => heap[Pos(n + m)] = Zero
        BY <3>1, <3>2 DEF Shape
      <3> QED  BY <3>3 DEF IsEntry, Zero
    <2> HIDE DEF state
    <2> QED  BY <2>1, <2>2 DEF AddEntry
  <1>4. ASSUME NEW k \in 1 .. HEAP PROVE W[k] = AddEntry(W[k - 1])
    <2>1. k - 1 \in Nat /\ k - 1 \in 0 .. HEAP /\ k \in 0 .. HEAP /\ (k - 1) + 1 = k
          /\ (k < E \/ k = E \/ ~(k - 1 < E))
      BY <1>0
    <2> HIDE DEF state, E
    <2>2. CASE k < E
      <3>1. k - 1 < E
        BY <1>0, <2>1, <2>2
      <3>2. W[k] = state(k) /\ W[k - 1] = state(k - 1)
        BY <2>1, <2>2, <3>1
      <3> HIDE DEF W
      <3>3. AddEntry(state(k - 1)) = state((k - 1) + 1)
        BY <1>2, <2>1, <3>1
      <3> QED  BY <2>1, <3>2, <3>3
    <2>3. CASE k = E
      <3>1. k - 1 < E /\ ~(k < E)
        BY <1>0, <2>1, <2>3
      <3>2. W[k] = state(k) /\ W[k - 1] = state(k - 1)
        BY <2>1, <2>3, <3>1
      <3> HIDE DEF W
      <3>3. AddEntry(state(k - 1)) = state((k - 1) + 1)
        BY <1>2, <2>1, <3>1
      <3> QED  BY <2>1, <3>2, <3>3
    <2>4. CASE ~(k - 1 < E)
      <3>1. ~(k < E)
        BY <1>0, <2>1, <2>4
      <3>2. W[k] = state(E) /\ W[k - 1] = state(E)
        BY <2>1, <2>4, <3>1
      <3> HIDE DEF W
      <3> QED  BY <1>3, <3>2
    <2> QED  BY <2>1, <2>2, <2>3, <2>4
  <1>5. W = [k \in 0 .. HEAP |-> IF k = 0 THEN start ELSE AddEntry(W[k - 1])]
    <2>1. \A k \in 0 .. HEAP : k = 0 \/ k \in 1 .. HEAP
      BY <1>0
    <2>2. W = [k \in 0 .. HEAP |-> W[k]]
      OBVIOUS
    <2> HIDE DEF W, start
    <2> QED  BY <1>1, <1>4, <2>1, <2>2
  <1>6. r = [k \in 0 .. HEAP |-> IF k = 0 THEN start ELSE AddEntry(r[k - 1])]
    <2> HIDE DEF W, start
    <2> QED  BY <1>5
  <1>7. r[HEAP] = W[HEAP]
    <2> HIDE DEF r, W, start
    <2>1. r[0] = W[0]
      BY <1>0, <1>1, <1>6
    <2>2. \A k \in 1 .. HEAP : r[k] = AddEntry(r[k - 1]) /\ W[k] = AddEntry(W[k - 1])
      BY <1>0, <1>4, <1>6
    <2> QED  BY <2>1, <2>2, LoopsAgree
  <1>8. Chain = r[HEAP].passed
    BY DEF Chain, Repeat
  <1>9. W[HEAP] = state(E)
    <2> HIDE DEF state, E
    <2>1. ~(HEAP < E)
      BY <1>0
    <2> QED  BY <1>0, <2>1
  <1>10. state(E).passed = {Pos(c) : c \in 0 .. E - 1}
    OBVIOUS
  <1> HIDE DEF r, W, state
  <1> QED  BY <1>7, <1>8, <1>9, <1>10

\* The marked entries of the chain are the blocks callers have.
LEMMA EntriesAreLive ==
    ASSUME OneSize, HeapInv
    PROVE  ChainIsLive
  <1>1. PICK n \in Nat : \E m \in Nat : Shape(heap, live, n, m)
    BY DEF HeapInv
  <1>2. PICK m \in Nat : Shape(heap, live, n, m)
    BY <1>1
  <1>3. Chain = {Pos(k) : k \in 0 .. Entries(n, m) - 1}
    BY <1>2, ChainIs
  <1>4. live = {Slot(i) : i \in {i \in 0 .. n - 1 : heap[Pos(i)].is_allocated}}
    BY <1>2 DEF Shape
  <1>5. \A k \in 0 .. Entries(n, m) - 1 : k \in 0 .. n - 1 \/ (k = n /\ m > 0)
    BY DEF Entries
  <1>6. \A k \in 0 .. n - 1 : k \in 0 .. Entries(n, m) - 1
    BY DEF Entries
  <1>7. m > 0 => ~heap[Pos(n)].is_allocated
    BY <1>2 DEF Shape
  <1>8. {u \in Chain : heap[u].is_allocated} = {Pos(i) : i \in {i \in 0 .. n - 1 : heap[Pos(i)].is_allocated}}
    BY <1>3, <1>5, <1>6, <1>7
  <1>9. \A i : Slot(i)[1] = Pos(i)
    BY DEF Slot
  <1>10. {x[1] : x \in live} = {Pos(i) : i \in {i \in 0 .. n - 1 : heap[Pos(i)].is_allocated}}
    BY <1>4, <1>9
  <1> QED  BY <1>8, <1>10 DEF ChainIsLive

\* When nothing is in use, one entry has all that was given.
LEMMA OneFreeBlock ==
    ASSUME OneSize, HeapInv
    PROVE  FreeGivesBack
  <1> SUFFICES ASSUME live = {} PROVE Cardinality(Chain) <= 1
    BY DEF FreeGivesBack
  <1>1. PICK n \in Nat : \E m \in Nat : Shape(heap, live, n, m)
    BY DEF HeapInv
  <1>2. PICK m \in Nat : Shape(heap, live, n, m)
    BY <1>1
  <1>3. n = 0
    <2> SUFFICES ASSUME n > 0 PROVE FALSE
      OBVIOUS
    <2>1. n - 1 \in 0 .. n - 1
      OBVIOUS
    <2>2. heap[Pos(n - 1)].is_allocated
      BY <1>2 DEF Shape
    <2>3. Slot(n - 1) \in live
      BY <1>2, <2>1, <2>2, InUse
    <2> QED  BY <2>3
  <1>4. Chain = {Pos(k) : k \in 0 .. Entries(n, m) - 1}
    BY <1>2, ChainIs
  <1>5. Chain = {} \/ Chain = {Pos(0)}
    <2>1. Entries(n, m) = 0 \/ Entries(n, m) = 1
      BY <1>3 DEF Entries
    <2>2. CASE Entries(n, m) = 0
      <3>1. 0 .. 0 - 1 = {}
        OBVIOUS
      <3> QED  BY <1>4, <2>2, <3>1
    <2>3. CASE Entries(n, m) = 1
      <3>1. 0 .. 1 - 1 = {0}
        OBVIOUS
      <3> QED  BY <1>4, <2>3, <3>1
    <2> QED  BY <2>1, <2>2, <2>3
  <1>6. Cardinality({}) = 0 /\ Cardinality({Pos(0)}) = 1
    BY FS_EmptySet, FS_Singleton
  <1> QED  BY <1>5, <1>6

\* What malloc gave out and was not freed is not given out again, in part or in
\* whole, by any sequence of malloc, free and realloc (memory.c:12-128) of callers
\* that ask for one size and free as FreesSafely says.
THEOREM GivenOutOnce == ASSUME OneSize PROVE Spec => []DataDisjoint
  <1>1. HeapInv => DataDisjoint
    BY SlotsDisjoint
  <1> QED  BY <1>1, HeapKeepsShape, PTL

\* For the same callers the allocated entries of the chain are the blocks that are
\* live: no free, forward or backward (memory.c:88-106), swallows one.
THEOREM FreeSwallowsNothing == ASSUME OneSize PROVE Spec => []ChainIsLive
  <1>1. HeapInv => ChainIsLive
    BY EntriesAreLive
  <1> QED  BY <1>1, HeapKeepsShape, PTL

\* For the same callers the heap is one free block, or as it was at the start, when
\* all is freed, in whatever order the blocks were asked for and given back.
THEOREM AllIsGivenBack == ASSUME OneSize PROVE Spec => []FreeGivesBack
  <1>1. HeapInv => FreeGivesBack
    BY OneFreeBlock
  <1> QED  BY <1>1, HeapKeepsShape, PTL

-----------------------------------------------------------------------------
(* Paging                                                                   *)

\* An index is given out when its page has its frame, and only then.
MapInv ==
    /\ TypeOK
    /\ KernelPage \notin user /\ directory[KernelPage] = 0
    /\ \A p \in Page \ {KernelPage} : directory[p] # None => p \in user
    /\ \A p \in user : \E i \in Page :
          /\ table[i] = p /\ directory[p] = Physical(i)
          /\ Physical(i) \in 2 .. Memory - 1

\* Physical is one to one.
LEMMA PhysicalInjective ==
    \A i, j \in Page : Physical(i) = Physical(j) => i = j
  BY PagingAssumption DEF Page, Physical

\* The directory the loader leaves, and each allocation, keep the correspondence.
LEMMA MapInit == PagingInit => MapInv
  BY PagingAssumption DEF PagingInit, MapInv, TypeOK, Page, Frame, None

\* Every allocation keeps the pairs of pages and indices.
LEMMA MapStep == MapInv /\ [PagingNext]_pagingVars => MapInv'
<1> SUFFICES ASSUME MapInv, [PagingNext]_pagingVars PROVE MapInv'
  OBVIOUS
<1>1. CASE UNCHANGED pagingVars
  BY <1>1 DEF MapInv, TypeOK, pagingVars, Physical
<1>2. ASSUME NEW p \in Page, FrameLeft, Allocate(p) PROVE MapInv'
  <2>1. PICK i \in Page :
          /\ FirstUnused(i)
          /\ table' = [table EXCEPT ![i] = p]
          /\ directory' = [directory EXCEPT ![p] = Physical(i)]
          /\ user' = user \cup {p}
    BY <1>2 DEF Allocate
  <2>2. Physical(i) \in 2 .. Memory - 1
    <3>1. PICK j \in Page : FirstUnused(j) /\ Physical(j) \in 2 .. Memory - 1
      BY <1>2 DEF FrameLeft
    <3>2. i = j
      BY <2>1, <3>1 DEF FirstUnused, Page
    <3> QED
      BY <3>1, <3>2
  <2>3. Physical(i) \in Frame
    BY PagingAssumption DEF Physical, Frame, Page
  <2>4. TypeOK'
    BY <2>1, <2>3 DEF MapInv, TypeOK
  <2>5. p # KernelPage /\ p \notin user
    <3>1. directory[p] = None
      BY <1>2 DEF Allocate
    <3>2. 0 # None
      BY DEF None
    <3>3. \A j \in Page : Physical(j) # None
      BY PagingAssumption DEF Physical, Page, None
    <3> QED
      BY <3>1, <3>2, <3>3 DEF MapInv
  <2>6. (KernelPage \notin user /\ directory[KernelPage] = 0)'
    BY <2>1, <2>5, PagingAssumption DEF MapInv, TypeOK, Page
  <2>7. (\A q \in Page \ {KernelPage} : directory[q] # None => q \in user)'
    BY <2>1 DEF MapInv, TypeOK
  <2>8. ASSUME NEW q \in user' PROVE \E j \in Page :
          /\ table'[j] = q /\ directory'[q] = Physical(j)
          /\ Physical(j) \in 2 .. Memory - 1
    <3>1. CASE q = p
      BY <2>1, <2>2, <3>1 DEF MapInv, TypeOK
    <3>2. CASE q # p
      <4>1. q \in user
        BY <2>1, <2>8, <3>2
      <4>2. PICK j \in Page : /\ table[j] = q /\ directory[q] = Physical(j)
                              /\ Physical(j) \in 2 .. Memory - 1
        BY <4>1 DEF MapInv
      <4>3. j # i
        BY <2>1, <4>1, <4>2 DEF FirstUnused, MapInv, TypeOK, Page, None
      <4>4. q \in Page
        BY <4>1 DEF MapInv, TypeOK
      <4> QED
        BY <2>1, <3>2, <4>2, <4>3, <4>4 DEF MapInv, TypeOK
    <3> QED
      BY <3>1, <3>2
  <2> QED
    BY <2>4, <2>6, <2>7, <2>8 DEF MapInv, Physical
<1> QED
  BY <1>1, <1>2 DEF PagingNext

\* The table of frames and the directory correspond, one page to one index, and
\* only frames in memory are given out.
THEOREM MapCorrect == PagingSpec => []MapInv
  BY MapInit, MapStep, PTL DEF PagingSpec

\* The invariant says what the runs check.
LEMMA MapImplies == MapInv => FramesAreApart /\ TableIsDirectory
<1> SUFFICES ASSUME MapInv PROVE FramesAreApart /\ TableIsDirectory
  OBVIOUS
<1>1. TableIsDirectory
  BY DEF MapInv, TableIsDirectory
<1>2. ASSUME NEW p \in Page, NEW q \in Page, p # q, directory[p] # None
      PROVE directory[p] # directory[q]
  <2>1. ASSUME NEW r \in user
        PROVE \E i \in Page : /\ table[i] = r /\ directory[r] = Physical(i)
                              /\ directory[r] # 0 /\ directory[r] # None
    <3>1. PICK i \in Page : /\ table[i] = r /\ directory[r] = Physical(i)
                            /\ Physical(i) \in 2 .. Memory - 1
      BY <2>1 DEF MapInv
    <3> QED
      BY <3>1, PagingAssumption DEF None
  <2>2. CASE p \in user /\ q \in user
    BY <1>2, <2>1, <2>2, PhysicalInjective
  <2>3. CASE p \notin user
    BY <1>2, <2>1, <2>3 DEF MapInv, None
  <2>4. CASE p \in user /\ q \notin user
    BY <1>2, <2>1, <2>4 DEF MapInv, None
  <2> QED
    BY <2>2, <2>3, <2>4
<1> QED
  BY <1>1, <1>2 DEF FramesAreApart

\* No two pages share a frame and none has the kernel's (FramesAreApart), for any
\* number of pages and any memory, as long as there is memory for the next page.
THEOREM FramesStayApart == PagingSpec => []FramesAreApart
  BY MapCorrect, MapImplies, PTL

\* The table of frames and the directory agree at every moment (TableIsDirectory).
THEOREM TableAgrees == PagingSpec => []TableIsDirectory
  BY MapCorrect, MapImplies, PTL
=============================================================================
