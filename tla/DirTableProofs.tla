--------------------------- MODULE DirTableProofs ---------------------------
(* Theorems about DirTable: tables of any size and number, names of both    *)
(* lengths, any words in between, as long as no write goes astray.          *)
EXTENDS DirTable, WellFoundedInduction, FiniteSetTheorems, TLAPS

(***************************************************************************)
(* What the loops find, as operators of a disk s, the first blocks f of    *)
(* directories and the inodes u in use.                                    *)
(***************************************************************************)

CellType  == {"none", "REG", "DIR", "NEXT"}
CellName  == Names \cup {NoName, ".", ".."}
Cell      == [inode : 0 .. Junk, type : CellType, rec : Nat, name : CellName]
Disk      == [Blk -> [Word -> Cell]]

Row(s, x)         == <<MetaOn(s, x).name, MetaOn(s, x).type, InodeOn(s, x)>>
StartOf(f, d)     == At(f[d], FirstChild)
EntriesOf(s, f, d) == {x \in Walk(s, StartOf(f, d)) : IsEntry(s, x)}
RowsOf(s, f, d)   == {Row(s, x) : x \in EntriesOf(s, f, d)}
BlocksOf(s, f, d) == {f[d]} \cup {x.b : x \in EntriesOf(s, f, d)}
DirsOf(f, u)      == {d \in u : f[d] # 0}

(***************************************************************************)
(* A directory is n places that lead from one to the next: an entry to     *)
(* what follows it in its table, a NEXT to an entry at the start of        *)
(* another, and the last one is free.  In a table they follow each other.  *)
(***************************************************************************)

IsRow(s, x) ==
    /\ IsEntry(s, x) /\ InodeOn(s, x) \in Inode
    /\ MetaOn(s, x).type \in {"REG", "DIR"}
    /\ MetaOn(s, x).name \in Names /\ MetaOn(s, x).rec = RecLen(MetaOn(s, x).name)

IsLink(s, x, y) == IsNext(s, x) /\ InodeOn(s, x) \in Blk /\ y = At(InodeOn(s, x), 0) /\ IsEntry(s, y)

Leads(s, x, y) == \/ IsRow(s, x) /\ y = At(x.b, x.o + MetaOn(s, x).rec)
                  \/ IsLink(s, x, y)

Before(s, x, y) == x.b = y.b => ~IsNext(s, x) /\ x.o + MetaOn(s, x).rec <= y.o

IsChain(s, a, n, L) ==
    /\ n \in Nat \ {0} /\ L \in [1 .. n -> Place] /\ L[1] = a
    /\ \A k \in 1 .. n : L[k].o <= SpaceTotal
    /\ InodeOn(s, L[n]) = 0
    /\ \A k \in 1 .. n - 1 : Leads(s, L[k], L[k + 1])
    /\ \A j, k \in 1 .. n : j < k => Before(s, L[j], L[k])

Differ(s, x, y) == IsEntry(s, x) /\ IsEntry(s, y) => InodeOn(s, x) # InodeOn(s, y)

Distinct(s, n, L) == \A j, k \in 1 .. n : j # k => Differ(s, L[j], L[k])

PlacesIn(n, L)  == {L[k] : k \in 1 .. n}
RowsIn(s, n, L) == {Row(s, L[k]) : k \in {k \in 1 .. n : IsEntry(s, L[k])}}
BlocksIn(n, L)  == {L[k].b : k \in 1 .. n}

(***************************************************************************)
(* Words, places and numbers.                                              *)
(***************************************************************************)

\* The sizes of the model in plain arithmetic: an entry takes 3 or 4 words, the first
\* child lies at word 6, the root is inode 1.
LEMMA Numbers ==
    /\ WORDS \in Nat /\ WORDS >= 13 /\ MaxInode \in Nat /\ MaxBlock \in Nat
    /\ MaxInode >= 1 /\ MaxBlock >= 1
    /\ RecLen(NoName) = 3 /\ RecLen(".") = 3 /\ RecLen("..") = 3
    /\ \A n : RecLen(n) \in {3, 4}
    /\ FirstChild = 6 /\ SpaceTotal = WORDS - 3 /\ Junk = MaxInode + MaxBlock + 1
    /\ Root \in Inode /\ 1 \in Blk /\ Root = 1
  <1>1. /\ WORDS \in Nat /\ WORDS >= 13 /\ MaxInode \in Nat /\ MaxBlock \in Nat
        /\ MaxInode >= 1 /\ MaxBlock >= 1
    BY DirTableAssumption
  <1>2. NoName \notin LongNames /\ "." \notin LongNames /\ ".." \notin LongNames
    BY DirTableAssumption
  <1>3. RecLen(NoName) = 3 /\ RecLen(".") = 3 /\ RecLen("..") = 3 /\ \A n : RecLen(n) \in {3, 4}
    BY <1>2 DEF RecLen
  <1>4. FirstChild = 6 /\ SpaceTotal = WORDS - 3 /\ Junk = MaxInode + MaxBlock + 1
    BY <1>3 DEF FirstChild, SpaceTotal, Junk
  <1>5. Root \in Inode /\ 1 \in Blk /\ Root = 1
    BY <1>1 DEF Root, Inode, Blk
  <1> QED  BY <1>1, <1>3, <1>4, <1>5

\* A place is its block and its offset, and the two words of the entry there exist.
LEMMA Places ==
    /\ \A b, o : At(b, o).b = b /\ At(b, o).o = o
    /\ \A b \in Blk, o \in 0 .. WORDS - 2 : At(b, o) \in Place
    /\ \A x \in Place : /\ x = At(x.b, x.o) /\ x.b \in Blk
                        /\ x.o \in Nat /\ x.o <= WORDS - 2
                        /\ x.o \in Word /\ x.o + 1 \in Word
  <1>1. \A b, o : At(b, o).b = b /\ At(b, o).o = o
    BY DEF At
  <1>2. \A b \in Blk, o \in 0 .. WORDS - 2 : At(b, o) \in Place
    BY DEF At, Place
  <1>3. ASSUME NEW x \in Place
        PROVE  /\ x = At(x.b, x.o) /\ x.b \in Blk
               /\ x.o \in Nat /\ x.o <= WORDS - 2
               /\ x.o \in Word /\ x.o + 1 \in Word
    <2>1. x.b \in Blk /\ x.o \in 0 .. WORDS - 2 /\ x = At(x.b, x.o)
      BY <1>3 DEF At, Place
    <2> QED  BY <2>1, Numbers DEF Word
  <1> QED  BY <1>1, <1>2, <1>3

\* The inode and the record read at a place are what a word of a block can hold.
LEMMA Cells ==
    ASSUME NEW s \in Disk, NEW x \in Place
    PROVE  /\ InodeOn(s, x) \in 0 .. Junk /\ InodeOn(s, x) \in Nat
           /\ MetaOn(s, x) \in Cell
           /\ MetaOn(s, x).type \in CellType /\ MetaOn(s, x).rec \in Nat
  <1>1. s[x.b][x.o] \in Cell /\ s[x.b][x.o + 1] \in Cell
    BY Places DEF Disk
  <1>2. Junk \in Nat
    BY Numbers
  <1> QED  BY <1>1, <1>2 DEF Cell, InodeOn, MetaOn

(***************************************************************************)
(* Walk is the function it is written as: what every set closed under the  *)
(* steps of the loop has.                                                  *)
(***************************************************************************)

Closed(s, S) == \A y \in S : ~Stops(s, y) => After(s, y) \in S
Reach(s, x)  == {y \in Place : \A S \in SUBSET Place : x \in S /\ Closed(s, S) => y \in S}

\* What the loop over a directory reaches: the place itself and, unless the loop
\* stops there, what it reaches from the next.
LEMMA ReachUnfolds ==
    ASSUME NEW s, NEW x \in Place
    PROVE  Reach(s, x) = {x} \cup (IF Stops(s, x) THEN {} ELSE Reach(s, After(s, x)))
  <1>1. ASSUME NEW z \in Place PROVE z \in Reach(s, z)
    BY <1>1 DEF Reach
  <1>2. CASE Stops(s, x)
    <2>1. Closed(s, {x})
      BY <1>2 DEF Closed
    <2>2. \A y \in Reach(s, x) : y \in {x}
      BY <2>1 DEF Reach
    <2> QED  BY <1>1, <1>2, <2>2
  <1>3. CASE ~Stops(s, x)
    <2> DEFINE y == After(s, x)
    <2>1. y \in Place
      BY <1>3 DEF Stops
    <2>2. ASSUME NEW z \in Reach(s, y) PROVE z \in Reach(s, x)
      <3>1. ASSUME NEW S \in SUBSET Place, x \in S, Closed(s, S) PROVE z \in S
        <4>1. y \in S
          BY <3>1, <1>3 DEF Closed
        <4> HIDE DEF y
        <4> QED  BY <4>1, <3>1, <2>2 DEF Reach
      <3>2. z \in Place
        BY <2>2 DEF Reach
      <3> QED  BY <3>1, <3>2 DEF Reach
    <2>3. ASSUME NEW z \in Reach(s, x), z # x PROVE z \in Reach(s, y)
      <3> DEFINE T == {x} \cup Reach(s, y)
      <3>1. T \in SUBSET Place /\ x \in T
        BY DEF Reach
      <3>2. Closed(s, T)
        <4>1. ASSUME NEW w \in T, ~Stops(s, w) PROVE After(s, w) \in T
          <5>1. CASE w = x
            BY <5>1, <2>1, <1>1
          <5>2. CASE w \in Reach(s, y)
            <6>0. After(s, w) \in Place
              BY <4>1 DEF Stops
            <6>1. ASSUME NEW S \in SUBSET Place, y \in S, Closed(s, S) PROVE After(s, w) \in S
              <7>1. w \in S
                BY <6>1, <5>2 DEF Reach
              <7> QED  BY <7>1, <6>1, <4>1 DEF Closed
            <6> HIDE DEF y
            <6> QED  BY <6>0, <6>1 DEF Reach
          <5> QED  BY <5>1, <5>2, <4>1
        <4> HIDE DEF T
        <4> QED  BY <4>1 DEF Closed
      <3>3. z \in T
        <4> HIDE DEF T
        <4> QED  BY <3>1, <3>2, <2>3 DEF Reach
      <3> QED  BY <3>3, <2>3
    <2> HIDE DEF y
    <2>4. Reach(s, x) = {x} \cup Reach(s, y)
      BY <1>1, <2>2, <2>3
    <2> QED  BY <2>4, <1>3 DEF y
  <1> QED  BY <1>2, <1>3

\* The walk of the model obeys the same equation: a function as it is written exists,
\* Reach being one.
LEMMA WalkUnfolds ==
    ASSUME NEW s, NEW x \in Place
    PROVE  Walk(s, x) = {x} \cup (IF Stops(s, x) THEN {} ELSE Walk(s, After(s, x)))
  <1> DEFINE F(g) == [y \in Place |-> {y} \cup (IF Stops(s, y) THEN {} ELSE g[After(s, y)])]
             w == CHOOSE g : g = F(g)
             R == [y \in Place |-> Reach(s, y)]
  <1>1. ASSUME NEW a PROVE Walk(s, a) = w[a]
    BY DEF Walk
  <1>2. R = F(R)
    <2>1. ASSUME NEW y \in Place
          PROVE  R[y] = {y} \cup (IF Stops(s, y) THEN {} ELSE R[After(s, y)])
      <3>1. ~Stops(s, y) => After(s, y) \in Place
        BY DEF Stops
      <3> QED  BY <3>1, ReachUnfolds
    <2> QED  BY <2>1
  <1>3. w = F(w)
    <2> HIDE DEF F, R
    <2> QED  BY <1>2
  <1>4. w[x] = {x} \cup (IF Stops(s, x) THEN {} ELSE w[After(s, x)])
    <2> HIDE DEF w
    <2>1. F(w)[x] = {x} \cup (IF Stops(s, x) THEN {} ELSE w[After(s, x)])
      OBVIOUS
    <2> HIDE DEF F
    <2> QED  BY <1>3, <2>1
  <1> HIDE DEF w, F, R
  <1> QED  BY <1>1, <1>4

\* A set of naturals that is not empty has a least member.
LEMMA Least ==
    ASSUME NEW Q \in SUBSET Nat, Q # {}
    PROVE  \E d \in Q : \A e \in Q : d <= e
  <1>1. PICK d \in Q : \A e \in Q : <<e, d>> \notin OpToRel(<, Nat)
    BY NatLessThanWellFounded, WFMin
  <1>2. ASSUME NEW e \in Q, e < d PROVE FALSE
    <2>1. <<e, d>> \in Nat \X Nat /\ <<e, d>>[1] < <<e, d>>[2]
      BY <1>2
    <2> QED  BY <1>1, <2>1 DEF OpToRel
  <1> QED  BY <1>2

\* What holds at the end and is handed back from k + 1 to k holds from 1 to n.
LEMMA Downward ==
    ASSUME NEW n \in Nat \ {0}, NEW Q, n \in Q,
           \A k \in 1 .. n - 1 : k + 1 \in Q => k \in Q
    PROVE  1 .. n \subseteq Q
  <1> DEFINE E == {k \in 0 .. n - 1 : n - k \notin Q}
  <1>1. E \in SUBSET Nat
    OBVIOUS
  <1>2. ASSUME E # {} PROVE FALSE
    <2>1. PICK d \in E : \A e \in E : d <= e
      BY <1>1, <1>2, Least
    <2>2. d \in 1 .. n - 1 /\ n - d \notin Q
      BY <2>1
    <2>3. d - 1 \in 0 .. n - 1 /\ d - 1 \notin E
      BY <2>1, <2>2
    <2>4. n - (d - 1) \in Q /\ n - (d - 1) = (n - d) + 1 /\ n - d \in 1 .. n - 1
      BY <2>2, <2>3
    <2> QED  BY <2>2, <2>4
  <1>3. ASSUME NEW k \in 1 .. n PROVE k \in Q
    <2>1. n - k \in 0 .. n - 1 /\ n - (n - k) = k
      OBVIOUS
    <2> HIDE DEF E
    <2>2. n - k \notin E
      BY <1>2
    <2> QED  BY <2>1, <2>2 DEF E
  <1> QED  BY <1>3

(***************************************************************************)
(* Chains.                                                                 *)
(***************************************************************************)

\* What the parts of a chain are.
LEMMA ChainParts ==
    ASSUME NEW s, NEW a, NEW n, NEW L, IsChain(s, a, n, L)
    PROVE  /\ n \in Nat /\ n >= 1 /\ L[1] = a
           /\ \A k \in 1 .. n : L[k] \in Place /\ L[k].o <= SpaceTotal
           /\ InodeOn(s, L[n]) = 0
           /\ \A k \in 1 .. n - 1 : k + 1 \in 1 .. n /\ Leads(s, L[k], L[k + 1])
           /\ \A j, k \in 1 .. n : j < k => Before(s, L[j], L[k])
  <1>1. n \in Nat /\ n >= 1
    BY DEF IsChain
  <1> QED  BY <1>1 DEF IsChain

\* A step of a chain is one of the loop's; an entry is not the free one.
LEMMA StepIsAfter ==
    ASSUME NEW s, NEW x \in Place, NEW y \in Place, Leads(s, x, y), Before(s, x, y)
    PROVE  ~Stops(s, x) /\ After(s, x) = y /\ x # y /\ InodeOn(s, x) # 0
  <1>1. CASE IsRow(s, x) /\ y = At(x.b, x.o + MetaOn(s, x).rec)
    <2>1. InodeOn(s, x) # 0 /\ ~IsNext(s, x)
      BY <1>1 DEF IsRow, IsEntry
    <2>2. MetaOn(s, x).rec \in {3, 4} /\ x.o \in Nat
      BY <1>1, Numbers, Places DEF IsRow
    <2>3. y.o = x.o + MetaOn(s, x).rec
      BY <1>1, Places
    <2>4. x # y
      BY <2>2, <2>3
    <2> QED  BY <1>1, <2>1, <2>4 DEF Stops, After
  <1>2. CASE IsLink(s, x, y)
    <2>1. InodeOn(s, x) # 0 /\ x.b # y.b /\ IsNext(s, x) /\ y = At(InodeOn(s, x), 0)
      BY <1>2, Places DEF IsLink, Blk, Before
    <2> QED  BY <2>1 DEF Stops, After
  <1> QED  BY <1>1, <1>2 DEF Leads

\* The loop visits the places of a chain, and no other.
LEMMA ChainIsWalked ==
    ASSUME NEW s, NEW a, NEW n, NEW L, IsChain(s, a, n, L)
    PROVE  Walk(s, a) = PlacesIn(n, L)
  <1> DEFINE From(k) == {L[j] : j \in k .. n}
             Q == {k \in 1 .. n : Walk(s, L[k]) = From(k)}
  <1>0. n \in Nat /\ n >= 1
    BY ChainParts
  <1>1. n \in Q
    <2>1. L[n] \in Place /\ Stops(s, L[n])
      BY <1>0, ChainParts DEF Stops
    <2>2. Walk(s, L[n]) = {L[n]}
      BY <2>1, WalkUnfolds
    <2>3. n .. n = {n}
      BY <1>0
    <2> QED  BY <1>0, <2>2, <2>3
  <1>2. ASSUME NEW k \in 1 .. n - 1, k + 1 \in Q PROVE k \in Q
    <2>1. k \in 1 .. n /\ k + 1 \in 1 .. n /\ k < k + 1 /\ k .. n = {k} \cup (k + 1 .. n)
      BY <1>0
    <2>2. L[k] \in Place /\ L[k + 1] \in Place /\ Leads(s, L[k], L[k + 1])
          /\ Before(s, L[k], L[k + 1])
      BY <2>1, ChainParts
    <2>3. ~Stops(s, L[k]) /\ After(s, L[k]) = L[k + 1]
      BY <2>2, StepIsAfter
    <2>4. Walk(s, L[k]) = {L[k]} \cup Walk(s, L[k + 1])
      BY <2>2, <2>3, WalkUnfolds
    <2>5. Walk(s, L[k + 1]) = From(k + 1)
      BY <1>2
    <2>6. From(k) = {L[k]} \cup From(k + 1)
      BY <2>1
    <2> QED  BY <2>1, <2>4, <2>5, <2>6
  <1>3. 1 \in Q
    <2> HIDE DEF Q
    <2>1. 1 .. n \subseteq Q
      BY <1>0, <1>1, <1>2, Downward
    <2> QED  BY <1>0, <2>1
  <1>4. L[1] = a
    BY ChainParts
  <1> QED  BY <1>3, <1>4 DEF PlacesIn

\* Only the last place of a chain is free, and an entry is one before it.
LEMMA ChainEntries ==
    ASSUME NEW s, NEW a, NEW n, NEW L, IsChain(s, a, n, L)
    PROVE  /\ \A k \in 1 .. n : InodeOn(s, L[k]) = 0 <=> k = n
           /\ \A k \in 1 .. n : IsEntry(s, L[k]) <=> k # n /\ IsRow(s, L[k])
           /\ \A j, k \in 1 .. n : L[j] = L[k] => j = k
  <1>0. n \in Nat /\ n >= 1
    BY ChainParts
  <1>1. ASSUME NEW k \in 1 .. n - 1
        PROVE InodeOn(s, L[k]) # 0 /\ (IsEntry(s, L[k]) => IsRow(s, L[k]))
    <2>1. k \in 1 .. n /\ k + 1 \in 1 .. n /\ k < k + 1
      BY <1>0
    <2>2. L[k] \in Place /\ L[k + 1] \in Place /\ Leads(s, L[k], L[k + 1])
          /\ Before(s, L[k], L[k + 1])
      BY <2>1, ChainParts
    <2>3. InodeOn(s, L[k]) # 0
      BY <2>2, StepIsAfter
    <2> QED  BY <2>2, <2>3 DEF Leads, IsLink, IsEntry
  <1>2. InodeOn(s, L[n]) = 0
    BY ChainParts
  <1>3. ASSUME NEW k \in 1 .. n
        PROVE  /\ InodeOn(s, L[k]) = 0 <=> k = n
               /\ IsEntry(s, L[k]) <=> k # n /\ IsRow(s, L[k])
    <2>1. k = n \/ k \in 1 .. n - 1
      BY <1>0
    <2> QED  BY <1>1, <1>2, <2>1 DEF IsEntry, IsRow
  <1>4. ASSUME NEW j \in 1 .. n, NEW k \in 1 .. n, j < k PROVE L[j] # L[k]
    <2>1. Before(s, L[j], L[k]) /\ L[j] \in Place /\ L[k] \in Place
      BY <1>4, ChainParts
    <2>2. j \in 1 .. n - 1 /\ j # n
      BY <1>0, <1>4
    <2>3. IsNext(s, L[j]) \/ IsRow(s, L[j])
      BY <2>2, <1>1 DEF IsEntry
    <2>4. CASE IsRow(s, L[j])
      <3>1. MetaOn(s, L[j]).rec \in {3, 4} /\ L[j].o \in Nat
        BY <2>1, <2>4, Numbers, Places DEF IsRow
      <3> QED  BY <2>1, <3>1 DEF Before
    <2> QED  BY <2>1, <2>3, <2>4 DEF Before
  <1>5. \A j, k \in 1 .. n : j < k \/ k < j \/ j = k
    BY <1>0
  <1> QED  BY <1>3, <1>4, <1>5

\* What lies in the tables of a directory is what lies on its chain.
LEMMA ChainContents ==
    ASSUME NEW s, NEW f, NEW d, NEW n, NEW L, IsChain(s, StartOf(f, d), n, L)
    PROVE  /\ Walk(s, StartOf(f, d)) = PlacesIn(n, L)
           /\ RowsOf(s, f, d) = RowsIn(s, n, L)
           /\ BlocksOf(s, f, d) = BlocksIn(n, L)
           /\ \A x : x \in EntriesOf(s, f, d)
                       <=> \E k \in 1 .. n - 1 : k \in 1 .. n /\ x = L[k] /\ IsRow(s, L[k])
  <1>0. n \in Nat /\ n >= 1 /\ 1 .. n - 1 \subseteq 1 .. n
    BY ChainParts
  <1>1. Walk(s, StartOf(f, d)) = PlacesIn(n, L)
    BY ChainIsWalked
  <1>2. \A x : x \in EntriesOf(s, f, d) <=> \E k \in 1 .. n : x = L[k] /\ IsEntry(s, x)
    BY <1>1 DEF EntriesOf, PlacesIn
  <1>3. RowsOf(s, f, d) = RowsIn(s, n, L)
    BY <1>2 DEF RowsOf, RowsIn
  <1>4. \A x : x \in EntriesOf(s, f, d)
                  <=> \E k \in 1 .. n - 1 : k \in 1 .. n /\ x = L[k] /\ IsRow(s, L[k])
    <2>1. ASSUME NEW k \in 1 .. n, IsEntry(s, L[k]) PROVE k \in 1 .. n - 1 /\ IsRow(s, L[k])
      <3>1. k # n /\ IsRow(s, L[k])
        BY <2>1, ChainEntries
      <3> QED  BY <1>0, <3>1
    <2>2. ASSUME NEW k \in 1 .. n - 1, IsRow(s, L[k]) PROVE IsEntry(s, L[k])
      BY <2>2 DEF IsRow
    <2> QED  BY <1>0, <1>2, <2>1, <2>2
  <1>5. BlocksOf(s, f, d) \subseteq BlocksIn(n, L)
    <2>1. f[d] = L[1].b /\ 1 \in 1 .. n
      BY <1>0, ChainParts, Places DEF StartOf
    <2> QED  BY <1>2, <2>1 DEF BlocksOf, BlocksIn
  <1>6. ASSUME NEW k \in 1 .. n PROVE L[k].b \in BlocksOf(s, f, d)
    <2>1. CASE k = 1
      <3>1. L[1] = StartOf(f, d)
        BY ChainParts
      <3> QED  BY <2>1, <3>1, Places DEF StartOf, BlocksOf
    <2>2. CASE IsEntry(s, L[k])
      BY <1>2, <2>2 DEF BlocksOf
    <2>3. CASE k # 1 /\ ~IsEntry(s, L[k])
      <3>1. k - 1 \in 1 .. n - 1 /\ (k - 1) + 1 = k /\ k - 1 \in 1 .. n
        BY <1>0, <2>3
      <3>2. Leads(s, L[k - 1], L[k])
        <4>1. Leads(s, L[k - 1], L[(k - 1) + 1])
          BY <3>1, ChainParts
        <4> QED  BY <4>1, <3>1
      <3>3. IsRow(s, L[k - 1]) /\ L[k].b = L[k - 1].b
        BY <3>2, <2>3, Places DEF Leads, IsLink
      <3> QED  BY <1>2, <3>1, <3>3 DEF BlocksOf, IsRow
    <2> QED  BY <2>1, <2>2, <2>3
  <1>7. BlocksOf(s, f, d) = BlocksIn(n, L)
    BY <1>5, <1>6 DEF BlocksIn
  <1> QED  BY <1>1, <1>3, <1>4, <1>7

\* The free entry is the last place; where a NEXT leads there is nothing before.
LEMMA ChainEnd ==
    ASSUME NEW s, NEW a, NEW n, NEW L, IsChain(s, a, n, L)
    PROVE  /\ \A x \in PlacesIn(n, L) : InodeOn(s, x) = 0 <=> x = L[n]
           /\ L[n] \in PlacesIn(n, L)
  <1>0. n \in Nat /\ n >= 1
    BY ChainParts
  <1> QED  BY <1>0, ChainEntries DEF PlacesIn

\* A table after the first is reached by one entry alone, the NEXT record before it.
LEMMA ChainLinks ==
    ASSUME NEW s, NEW n, NEW L, NEW a, IsChain(s, a, n, L),
           NEW k \in 1 .. n, L[k].o = 0, a.o # 0
    PROVE  /\ k - 1 \in 1 .. n /\ k >= 2 /\ k - 1 >= 1
           /\ IsLink(s, L[k - 1], L[k]) /\ InodeOn(s, L[k - 1]) = L[k].b
           /\ \A j \in 1 .. n : IsNext(s, L[j]) /\ InodeOn(s, L[j]) = L[k].b => j = k - 1 \/ j = n
  <1>0. n \in Nat /\ n >= 1 /\ L[1] = a
    BY ChainParts
  <1>1. k # 1
    BY <1>0
  <1>2. k - 1 \in 1 .. n /\ k - 1 \in 1 .. n - 1 /\ (k - 1) + 1 = k /\ k >= 2 /\ k - 1 >= 1
    BY <1>0, <1>1
  <1>3. ASSUME NEW j \in 1 .. n - 1
        PROVE  /\ j + 1 \in 1 .. n /\ j \in 1 .. n
               /\ IsRow(s, L[j]) /\ L[j + 1] = At(L[j].b, L[j].o + MetaOn(s, L[j]).rec)
                    => L[j + 1].o # 0
               /\ Leads(s, L[j], L[j + 1])
    <2>1. j + 1 \in 1 .. n /\ j \in 1 .. n
      BY <1>0
    <2>2. Leads(s, L[j], L[j + 1]) /\ L[j] \in Place
      BY <2>1, ChainParts
    <2>3. ASSUME IsRow(s, L[j]), L[j + 1] = At(L[j].b, L[j].o + MetaOn(s, L[j]).rec)
          PROVE  L[j + 1].o # 0
      <3>1. MetaOn(s, L[j]).rec \in {3, 4} /\ L[j].o \in Nat
        BY <2>2, <2>3, Numbers, Places DEF IsRow
      <3> QED  BY <2>3, <3>1, Places
    <2> QED  BY <2>1, <2>2, <2>3
  <1>4. IsLink(s, L[k - 1], L[k])
    <2>1. Leads(s, L[k - 1], L[k])
      BY <1>2, <1>3
    <2>2. ~(IsRow(s, L[k - 1]) /\ L[k] = At(L[k - 1].b, L[k - 1].o + MetaOn(s, L[k - 1]).rec))
      BY <1>2, <1>3
    <2> QED  BY <2>1, <2>2 DEF Leads
  <1>5. InodeOn(s, L[k - 1]) = L[k].b
    BY <1>4, Places DEF IsLink
  <1>6. ASSUME NEW j \in 1 .. n, IsNext(s, L[j]), InodeOn(s, L[j]) = L[k].b, j # n
        PROVE  j = k - 1
    <2>1. j \in 1 .. n - 1
      BY <1>0, <1>6
    <2>2. Leads(s, L[j], L[j + 1]) /\ j + 1 \in 1 .. n
      BY <1>3, <2>1
    <2>3. L[j + 1] = At(L[k].b, 0)
      BY <2>2, <1>6 DEF Leads, IsLink, IsRow, IsEntry
    <2>4. L[k] = At(L[k].b, 0)
      <3>1. L[k] \in Place
        BY ChainParts
      <3> QED  BY <3>1, Places
    <2>5. j + 1 = k
      BY <2>2, <2>3, <2>4, ChainEntries
    <2> QED  BY <1>0, <2>5
  <1> QED  BY <1>2, <1>4, <1>5, <1>6

(***************************************************************************)
(* Disks that differ in a few words.                                       *)
(***************************************************************************)

SameWords(s, r, x) == InodeOn(r, x) = InodeOn(s, x) /\ MetaOn(r, x) = MetaOn(s, x)

\* What is read at a place depends on its two words alone.
LEMMA SameWordsSame ==
    ASSUME NEW s, NEW r, NEW x, SameWords(s, r, x)
    PROVE  /\ IsEntry(r, x) = IsEntry(s, x) /\ IsNext(r, x) = IsNext(s, x)
           /\ IsRow(r, x) = IsRow(s, x) /\ Row(r, x) = Row(s, x)
           /\ \A y : SameWords(s, r, y) => Leads(r, x, y) = Leads(s, x, y)
           /\ \A y : Before(r, x, y) = Before(s, x, y)
  <1>1. IsEntry(r, x) = IsEntry(s, x) /\ IsNext(r, x) = IsNext(s, x)
    BY DEF SameWords, IsEntry, IsNext
  <1>2. IsRow(r, x) = IsRow(s, x) /\ Row(r, x) = Row(s, x)
    BY <1>1 DEF SameWords, IsRow, Row
  <1>3. ASSUME NEW y, SameWords(s, r, y) PROVE Leads(r, x, y) = Leads(s, x, y)
    <2>1. IsEntry(r, y) = IsEntry(s, y)
      BY <1>3 DEF SameWords, IsEntry, IsNext
    <2> QED  BY <1>1, <1>2, <2>1 DEF Leads, IsLink, SameWords
  <1>4. ASSUME NEW y PROVE Before(r, x, y) = Before(s, x, y)
    BY <1>1 DEF Before, SameWords
  <1> QED  BY <1>1, <1>2, <1>3, <1>4

\* A chain whose words a write leaves alone is the same chain with the same rows.
LEMMA ChainUntouched ==
    ASSUME NEW s, NEW r, NEW a, NEW n, NEW L, IsChain(s, a, n, L),
           \A k \in 1 .. n : SameWords(s, r, L[k])
    PROVE  /\ IsChain(r, a, n, L) /\ RowsIn(r, n, L) = RowsIn(s, n, L)
           /\ Distinct(s, n, L) => Distinct(r, n, L)
  <1>0. n \in Nat /\ n >= 1 /\ n \in 1 .. n
    <2>1. n \in Nat /\ n >= 1
      BY ChainParts
    <2> QED  BY <2>1
  <1>1. \A k \in 1 .. n : /\ IsEntry(r, L[k]) = IsEntry(s, L[k]) /\ Row(r, L[k]) = Row(s, L[k])
                          /\ InodeOn(r, L[k]) = InodeOn(s, L[k])
    BY SameWordsSame DEF SameWords
  <1>2. IsChain(r, a, n, L)
    <2>1. InodeOn(r, L[n]) = 0
      BY <1>0, <1>1, ChainParts
    <2>2. ASSUME NEW k \in 1 .. n - 1 PROVE Leads(r, L[k], L[k + 1])
      <3>1. k \in 1 .. n /\ k + 1 \in 1 .. n /\ Leads(s, L[k], L[k + 1])
        BY <1>0, ChainParts
      <3> QED  BY <3>1, SameWordsSame
    <2>3. ASSUME NEW j \in 1 .. n, NEW k \in 1 .. n, j < k PROVE Before(r, L[j], L[k])
      BY <2>3, ChainParts, SameWordsSame
    <2> QED  BY <2>1, <2>2, <2>3 DEF IsChain
  <1>3. RowsIn(r, n, L) = RowsIn(s, n, L)
    <2>1. \A k \in 1 .. n : IsEntry(r, L[k]) <=> IsEntry(s, L[k])
      BY <1>1
    <2> QED  BY <1>1, <2>1 DEF RowsIn
  <1>4. Distinct(s, n, L) => Distinct(r, n, L)
    BY <1>1 DEF Distinct, Differ
  <1> QED  BY <1>2, <1>3, <1>4

\* In a table there is room between a place and the ones after it.
LEMMA ChainRoom ==
    ASSUME NEW s, NEW a, NEW n, NEW L, IsChain(s, a, n, L),
           NEW j \in 1 .. n, NEW k \in 1 .. n, j < k, L[j].b = L[k].b
    PROVE  /\ IsRow(s, L[j]) /\ MetaOn(s, L[j]).rec \in {3, 4}
           /\ L[j].o \in Nat /\ L[k].o \in Nat
           /\ L[j].o + MetaOn(s, L[j]).rec <= L[k].o /\ L[j].o + 3 <= L[k].o
  <1>1. Before(s, L[j], L[k]) /\ L[j] \in Place /\ L[k] \in Place
    BY ChainParts
  <1>2. j # n /\ InodeOn(s, L[j]) # 0
    <2>1. n \in Nat /\ n >= 1
      BY ChainParts
    <2>2. j # n
      BY <2>1
    <2> QED  BY <2>2, ChainEntries
  <1>3. IsEntry(s, L[j])
    BY <1>1, <1>2 DEF Before, IsEntry
  <1>4. IsRow(s, L[j])
    BY <1>3, ChainEntries
  <1>5. MetaOn(s, L[j]).rec \in {3, 4} /\ L[j].o \in Nat /\ L[k].o \in Nat
    BY <1>1, <1>4, Numbers, Places DEF IsRow
  <1> QED  BY <1>1, <1>4, <1>5 DEF Before

(***************************************************************************)
(* Writing an entry at the end.                                            *)
(***************************************************************************)

\* What writing an entry and the empty one behind it leaves in a table's words.
LEMMA EntryWords ==
    ASSUME NEW t \in [Word -> Cell], NEW o \in Nat, NEW i \in 0 .. Junk, NEW type \in CellType,
           NEW n \in CellName, o + RecLen(n) <= SpaceTotal
    PROVE  /\ PutEntry(t, o, i, type, n) \in [Word -> Cell]
           /\ PutEntry(t, o, i, type, n)[o].inode = i
           /\ PutEntry(t, o, i, type, n)[o + 1] = Meta(n, type)
           /\ PutEntry(t, o, i, type, n)[o + RecLen(n)].inode = 0
           /\ \A w \in Word : w < o \/ w > o + RecLen(n) => PutEntry(t, o, i, type, n)[w] = t[w]
  <1> DEFINE u == PutEntry(t, o, i, type, n)
  <1>0. RecLen(n) \in {3, 4} /\ WORDS \in Nat /\ SpaceTotal = WORDS - 3 /\ Junk \in Nat
    BY Numbers
  <1>1. o \in Word /\ o + 1 \in Word /\ o + RecLen(n) \in Word
    BY <1>0 DEF Word
  <1>2. Num(i) \in Cell /\ Num(0) \in Cell /\ Meta(n, type) \in Cell /\ Pad \in Cell
    <2>1. 0 \in 0 .. Junk /\ Junk \in 0 .. Junk /\ 0 \in Nat /\ RecLen(n) \in Nat
      BY <1>0
    <2>2. "none" \in CellType /\ NoName \in CellName
      BY DEF CellType, CellName, NoName
    <2>3. Num(i) \in Cell /\ Num(0) \in Cell
      BY <2>1, <2>2 DEF Num, Cell
    <2>4. Meta(n, type) \in Cell
      BY <2>1, <2>2 DEF Meta, Cell
    <2>5. Pad \in Cell
      BY <2>1, <2>2 DEF Pad, Cell
    <2> QED  BY <2>3, <2>4, <2>5
  <1>3. \A w \in Word : u[w] = IF w = o THEN Num(i)
                               ELSE IF w = o + 1 THEN Meta(n, type)
                               ELSE IF w > o /\ w < o + RecLen(n) THEN Pad
                               ELSE IF w = o + RecLen(n) THEN Num(0)
                               ELSE t[w]
    BY DEF PutEntry
  <1>4. u = [w \in Word |-> u[w]]
    BY DEF PutEntry
  <1> HIDE DEF u
  <1>5. u \in [Word -> Cell]
    BY <1>2, <1>3, <1>4
  <1>6. Num(i).inode = i /\ Num(0).inode = 0
    BY DEF Num
  <1>7. u[o].inode = i
    BY <1>1, <1>3, <1>6
  <1>8. u[o + 1] = Meta(n, type)
    BY <1>1, <1>3
  <1>9. u[o + RecLen(n)].inode = 0
    BY <1>0, <1>1, <1>3, <1>6
  <1>10. ASSUME NEW w \in Word, w < o \/ w > o + RecLen(n) PROVE u[w] = t[w]
    <2>1. w \in Nat
      BY <1>0 DEF Word
    <2> QED  BY <1>0, <1>3, <1>10, <2>1
  <1> QED  BY <1>5, <1>7, <1>8, <1>9, <1>10 DEF u

Behind(x, n) == At(x.b, x.o + RecLen(n))
WithEntry(s, x, i, type, n) == [s EXCEPT ![x.b] = PutEntry(@, x.o, i, type, n)]

\* A written entry is read back as one, leads to the free place behind it, and
\* leaves the words before it and the other blocks alone.
LEMMA EntryWritten ==
    ASSUME NEW s \in Disk, NEW x \in Place, NEW i \in Inode, NEW type \in {"REG", "DIR"},
           NEW n \in Names, x.o + RecLen(n) <= SpaceTotal
    PROVE  LET r == WithEntry(s, x, i, type, n)
           IN  /\ r \in Disk
               /\ IsRow(r, x) /\ Row(r, x) = <<n, type, i>>
               /\ Behind(x, n) \in Place /\ Behind(x, n).o <= SpaceTotal
               /\ Leads(r, x, Behind(x, n)) /\ InodeOn(r, Behind(x, n)) = 0
               /\ \A y \in Place : y.b # x.b \/ y.o + 1 < x.o => SameWords(s, r, y)
  <1> DEFINE r == WithEntry(s, x, i, type, n)
             t == s[x.b]
             u == PutEntry(t, x.o, i, type, n)
  <1>0. /\ RecLen(n) \in {3, 4} /\ WORDS \in Nat /\ SpaceTotal = WORDS - 3 /\ Junk \in Nat
        /\ x.b \in Blk /\ x.o \in Nat /\ x.o \in Word /\ x.o + 1 \in Word
    BY Numbers, Places
  <1>1. t \in [Word -> Cell] /\ i \in 0 .. Junk /\ i # 0 /\ type \in CellType /\ n \in CellName
    BY <1>0, Numbers DEF Disk, Inode, CellType, CellName
  <1>2. r[x.b] = u /\ \A b \in Blk : b # x.b => r[b] = s[b]
    BY <1>0 DEF WithEntry, Disk
  <1>3. /\ u \in [Word -> Cell] /\ u[x.o].inode = i /\ u[x.o + 1] = Meta(n, type)
        /\ u[x.o + RecLen(n)].inode = 0
        /\ \A w \in Word : w < x.o \/ w > x.o + RecLen(n) => u[w] = t[w]
    <2> HIDE DEF t
    <2> QED  BY <1>0, <1>1, EntryWords
  <1>4. r \in Disk
    <2> HIDE DEF u
    <2> QED  BY <1>3 DEF WithEntry, Disk, u
  <1> HIDE DEF r, t, u
  <1>5. InodeOn(r, x) = i /\ MetaOn(r, x) = Meta(n, type)
    BY <1>2, <1>3 DEF InodeOn, MetaOn
  <1>6. /\ Meta(n, type).type = type /\ Meta(n, type).name = n /\ Meta(n, type).rec = RecLen(n)
    BY DEF Meta
  <1>7. IsRow(r, x) /\ Row(r, x) = <<n, type, i>>
    <2>1. ~IsNext(r, x)
      BY <1>5, <1>6 DEF IsNext
    <2> QED  BY <1>1, <1>5, <1>6, <2>1 DEF IsRow, IsEntry, Row
  <1>8. Behind(x, n) \in Place /\ Behind(x, n).o <= SpaceTotal /\ Behind(x, n).b = x.b
        /\ Behind(x, n).o = x.o + RecLen(n)
    <2>1. x.o + RecLen(n) \in 0 .. WORDS - 2
      BY <1>0
    <2> QED  BY <1>0, <2>1, Places DEF Behind
  <1>9. Leads(r, x, Behind(x, n))
    BY <1>5, <1>6, <1>7 DEF Leads, Behind
  <1>10. InodeOn(r, Behind(x, n)) = 0
    BY <1>2, <1>3, <1>8 DEF InodeOn
  <1>11. ASSUME NEW y \in Place, y.b # x.b \/ y.o + 1 < x.o PROVE SameWords(s, r, y)
    <2>1. y.b \in Blk /\ y.o \in Nat /\ y.o \in Word /\ y.o + 1 \in Word
      BY Places
    <2>2. CASE y.b # x.b
      BY <1>2, <2>1, <2>2 DEF SameWords, InodeOn, MetaOn
    <2>3. CASE y.b = x.b
      <3>1. u[y.o] = t[y.o] /\ u[y.o + 1] = t[y.o + 1]
        BY <1>0, <1>3, <1>11, <2>1, <2>3
      <3> QED  BY <1>2, <2>3, <3>1 DEF SameWords, InodeOn, MetaOn, t
    <2> QED  BY <2>2, <2>3
  <1> QED  BY <1>4, <1>7, <1>8, <1>9, <1>10, <1>11 DEF r

\* Chain L of s has become chain M of r: up to the end nothing changed, and behind
\* that there is one more entry.
Grown(s, r, a, n, L, m, M, z, row) ==
    /\ IsChain(r, a, m, M) /\ n <= z /\ z < m
    /\ \A k \in 1 .. n - 1 : M[k] = L[k] /\ SameWords(s, r, L[k])
    /\ IsEntry(r, M[z]) /\ Row(r, M[z]) = row
    /\ \A k \in n .. m : k # z => ~IsEntry(r, M[k])

\* Insertion, the entry fits: the chain grows by one place in the same block.
LEMMA AppendEntry ==
    ASSUME NEW s \in Disk, NEW a, NEW n, NEW L, IsChain(s, a, n, L),
           NEW i \in Inode, NEW type \in {"REG", "DIR"}, NEW nm \in Names,
           L[n].o + RecLen(nm) <= SpaceTotal
    PROVE  LET r == WithEntry(s, L[n], i, type, nm)
           IN  /\ r \in Disk
               /\ \E m, z \in Nat : \E M :
                     /\ Grown(s, r, a, n, L, m, M, z, <<nm, type, i>>)
                     /\ BlocksIn(m, M) = BlocksIn(n, L)
  <1> DEFINE x == L[n]
             r == WithEntry(s, x, i, type, nm)
             y == Behind(x, nm)
             M == [k \in 1 .. n + 1 |-> IF k = n + 1 THEN y ELSE L[k]]
  <1>0. n \in Nat /\ n >= 1 /\ n \in 1 .. n /\ n + 1 \in Nat /\ x \in Place
        /\ 1 .. n + 1 = (1 .. n) \cup {n + 1} /\ n + 1 \notin 1 .. n
        /\ 1 .. (n + 1) - 1 = (1 .. n - 1) \cup {n} /\ n \notin 1 .. n - 1
    <2>1. n \in Nat /\ n >= 1
      BY ChainParts
    <2>2. n \in 1 .. n
      BY <2>1
    <2> QED  BY <2>1, <2>2, ChainParts
  <1>1. /\ r \in Disk
        /\ IsRow(r, x) /\ Row(r, x) = <<nm, type, i>>
        /\ y \in Place /\ y.o <= SpaceTotal
        /\ Leads(r, x, y) /\ InodeOn(r, y) = 0
        /\ \A p \in Place : p.b # x.b \/ p.o + 1 < x.o => SameWords(s, r, p)
    <2> HIDE DEF x
    <2> QED  BY <1>0, EntryWritten DEF x
  <1>2. y.b = x.b /\ y.o = x.o + RecLen(nm)
    BY Places DEF Behind
  <1>3. M[n + 1] = y /\ M[n] = x /\ \A k \in 1 .. n : M[k] = L[k]
    BY <1>0
  <1>4. DOMAIN M = 1 .. n + 1 /\ M = [k \in 1 .. n + 1 |-> M[k]]
    OBVIOUS
  <1> HIDE DEF M, r, x, y
  <1>5. ASSUME NEW k \in 1 .. n - 1 PROVE SameWords(s, r, L[k]) /\ k \in 1 .. n /\ k + 1 \in 1 .. n /\ k < n
    <2>1. k \in 1 .. n /\ k < n /\ k + 1 \in 1 .. n
      BY <1>0
    <2>2. L[k] \in Place
      BY <2>1, ChainParts
    <2>3. L[k].b = x.b => L[k].o + 1 < x.o
      <3>1. SUFFICES ASSUME L[k].b = L[n].b PROVE L[k].o + 1 < L[n].o
        BY DEF x
      <3>2. L[k].o \in Nat /\ L[n].o \in Nat /\ L[k].o + 3 <= L[n].o
        BY <1>0, <2>1, <3>1, ChainRoom
      <3> QED  BY <3>2
    <2> QED  BY <1>1, <2>1, <2>2, <2>3
  <1>6. M \in [1 .. n + 1 -> Place]
    <2>1. \A k \in 1 .. n + 1 : M[k] \in Place
      BY <1>0, <1>1, <1>3, ChainParts
    <2> QED  BY <1>4, <2>1
  <1>7. IsChain(r, a, n + 1, M)
    <2>1. M[1] = a
      BY <1>0, <1>3, ChainParts
    <2>2. \A k \in 1 .. n + 1 : M[k].o <= SpaceTotal
      BY <1>0, <1>1, <1>3, ChainParts
    <2>3. ASSUME NEW k \in 1 .. (n + 1) - 1 PROVE Leads(r, M[k], M[k + 1])
      <3>1. CASE k = n
        BY <1>1, <1>3, <3>1
      <3>2. CASE k \in 1 .. n - 1
        <4>1. Leads(s, L[k], L[k + 1]) /\ M[k] = L[k] /\ M[k + 1] = L[k + 1]
              /\ SameWords(s, r, L[k])
          BY <1>3, <1>5, <3>2, ChainParts
        <4>2. CASE k + 1 \in 1 .. n - 1
          BY <1>5, <4>1, <4>2, SameWordsSame
        <4>3. CASE k + 1 = n
          <5>1. IsRow(r, L[k]) = IsRow(s, L[k]) /\ IsNext(r, L[k]) = IsNext(s, L[k])
            BY <4>1, SameWordsSame
          <5>2. ~IsLink(s, L[k], L[k + 1])
            <6>1. ~IsEntry(s, L[n])
              BY <1>0, ChainEntries
            <6> QED  BY <4>3, <6>1 DEF IsLink
          <5> QED  BY <4>1, <5>1, <5>2 DEF Leads, SameWords
        <4> QED  BY <1>0, <3>2, <4>2, <4>3
      <3> QED  BY <1>0, <3>1, <3>2
    <2>4. ASSUME NEW j \in 1 .. n + 1, NEW k \in 1 .. n + 1, j < k PROVE Before(r, M[j], M[k])
      <3>1. j \in 1 .. n
        BY <1>0, <2>4
      <3>2. ASSUME j # n PROVE j \in 1 .. n - 1 /\ M[j] = L[j] /\ SameWords(s, r, L[j])
        <4>1. j \in 1 .. n - 1
          BY <1>0, <3>1, <3>2
        <4> QED  BY <1>3, <1>5, <3>1, <4>1
      <3>3. CASE k \in 1 .. n
        <4>1. j # n
          BY <1>0, <2>4, <3>3
        <4>2. Before(s, L[j], L[k]) /\ M[k] = L[k]
          BY <1>3, <2>4, <3>1, <3>3, ChainParts
        <4> QED  BY <3>2, <4>1, <4>2, SameWordsSame
      <3>4. CASE k = n + 1 /\ j = n
        <4>1. MetaOn(r, x).rec = RecLen(nm)
          BY <1>1 DEF IsRow, Row
        <4>2. ~IsNext(r, x)
          BY <1>1 DEF IsRow, IsEntry
        <4>3. y.o <= y.o
          BY <1>1, Places
        <4> QED  BY <1>2, <1>3, <3>4, <4>1, <4>2, <4>3 DEF Before
      <3>5. CASE k = n + 1 /\ j # n
        <4>1. j < n
          BY <1>0, <3>1, <3>5
        <4>2. ASSUME L[j].b = x.b PROVE ~IsNext(s, L[j]) /\ L[j].o + MetaOn(s, L[j]).rec <= y.o
          <5>1. /\ IsRow(s, L[j]) /\ L[j].o + MetaOn(s, L[j]).rec <= x.o
                /\ MetaOn(s, L[j]).rec \in {3, 4} /\ L[j].o \in Nat /\ x.o \in Nat
            BY <1>0, <3>1, <4>1, <4>2, ChainRoom DEF x
          <5>2. RecLen(nm) \in {3, 4}
            BY Numbers
          <5> QED  BY <1>2, <5>1, <5>2 DEF IsRow, IsEntry
        <4>3. Before(s, L[j], y)
          BY <1>2, <4>2 DEF Before
        <4> QED  BY <1>3, <3>2, <3>5, <4>3, SameWordsSame
      <3> QED  BY <1>0, <3>3, <3>4, <3>5
    <2>5. n + 1 \in Nat \ {0} /\ InodeOn(r, M[n + 1]) = 0
      BY <1>0, <1>1, <1>3
    <2> QED  BY <1>6, <2>1, <2>2, <2>3, <2>4, <2>5 DEF IsChain
  <1>8. Grown(s, r, a, n, L, n + 1, M, n, <<nm, type, i>>)
    <2>1. IsEntry(r, M[n]) /\ Row(r, M[n]) = <<nm, type, i>>
      BY <1>1, <1>3 DEF IsRow
    <2>2. ~IsEntry(r, M[n + 1])
      BY <1>1, <1>3 DEF IsEntry
    <2>3. \A k \in n .. n + 1 : k = n \/ k = n + 1
      BY <1>0
    <2>4. n <= n /\ n < n + 1
      BY <1>0
    <2>5. \A k \in 1 .. n - 1 : M[k] = L[k] /\ SameWords(s, r, L[k])
      BY <1>3, <1>5
    <2> QED  BY <1>7, <2>1, <2>2, <2>3, <2>4, <2>5 DEF Grown
  <1>9. BlocksIn(n + 1, M) = BlocksIn(n, L)
    <2>1. \A k \in 1 .. n + 1 : M[k].b \in BlocksIn(n, L)
      BY <1>0, <1>2, <1>3 DEF BlocksIn, x
    <2>2. \A k \in 1 .. n : L[k].b \in BlocksIn(n + 1, M)
      BY <1>0, <1>3 DEF BlocksIn
    <2> QED  BY <2>1, <2>2 DEF BlocksIn
  <1>10. \E m, z \in Nat : \E N :
                     /\ Grown(s, r, a, n, L, m, N, z, <<nm, type, i>>)
                     /\ BlocksIn(m, N) = BlocksIn(n, L)
    <2> DEFINE row == <<nm, type, i>>
    <2> HIDE DEF row
    <2>1. Grown(s, r, a, n, L, n + 1, M, n, row)
      BY <1>8 DEF row
    <2>2. \E m, z \in Nat : \E N :
             Grown(s, r, a, n, L, m, N, z, row) /\ BlocksIn(m, N) = BlocksIn(n, L)
      BY <1>0, <1>9, <2>1
    <2> QED  BY <2>2 DEF row
  <1> QED  BY <1>1, <1>10 DEF r, x

WithNext(s, x, b) == [s EXCEPT ![x.b] = PutNext(@, x.o, b)]

\* What writing a NEXT record leaves in a table's words.
LEMMA NextWritten ==
    ASSUME NEW s \in Disk, NEW x \in Place, NEW b \in Blk
    PROVE  LET r == WithNext(s, x, b)
           IN  /\ r \in Disk /\ IsNext(r, x) /\ InodeOn(r, x) = b
               /\ \A y \in Place : y.b # x.b \/ y.o + 1 < x.o => SameWords(s, r, y)
  <1> DEFINE r == WithNext(s, x, b)
             t == s[x.b]
             u == PutNext(t, x.o, b)
             NextMeta == Meta(NoName, "NEXT")
  <1>0. x.b \in Blk /\ x.o \in Nat /\ x.o \in Word /\ x.o + 1 \in Word /\ x.o # x.o + 1
    BY Places
  <1>1. t \in [Word -> Cell]
    BY <1>0 DEF Disk
  <1>2. Num(b) \in Cell /\ Num(b).inode = b
    <2>1. b \in 0 .. Junk
      BY Numbers DEF Blk
    <2>2. "none" \in CellType /\ NoName \in CellName /\ 0 \in Nat
      BY DEF CellType, CellName, NoName
    <2> QED  BY <2>1, <2>2 DEF Num, Cell
  <1>3. NextMeta \in Cell /\ NextMeta.type = "NEXT"
    <2>1. Junk \in 0 .. Junk /\ RecLen(NoName) \in Nat
      <3>1. Junk \in Nat /\ RecLen(NoName) = 3
        BY Numbers
      <3> QED  BY <3>1
    <2>2. "NEXT" \in CellType /\ NoName \in CellName
      BY DEF CellType, CellName, NoName
    <2> QED  BY <2>1, <2>2 DEF Meta, Cell
  <1>4. u = [t EXCEPT ![x.o] = Num(b), ![x.o + 1] = NextMeta]
    BY DEF PutNext
  <1>5. r[x.b] = u /\ \A c \in Blk : c # x.b => r[c] = s[c]
    BY <1>0 DEF WithNext, Disk
  <1> HIDE DEF t, u, NextMeta
  <1>6. /\ u \in [Word -> Cell] /\ u[x.o] = Num(b) /\ u[x.o + 1] = NextMeta
        /\ \A w \in Word : w # x.o /\ w # x.o + 1 => u[w] = t[w]
    BY <1>0, <1>1, <1>2, <1>3, <1>4
  <1>7. r \in Disk
    BY <1>6 DEF WithNext, Disk, u, t
  <1> HIDE DEF r
  <1>8. IsNext(r, x) /\ InodeOn(r, x) = b
    BY <1>2, <1>3, <1>5, <1>6 DEF IsNext, MetaOn, InodeOn
  <1>9. ASSUME NEW y \in Place, y.b # x.b \/ y.o + 1 < x.o PROVE SameWords(s, r, y)
    <2>1. y.b \in Blk /\ y.o \in Nat /\ y.o \in Word /\ y.o + 1 \in Word
      BY Places
    <2>2. CASE y.b # x.b
      BY <1>5, <2>1, <2>2 DEF SameWords, InodeOn, MetaOn
    <2>3. CASE y.b = x.b
      <3>1. y.o # x.o /\ y.o # x.o + 1 /\ y.o + 1 # x.o /\ y.o + 1 # x.o + 1
        BY <1>0, <1>9, <2>1, <2>3
      <3>2. u[y.o] = t[y.o] /\ u[y.o + 1] = t[y.o + 1]
        BY <1>6, <2>1, <3>1
      <3> QED  BY <1>5, <2>3, <3>2 DEF SameWords, InodeOn, MetaOn, t
    <2> QED  BY <2>2, <2>3
  <1> QED  BY <1>7, <1>8, <1>9 DEF r

\* Insertion, the entry does not fit: a NEXT record ends the table, and the entry
\* is the first of a table in a block of its own.
LEMMA ExtendChain ==
    ASSUME NEW s \in Disk, NEW a, NEW n, NEW L, IsChain(s, a, n, L),
           NEW i \in Inode, NEW type \in {"REG", "DIR"}, NEW nm \in Names,
           NEW b \in Blk, b \notin BlocksIn(n, L)
    PROVE  LET r == WithEntry(WithNext(s, L[n], b), At(b, 0), i, type, nm)
           IN  /\ r \in Disk
               /\ \E m, z \in Nat : \E M :
                     /\ Grown(s, r, a, n, L, m, M, z, <<nm, type, i>>)
                     /\ BlocksIn(m, M) = BlocksIn(n, L) \cup {b}
  <1> DEFINE x == L[n]
             y == At(b, 0)
             v == Behind(y, nm)
             q == WithNext(s, x, b)
             r == WithEntry(q, y, i, type, nm)
             M == [k \in 1 .. n + 2 |-> IF k = n + 1 THEN y ELSE IF k = n + 2 THEN v ELSE L[k]]
             row == <<nm, type, i>>
  <1>0. n \in Nat /\ n >= 1 /\ n \in 1 .. n /\ n + 1 \in Nat /\ n + 2 \in Nat /\ x \in Place
        /\ 1 .. n + 2 = (1 .. n) \cup {n + 1, n + 2} /\ n + 1 \notin 1 .. n /\ n + 2 \notin 1 .. n
        /\ n + 1 # n + 2 /\ (n + 1) + 1 = n + 2
        /\ 1 .. (n + 2) - 1 = (1 .. n - 1) \cup {n, n + 1} /\ n \notin 1 .. n - 1
        /\ n + 1 \notin 1 .. n - 1
    <2>1. n \in Nat /\ n >= 1
      BY ChainParts
    <2>2. n \in 1 .. n
      BY <2>1
    <2> QED  BY <2>1, <2>2, ChainParts
  <1>1. y \in Place /\ y.b = b /\ y.o = 0 /\ b # x.b
    <2>1. 0 \in 0 .. WORDS - 2
      BY Numbers
    <2> QED  BY <1>0, <2>1, Places DEF BlocksIn
  <1>2. /\ q \in Disk /\ IsNext(q, x) /\ InodeOn(q, x) = b
        /\ \A p \in Place : p.b # x.b \/ p.o + 1 < x.o => SameWords(s, q, p)
    <2> HIDE DEF x
    <2> QED  BY <1>0, NextWritten
  <1>3. /\ r \in Disk
        /\ IsRow(r, y) /\ Row(r, y) = row
        /\ v \in Place /\ v.o <= SpaceTotal
        /\ Leads(r, y, v) /\ InodeOn(r, v) = 0
        /\ \A p \in Place : p.b # y.b \/ p.o + 1 < y.o => SameWords(q, r, p)
    <2>1. y.o + RecLen(nm) <= SpaceTotal
      <3>1. RecLen(nm) \in {3, 4}
        BY Numbers
      <3> QED  BY <3>1, <1>1, Numbers
    <2> HIDE DEF y, q
    <2> QED  BY <1>1, <1>2, <2>1, EntryWritten
  <1>4. v.b = b /\ v.o = RecLen(nm)
    <2>1. RecLen(nm) \in {3, 4}
      BY Numbers
    <2> HIDE DEF y
    <2>2. v.b = y.b /\ v.o = y.o + RecLen(nm)
      BY Places DEF Behind
    <2> QED  BY <1>1, <2>1, <2>2
  <1>5. M[n + 1] = y /\ M[n + 2] = v /\ M[n] = x /\ \A k \in 1 .. n : M[k] = L[k]
    BY <1>0
  <1>6. M = [k \in 1 .. n + 2 |-> M[k]]
    OBVIOUS
  <1>7. y = At(b, 0)
    OBVIOUS
  <1> HIDE DEF M, r, q, x, y, v, row
  <1>8. ASSUME NEW k \in 1 .. n
        PROVE  /\ L[k] \in Place /\ L[k].b # b /\ SameWords(q, r, L[k])
               /\ k # n => SameWords(s, r, L[k]) /\ k \in 1 .. n - 1 /\ k + 1 \in 1 .. n /\ k < n
    <2>1. L[k] \in Place /\ L[k].b # b
      BY ChainParts DEF BlocksIn
    <2>2. SameWords(q, r, L[k])
      BY <1>1, <1>3, <2>1
    <2>3. ASSUME k # n PROVE SameWords(s, q, L[k]) /\ k \in 1 .. n - 1 /\ k + 1 \in 1 .. n /\ k < n
      <3>1. k < n /\ k \in 1 .. n - 1 /\ k + 1 \in 1 .. n
        BY <1>0, <2>3
      <3>2. L[k].b = x.b => L[k].o + 1 < x.o
        <4>1. SUFFICES ASSUME L[k].b = L[n].b PROVE L[k].o + 1 < L[n].o
          BY DEF x
        <4>2. L[k].o \in Nat /\ L[n].o \in Nat /\ L[k].o + 3 <= L[n].o
          BY <1>0, <3>1, <4>1, ChainRoom
        <4> QED  BY <4>2
      <3> QED  BY <1>2, <2>1, <3>1, <3>2
    <2> QED  BY <2>1, <2>2, <2>3 DEF SameWords
  <1>9. IsNext(r, x) /\ InodeOn(r, x) = b /\ x.b # b
    <2>1. SameWords(q, r, x)
      BY <1>0, <1>8 DEF x
    <2> QED  BY <1>1, <1>2, <2>1, SameWordsSame DEF SameWords
  <1>10. M \in [1 .. n + 2 -> Place]
    <2>1. \A k \in 1 .. n + 2 : M[k] \in Place
      BY <1>0, <1>1, <1>3, <1>5, <1>8
    <2> QED  BY <1>6, <2>1
  <1>11. IsChain(r, a, n + 2, M)
    <2>1. M[1] = a
      BY <1>0, <1>5, ChainParts
    <2>2. \A k \in 1 .. n + 2 : M[k].o <= SpaceTotal
      <3>1. y.o <= SpaceTotal
        BY <1>1, Numbers
      <3> QED  BY <1>0, <1>3, <1>5, <3>1, ChainParts
    <2>3. ASSUME NEW k \in 1 .. (n + 2) - 1 PROVE Leads(r, M[k], M[k + 1])
      <3>1. CASE k = n
        <4>1. IsLink(r, x, y)
          BY <1>3, <1>7, <1>9 DEF IsLink, IsRow
        <4> QED  BY <1>5, <3>1, <4>1 DEF Leads
      <3>2. CASE k = n + 1
        BY <1>0, <1>3, <1>5, <3>2
      <3>3. CASE k \in 1 .. n - 1
        <4>0. k \in 1 .. n /\ k # n
          BY <1>0, <3>3
        <4>1. Leads(s, L[k], L[k + 1]) /\ M[k] = L[k] /\ M[k + 1] = L[k + 1]
              /\ SameWords(s, r, L[k]) /\ k + 1 \in 1 .. n
          BY <1>5, <1>8, <3>3, <4>0, ChainParts
        <4>2. CASE k + 1 # n
          BY <1>8, <4>1, <4>2, SameWordsSame
        <4>3. CASE k + 1 = n
          <5>1. IsRow(r, L[k]) = IsRow(s, L[k]) /\ IsNext(r, L[k]) = IsNext(s, L[k])
            BY <4>1, SameWordsSame
          <5>2. ~IsLink(s, L[k], L[k + 1])
            <6>1. ~IsEntry(s, L[n])
              BY <1>0, ChainEntries
            <6> QED  BY <4>3, <6>1 DEF IsLink
          <5> QED  BY <4>1, <5>1, <5>2 DEF Leads, SameWords
        <4> QED  BY <4>2, <4>3
      <3> QED  BY <1>0, <3>1, <3>2, <3>3
    <2>4. ASSUME NEW j \in 1 .. n + 2, NEW k \in 1 .. n + 2, j < k PROVE Before(r, M[j], M[k])
      <3>1. CASE j \in 1 .. n /\ k \in 1 .. n
        <4>1. j # n
          BY <1>0, <2>4, <3>1
        <4>2. Before(s, L[j], L[k]) /\ M[k] = L[k] /\ M[j] = L[j]
          BY <1>5, <2>4, <3>1, ChainParts
        <4> QED  BY <1>8, <3>1, <4>1, <4>2, SameWordsSame
      <3>2. CASE j \in 1 .. n /\ k \notin 1 .. n
        <4>1. M[k].b = b
          BY <1>0, <1>1, <1>4, <1>5, <3>2
        <4>2. M[j].b # b
          BY <1>5, <1>8, <3>2
        <4> QED  BY <4>1, <4>2 DEF Before
      <3>3. CASE j \notin 1 .. n
        <4>1. j = n + 1 /\ k = n + 2
          BY <1>0, <2>4, <3>3
        <4>2. ~IsNext(r, y) /\ MetaOn(r, y).rec = RecLen(nm)
          BY <1>3 DEF IsRow, IsEntry, Row, row
        <4>3. RecLen(nm) \in {3, 4}
          BY Numbers
        <4> QED  BY <1>1, <1>4, <1>5, <4>1, <4>2, <4>3 DEF Before
      <3> QED  BY <3>1, <3>2, <3>3
    <2>5. n + 2 \in Nat \ {0} /\ InodeOn(r, M[n + 2]) = 0
      BY <1>0, <1>3, <1>5
    <2> QED  BY <1>10, <2>1, <2>2, <2>3, <2>4, <2>5 DEF IsChain
  <1>12. Grown(s, r, a, n, L, n + 2, M, n + 1, row)
    <2>1. IsEntry(r, M[n + 1]) /\ Row(r, M[n + 1]) = row
      BY <1>3, <1>5 DEF IsRow
    <2>2. ~IsEntry(r, M[n + 2]) /\ ~IsEntry(r, M[n])
      BY <1>3, <1>5, <1>9 DEF IsEntry
    <2>3. \A k \in n .. n + 2 : k = n \/ k = n + 1 \/ k = n + 2
      BY <1>0
    <2>4. n <= n + 1 /\ n + 1 < n + 2
      BY <1>0
    <2>5. \A k \in 1 .. n - 1 : M[k] = L[k] /\ SameWords(s, r, L[k])
      <3>1. \A k \in 1 .. n - 1 : k \in 1 .. n /\ k # n
        BY <1>0
      <3> QED  BY <1>5, <1>8, <3>1
    <2> QED  BY <1>11, <2>1, <2>2, <2>3, <2>4, <2>5 DEF Grown
  <1>13. BlocksIn(n + 2, M) = BlocksIn(n, L) \cup {b}
    <2>1. \A k \in 1 .. n + 2 : M[k].b \in BlocksIn(n, L) \cup {b}
      BY <1>0, <1>1, <1>4, <1>5 DEF BlocksIn
    <2>2. \A k \in 1 .. n : L[k].b \in BlocksIn(n + 2, M)
      BY <1>0, <1>5 DEF BlocksIn
    <2>3. b \in BlocksIn(n + 2, M)
      BY <1>0, <1>1, <1>5 DEF BlocksIn
    <2> QED  BY <2>1, <2>2, <2>3 DEF BlocksIn
  <1>14. \E m, z \in Nat : \E N :
            Grown(s, r, a, n, L, m, N, z, row) /\ BlocksIn(m, N) = BlocksIn(n, L) \cup {b}
    BY <1>0, <1>12, <1>13
  <1> QED  BY <1>3, <1>14 DEF r, q, x, y, row

\* The entries of a chain but for the one at k; with 0 for k, all of them.
RowsBut(s, n, L, k) == {Row(s, L[j]) : j \in {j \in 1 .. n : j # k /\ IsEntry(s, L[j])}}
DistinctBut(s, n, L, k) ==
    \A i, j \in 1 .. n : i # j /\ i # k /\ j # k => Differ(s, L[i], L[j])

\* Leaving out no place leaves the rows of the whole chain.
LEMMA ButNone ==
    ASSUME NEW s, NEW n, NEW L
    PROVE  RowsBut(s, n, L, 0) = RowsIn(s, n, L) /\ (DistinctBut(s, n, L, 0) <=> Distinct(s, n, L))
  <1>1. \A j \in 1 .. n : j # 0
    OBVIOUS
  <1> QED  BY <1>1 DEF RowsBut, RowsIn, DistinctBut, Distinct

\* An insertion adds one row, whether or not a place is left out.
LEMMA GrownRows ==
    ASSUME NEW s, NEW r, NEW a, NEW n, NEW L, NEW m \in Nat, NEW M, NEW z \in Nat, NEW row,
           IsChain(s, a, n, L), Grown(s, r, a, n, L, m, M, z, row), NEW k \in 0 .. n - 1
    PROVE  /\ RowsBut(r, m, M, k) = RowsBut(s, n, L, k) \cup {row}
           /\ DistinctBut(s, n, L, k) /\ (\A e \in RowsBut(s, n, L, k) : e[3] # row[3])
                 => DistinctBut(r, m, M, k)
  <1>0. /\ n \in Nat /\ n >= 1 /\ m > n /\ z \in 1 .. m /\ z \notin 1 .. n - 1 /\ n \in 1 .. n
        /\ 1 .. n - 1 \subseteq 1 .. n /\ 1 .. n - 1 \subseteq 1 .. m
        /\ \A j \in 1 .. m : j \in 1 .. n - 1 \/ j \in n .. m
        /\ k # z
    <2>1. n \in Nat /\ n >= 1
      BY ChainParts
    <2>2. n <= z /\ z < m
      BY DEF Grown
    <2> QED  BY <2>1, <2>2
  <1>1. ASSUME NEW j \in 1 .. n - 1
        PROVE  /\ M[j] = L[j] /\ IsEntry(r, M[j]) = IsEntry(s, L[j])
               /\ Row(r, M[j]) = Row(s, L[j]) /\ InodeOn(r, M[j]) = InodeOn(s, L[j])
    BY SameWordsSame DEF Grown, SameWords
  <1>2. ASSUME NEW j \in 1 .. m, IsEntry(r, M[j]) PROVE j = z \/ j \in 1 .. n - 1
    BY <1>0, <1>2 DEF Grown
  <1>3. ASSUME NEW j \in 1 .. n, IsEntry(s, L[j]) PROVE j \in 1 .. n - 1
    <2>1. j # n
      BY <1>3, ChainEntries
    <2> QED  BY <1>0, <2>1
  <1>4. IsEntry(r, M[z]) /\ Row(r, M[z]) = row
    BY DEF Grown
  <1>5. RowsBut(r, m, M, k) \subseteq RowsBut(s, n, L, k) \cup {row}
    BY <1>0, <1>1, <1>2, <1>4 DEF RowsBut
  <1>6. RowsBut(s, n, L, k) \subseteq RowsBut(r, m, M, k)
    BY <1>0, <1>1, <1>3 DEF RowsBut
  <1>7. row \in RowsBut(r, m, M, k)
    BY <1>0, <1>4 DEF RowsBut
  <1>8. ASSUME DistinctBut(s, n, L, k), \A e \in RowsBut(s, n, L, k) : e[3] # row[3]
        PROVE  DistinctBut(r, m, M, k)
    <2>1. ASSUME NEW j \in 1 .. n - 1, j # k, IsEntry(r, M[j])
          PROVE  InodeOn(r, M[j]) # InodeOn(r, M[z])
      <3>1. Row(s, L[j]) \in RowsBut(s, n, L, k)
        BY <1>0, <1>1, <2>1 DEF RowsBut
      <3>2. Row(s, L[j])[3] # row[3]
        BY <1>8, <3>1
      <3>3. Row(s, L[j])[3] = InodeOn(r, M[j]) /\ row[3] = InodeOn(r, M[z])
        BY <1>1, <1>4 DEF Row
      <3> QED  BY <3>2, <3>3
    <2>2. ASSUME NEW i \in 1 .. m, NEW j \in 1 .. m, i # j, i # k, j # k,
                 IsEntry(r, M[i]), IsEntry(r, M[j])
          PROVE  InodeOn(r, M[i]) # InodeOn(r, M[j])
      <3>1. (i = z \/ i \in 1 .. n - 1) /\ (j = z \/ j \in 1 .. n - 1)
        BY <1>2, <2>2
      <3>2. CASE i \in 1 .. n - 1 /\ j \in 1 .. n - 1
        <4>1. i \in 1 .. n /\ j \in 1 .. n
          BY <1>0, <3>2
        <4>2. Differ(s, L[i], L[j])
          BY <1>8, <2>2, <4>1 DEF DistinctBut
        <4> QED  BY <1>1, <2>2, <3>2, <4>2 DEF Differ
      <3> QED  BY <2>1, <2>2, <3>1, <3>2
    <2> QED  BY <2>2 DEF DistinctBut, Differ
  <1> QED  BY <1>5, <1>6, <1>7, <1>8

(***************************************************************************)
(* Taking an entry out of its table.                                       *)
(***************************************************************************)

\* Chain L of s has become chain M of r, without the entry at k.
Shrunk(s, r, a, n, L, k, m, M) ==
    /\ IsChain(r, a, m, M)
    /\ RowsIn(r, m, M) = RowsBut(s, n, L, k)
    /\ DistinctBut(s, n, L, k) => Distinct(r, m, M)

\* Places of two disks that are both no entries, or the same entry.
Alike(s, x, r, y) ==
    /\ IsEntry(r, y) = IsEntry(s, x)
    /\ IsEntry(s, x) => Row(r, y) = Row(s, x) /\ InodeOn(r, y) = InodeOn(s, x)

\* A chain whose places are those of another but the k-th, in some order-preserving
\* renumbering, has the rows of the other but the k-th's.
LEMMA FewerRows ==
    ASSUME NEW s, NEW r, NEW a, NEW n, NEW L, NEW k, NEW m, NEW M, IsChain(r, a, m, M),
           NEW e \in [1 .. m -> 1 .. n],
           \A j \in 1 .. m : e[j] # k /\ Alike(s, L[e[j]], r, M[j]),
           \A i, j \in 1 .. m : i # j => e[i] # e[j],
           \A i \in 1 .. n : i # k /\ IsEntry(s, L[i]) => \E j \in 1 .. m : e[j] = i
    PROVE  Shrunk(s, r, a, n, L, k, m, M)
  <1>1. RowsIn(r, m, M) = RowsBut(s, n, L, k)
    <2>1. ASSUME NEW j \in 1 .. m, IsEntry(r, M[j]) PROVE Row(r, M[j]) \in RowsBut(s, n, L, k)
      <3>1. e[j] \in 1 .. n /\ e[j] # k /\ IsEntry(s, L[e[j]]) /\ Row(r, M[j]) = Row(s, L[e[j]])
        BY <2>1 DEF Alike
      <3> QED  BY <3>1 DEF RowsBut
    <2>2. ASSUME NEW i \in 1 .. n, i # k, IsEntry(s, L[i]) PROVE Row(s, L[i]) \in RowsIn(r, m, M)
      <3>1. PICK j \in 1 .. m : e[j] = i
        BY <2>2
      <3>2. IsEntry(r, M[j]) /\ Row(r, M[j]) = Row(s, L[i])
        BY <2>2, <3>1 DEF Alike
      <3> QED  BY <3>2 DEF RowsIn
    <2> QED  BY <2>1, <2>2 DEF RowsIn, RowsBut
  <1>2. ASSUME DistinctBut(s, n, L, k) PROVE Distinct(r, m, M)
    <2>1. ASSUME NEW i \in 1 .. m, NEW j \in 1 .. m, i # j PROVE Differ(r, M[i], M[j])
      <3>1. /\ e[i] \in 1 .. n /\ e[j] \in 1 .. n /\ e[i] # e[j] /\ e[i] # k /\ e[j] # k
        BY <2>1
      <3>2. Differ(s, L[e[i]], L[e[j]])
        BY <1>2, <3>1 DEF DistinctBut
      <3> QED  BY <3>2 DEF Differ, Alike
    <2> QED  BY <2>1 DEF Distinct
  <1> QED  BY <1>1, <1>2 DEF Shrunk

Shifted(s, x, rec) == [s EXCEPT ![x.b] = Shift(@, x.o, rec)]

\* What lies behind x moves rec words towards it.
MovedUp(s, r, x, rec) ==
    \A y \in Place : y.b = x.b /\ y.o >= x.o + rec =>
        /\ At(y.b, y.o - rec) \in Place
        /\ InodeOn(r, At(y.b, y.o - rec)) = InodeOn(s, y)
        /\ MetaOn(r, At(y.b, y.o - rec)) = MetaOn(s, y)

\* Deletion by shifting: the words behind the entry move up by its length, and
\* nothing before it or in another block changes.
LEMMA ShiftWords ==
    ASSUME NEW s \in Disk, NEW x \in Place, NEW rec \in {3, 4}, NEW r, r = Shifted(s, x, rec)
    PROVE  /\ r \in Disk
           /\ \A y \in Place : y.b # x.b \/ y.o + 1 < x.o => SameWords(s, r, y)
           /\ MovedUp(s, r, x, rec)
  <1> DEFINE t == s[x.b]
             u == Shift(t, x.o, rec)
  <1>0. x.b \in Blk /\ x.o \in Nat /\ x.o \in Word /\ x.o + 1 \in Word
    BY Places
  <1>1. t \in [Word -> Cell]
    BY <1>0 DEF Disk
  <1>2. \A w \in Word : u[w] = IF w >= x.o /\ w + rec < WORDS THEN t[w + rec] ELSE t[w]
    BY DEF Shift
  <1>3. u = [w \in Word |-> u[w]]
    BY DEF Shift
  <1>4. r[x.b] = u /\ \A c \in Blk : c # x.b => r[c] = s[c]
    BY <1>0 DEF Shifted, Disk
  <1>5. r = [s EXCEPT ![x.b] = u]
    BY DEF Shifted
  <1> HIDE DEF t, u
  <1>6. u \in [Word -> Cell]
    <2>1. ASSUME NEW w \in Word PROVE u[w] \in Cell
      <3>1. w >= x.o /\ w + rec < WORDS => w + rec \in Word
        BY Numbers DEF Word
      <3> QED  BY <1>1, <1>2, <3>1
    <2> QED  BY <1>3, <2>1
  <1>7. r \in Disk
    BY <1>5, <1>6 DEF Disk
  <1>8. ASSUME NEW y \in Place, y.b # x.b \/ y.o + 1 < x.o PROVE SameWords(s, r, y)
    <2>1. y.b \in Blk /\ y.o \in Nat /\ y.o \in Word /\ y.o + 1 \in Word
      BY Places
    <2>2. CASE y.b # x.b
      BY <1>4, <2>1, <2>2 DEF SameWords, InodeOn, MetaOn
    <2>3. CASE y.b = x.b
      <3>1. ~(y.o >= x.o) /\ ~(y.o + 1 >= x.o)
        BY <1>0, <1>8, <2>1, <2>3
      <3>2. u[y.o] = t[y.o] /\ u[y.o + 1] = t[y.o + 1]
        BY <1>2, <2>1, <3>1
      <3> QED  BY <1>4, <2>3, <3>2 DEF SameWords, InodeOn, MetaOn, t
    <2> QED  BY <2>2, <2>3
  <1>9. ASSUME NEW y \in Place, y.b = x.b, y.o >= x.o + rec
        PROVE  /\ At(y.b, y.o - rec) \in Place
               /\ InodeOn(r, At(y.b, y.o - rec)) = InodeOn(s, y)
               /\ MetaOn(r, At(y.b, y.o - rec)) = MetaOn(s, y)
    <2> DEFINE o == y.o - rec
    <2>1. y.b \in Blk /\ y.o \in Nat /\ y.o <= WORDS - 2 /\ WORDS \in Nat
      BY Places, Numbers
    <2>2. /\ o \in 0 .. WORDS - 2 /\ o \in Word /\ o + 1 \in Word /\ o >= x.o /\ o + 1 >= x.o
          /\ o + rec = y.o /\ (o + 1) + rec = y.o + 1 /\ y.o < WORDS /\ y.o + 1 < WORDS
      BY <1>0, <1>9, <2>1 DEF Word
    <2> HIDE DEF o
    <2>3. u[o] = t[y.o] /\ u[o + 1] = t[y.o + 1]
      BY <1>2, <2>2
    <2>4. At(y.b, o) \in Place /\ At(y.b, o).b = y.b /\ At(y.b, o).o = o
      BY <2>1, <2>2, Places
    <2>5. InodeOn(r, At(y.b, o)) = InodeOn(s, y) /\ MetaOn(r, At(y.b, o)) = MetaOn(s, y)
      BY <1>4, <1>9, <2>3, <2>4 DEF InodeOn, MetaOn, t
    <2> QED  BY <2>4, <2>5 DEF o
  <1>10. MovedUp(s, r, x, rec)
    BY <1>9 DEF MovedUp
  <1> QED  BY <1>7, <1>8, <1>10

\* The place of a later entry once rec words before it are gone.
Slid(x, rec, y) == IF y.b = x.b THEN At(y.b, y.o - rec) ELSE y

\* The entry is not its table's only one: the table keeps the rest.
LEMMA ShiftChain ==
    ASSUME NEW s \in Disk, NEW a, NEW n, NEW L, IsChain(s, a, n, L), a.o # 0,
           NEW k \in 1 .. n - 1, IsRow(s, L[k]),
           L[k].o # 0 \/ IsEntry(s, L[k + 1])
    PROVE  LET r == Shifted(s, L[k], MetaOn(s, L[k]).rec)
           IN  /\ r \in Disk
               /\ \E m \in Nat : \E M : /\ Shrunk(s, r, a, n, L, k, m, M)
                                        /\ BlocksIn(m, M) = BlocksIn(n, L)
  <1> DEFINE x == L[k]
             rec == MetaOn(s, x).rec
             r == Shifted(s, x, rec)
             m == n - 1
             e == [j \in 1 .. n - 1 |-> IF j < k THEN j ELSE j + 1]
             M == [j \in 1 .. n - 1 |-> IF j < k THEN L[j] ELSE Slid(x, rec, L[j + 1])]
  <1>0. /\ n \in Nat /\ n >= 2 /\ k \in 1 .. n /\ k + 1 \in 1 .. n /\ k < k + 1 /\ m \in Nat /\ m >= 1
        /\ x \in Place /\ L[k + 1] \in Place /\ k \in Nat /\ k # n /\ k <= m /\ k >= 1
    <2>1. n \in Nat /\ n >= 1
      BY ChainParts
    <2>2. n >= 2 /\ k \in 1 .. n /\ k + 1 \in 1 .. n /\ k # n /\ k \in Nat /\ k <= m /\ k >= 1
      BY <2>1
    <2> QED  BY <2>1, <2>2, ChainParts
  <1>1. rec \in {3, 4} /\ rec \in Nat
    BY <1>0, Numbers DEF IsRow
  <1>2. /\ r \in Disk
        /\ \A y \in Place : y.b # x.b \/ y.o + 1 < x.o => SameWords(s, r, y)
        /\ MovedUp(s, r, x, rec)
    <2>1. x \in Place /\ rec \in {3, 4} /\ r = Shifted(s, x, rec)
      BY <1>0, <1>1
    <2> HIDE DEF x, rec, r
    <2> QED  BY <2>1, ShiftWords
  <1>3. /\ \A j \in 1 .. m : e[j] = IF j < k THEN j ELSE j + 1
        /\ \A j \in 1 .. m : M[j] = IF j < k THEN L[j] ELSE Slid(x, rec, L[j + 1])
        /\ M = [j \in 1 .. m |-> M[j]] /\ e = [j \in 1 .. m |-> e[j]]
    OBVIOUS
  <1>4. x = L[k] /\ rec = MetaOn(s, x).rec /\ m = n - 1
    OBVIOUS
  <1> HIDE DEF x, rec, r, e, M, m
  <1>5. L[k + 1] = At(x.b, x.o + rec) /\ L[k + 1].b = x.b /\ L[k + 1].o = x.o + rec
        /\ x.o \in Nat /\ x = At(x.b, x.o)
    <2>1. Leads(s, L[k], L[k + 1])
      BY ChainParts
    <2>2. L[k + 1] = At(x.b, x.o + rec)
      BY <1>4, <2>1 DEF Leads, IsLink, IsRow, IsEntry
    <2> QED  BY <1>0, <2>2, Places
  \* places before and behind the one that goes
  <1>6. ASSUME NEW j \in 1 .. m, j < k
        PROVE  /\ j \in 1 .. n /\ j + 1 \in 1 .. n /\ j \in 1 .. n - 1
               /\ M[j] = L[j] /\ M[j] \in Place /\ SameWords(s, r, L[j])
               /\ L[j].b = x.b => /\ ~IsNext(s, L[j]) /\ L[j].o + MetaOn(s, L[j]).rec <= x.o
                                  /\ L[j].o \in Nat
    <2>1. j \in 1 .. n /\ j + 1 \in 1 .. n /\ j \in 1 .. n - 1 /\ M[j] = L[j] /\ L[j] \in Place
      BY <1>0, <1>3, <1>4, <1>6, ChainParts
    <2>2. ASSUME L[j].b = x.b
          PROVE  /\ IsRow(s, L[j]) /\ L[j].o + MetaOn(s, L[j]).rec <= x.o /\ L[j].o \in Nat
                 /\ L[j].o + 1 < x.o
      <3>1. /\ IsRow(s, L[j]) /\ L[j].o \in Nat /\ L[k].o \in Nat
            /\ L[j].o + MetaOn(s, L[j]).rec <= L[k].o /\ L[j].o + 3 <= L[k].o
        BY <1>0, <1>4, <1>6, <2>1, <2>2, ChainRoom
      <3> QED  BY <1>4, <3>1
    <2>3. SameWords(s, r, L[j])
      BY <1>2, <2>1, <2>2
    <2> QED  BY <2>1, <2>2, <2>3 DEF IsRow, IsEntry
  <1>7. ASSUME NEW j \in 1 .. m, j >= k
        PROVE  /\ j + 1 \in 1 .. n /\ M[j] = Slid(x, rec, L[j + 1]) /\ M[j] \in Place
               /\ InodeOn(r, M[j]) = InodeOn(s, L[j + 1]) /\ MetaOn(r, M[j]) = MetaOn(s, L[j + 1])
               /\ M[j].b = L[j + 1].b /\ L[j + 1] \in Place
               /\ L[j + 1].b = x.b => L[j + 1].o >= x.o + rec /\ M[j].o = L[j + 1].o - rec
               /\ L[j + 1].b # x.b => M[j] = L[j + 1]
    <2>1. j + 1 \in 1 .. n /\ M[j] = Slid(x, rec, L[j + 1]) /\ L[j + 1] \in Place
      <3>1. j + 1 \in 1 .. n /\ ~(j < k)
        BY <1>0, <1>4, <1>7
      <3> QED  BY <1>3, <3>1, ChainParts
    <2>2. CASE L[j + 1].b = x.b
      <3>1. L[j + 1].o >= x.o + rec /\ L[j + 1].o \in Nat
        <4>1. k < j + 1
          BY <1>0, <1>7
        <4>2. L[k].o + MetaOn(s, L[k]).rec <= L[j + 1].o /\ L[j + 1].o \in Nat
          BY <1>0, <1>4, <2>1, <2>2, <4>1, ChainRoom
        <4> QED  BY <1>1, <1>4, <1>5, <4>2
      <3>2. M[j] = At(L[j + 1].b, L[j + 1].o - rec)
        BY <2>1, <2>2 DEF Slid
      <3>3. M[j].b = L[j + 1].b /\ M[j].o = L[j + 1].o - rec
        BY <3>2, Places
      <3> QED  BY <1>2, <2>1, <2>2, <3>1, <3>2, <3>3 DEF MovedUp
    <2>3. CASE L[j + 1].b # x.b
      <3>1. M[j] = L[j + 1]
        BY <2>1, <2>3 DEF Slid
      <3> QED  BY <1>2, <2>1, <2>3, <3>1 DEF SameWords
    <2> QED  BY <2>1, <2>2, <2>3
  <1>8. ASSUME NEW j \in 1 .. m
        PROVE  /\ e[j] \in 1 .. n /\ e[j] # k
               /\ InodeOn(r, M[j]) = InodeOn(s, L[e[j]]) /\ MetaOn(r, M[j]) = MetaOn(s, L[e[j]])
               /\ M[j] \in Place
    <2>1. CASE j < k
      BY <1>3, <1>6, <2>1 DEF SameWords
    <2>2. CASE ~(j < k)
      <3>1. j >= k /\ e[j] = j + 1 /\ j + 1 # k
        BY <1>0, <1>3, <2>2
      <3> QED  BY <1>7, <3>1
    <2> QED  BY <2>1, <2>2
  <1>9. ASSUME NEW j \in 1 .. m
        PROVE  /\ IsEntry(r, M[j]) = IsEntry(s, L[e[j]]) /\ IsNext(r, M[j]) = IsNext(s, L[e[j]])
               /\ IsRow(r, M[j]) = IsRow(s, L[e[j]]) /\ Row(r, M[j]) = Row(s, L[e[j]])
               /\ Alike(s, L[e[j]], r, M[j])
    <2>1. /\ IsEntry(r, M[j]) = IsEntry(s, L[e[j]]) /\ IsNext(r, M[j]) = IsNext(s, L[e[j]])
      BY <1>8 DEF IsEntry, IsNext
    <2>2. IsRow(r, M[j]) = IsRow(s, L[e[j]]) /\ Row(r, M[j]) = Row(s, L[e[j]])
      BY <1>8, <2>1 DEF IsRow, Row
    <2> QED  BY <1>8, <2>1, <2>2 DEF Alike
  \* every step still leads on
  <1>10. ASSUME NEW j \in 1 .. m - 1 PROVE Leads(r, M[j], M[j + 1])
    <2>0. j \in 1 .. m /\ j + 1 \in 1 .. m /\ m \in Nat
      BY <1>0
    <2>1. CASE j + 1 < k
      <3>1. j < k
        BY <1>0, <2>1
      <3>2. Leads(s, L[j], L[j + 1]) /\ SameWords(s, r, L[j]) /\ SameWords(s, r, L[j + 1])
            /\ M[j] = L[j] /\ M[j + 1] = L[j + 1]
        BY <1>6, <2>0, <2>1, <3>1, ChainParts
      <3> QED  BY <3>2, SameWordsSame
    <2>2. CASE j + 1 = k
      <3>1. j < k /\ j + 1 >= k
        BY <1>0, <2>2
      <3>2. Leads(s, L[j], x) /\ SameWords(s, r, L[j]) /\ M[j] = L[j]
        BY <1>4, <1>6, <2>0, <2>2, <3>1, ChainParts
      <3>3. M[k] = x
        <4>1. M[k] = Slid(x, rec, L[k + 1])
          BY <1>7, <2>0, <2>2, <3>1
        <4>2. (x.o + rec) - rec = x.o
          BY <1>1, <1>5
        <4> QED  BY <1>5, <4>1, <4>2 DEF Slid
      <3>4. CASE IsRow(s, L[j]) /\ x = At(L[j].b, L[j].o + MetaOn(s, L[j]).rec)
        BY <2>2, <3>2, <3>3, <3>4, SameWordsSame DEF Leads, SameWords
      <3>5. CASE IsLink(s, L[j], x)
        <4>1. x.o = 0
          BY <3>5, Places DEF IsLink
        <4>2. IsEntry(s, L[k + 1])
          BY <1>4, <4>1
        <4>3. e[k] = k + 1
          BY <1>0, <1>3
        <4>4. IsEntry(r, M[k])
          BY <1>9, <2>0, <2>2, <4>2, <4>3
        <4> QED  BY <2>2, <3>2, <3>3, <3>5, <4>4, SameWordsSame DEF Leads, IsLink, SameWords
      <3> QED  BY <3>2, <3>4, <3>5 DEF Leads
    <2>3. CASE j + 1 > k
      <3>0. j >= k /\ j + 1 >= k /\ e[j] = j + 1 /\ e[j + 1] = (j + 1) + 1
            /\ j + 1 \in 1 .. n - 1 /\ ~(j < k)
        BY <1>0, <1>3, <1>4, <2>0, <2>3
      <3> DEFINE y == L[j + 1]
                 w == L[(j + 1) + 1]
      <3>1. Leads(s, y, w)
        BY <3>0, ChainParts
      <3>2. /\ y \in Place /\ M[j].b = y.b /\ InodeOn(r, M[j]) = InodeOn(s, y)
            /\ MetaOn(r, M[j]) = MetaOn(s, y)
            /\ y.b = x.b => y.o >= x.o + rec /\ M[j].o = y.o - rec
            /\ y.b # x.b => M[j] = y
        BY <1>7, <2>0, <3>0
      <3>3. /\ w \in Place /\ M[j + 1] = Slid(x, rec, w)
            /\ w.b = x.b => w.o >= x.o + rec
        BY <1>7, <2>0, <3>0
      <3>4. /\ IsRow(r, M[j]) = IsRow(s, y) /\ IsNext(r, M[j]) = IsNext(s, y)
            /\ IsEntry(r, M[j + 1]) = IsEntry(s, w)
        BY <1>9, <2>0, <3>0
      <3> HIDE DEF y, w
      <3>5. CASE IsRow(s, y) /\ w = At(y.b, y.o + MetaOn(s, y).rec)
        <4>1. w.b = y.b /\ w.o = y.o + MetaOn(s, y).rec
          BY <3>5, Places
        <4>2. MetaOn(s, y).rec \in {3, 4} /\ y.o \in Nat
          BY <3>2, <3>5, Numbers, Places DEF IsRow
        <4>3. CASE y.b = x.b
          <5>1. w.o - rec = M[j].o + MetaOn(r, M[j]).rec
            BY <1>1, <3>2, <4>1, <4>2, <4>3
          <5> QED  BY <3>2, <3>3, <3>4, <3>5, <4>1, <4>3, <5>1 DEF Leads, Slid
        <4>4. CASE y.b # x.b
          BY <3>2, <3>3, <3>4, <3>5, <4>1, <4>4 DEF Leads, Slid
        <4> QED  BY <4>3, <4>4
      <3>6. CASE IsLink(s, y, w)
        <4>1. w = At(InodeOn(s, y), 0) /\ w.o = 0
          BY <3>6, Places DEF IsLink
        <4>2. w.b # x.b
          BY <1>1, <1>5, <3>3, <4>1
        <4>3. M[j + 1] = w
          BY <3>3, <4>2 DEF Slid
        <4> QED  BY <3>2, <3>4, <3>6, <4>1, <4>3 DEF Leads, IsLink
      <3> QED  BY <3>1, <3>5, <3>6 DEF Leads
    <2>4. j + 1 \in Int /\ k \in Int
      BY <1>0, <2>0
    <2> QED  BY <2>1, <2>2, <2>3, <2>4
  <1>11. ASSUME NEW i \in 1 .. m, NEW j \in 1 .. m, i < j PROVE Before(r, M[i], M[j])
    <2>0. i \in Nat /\ j \in Nat /\ m \in Nat
      BY <1>0
    <2>1. SUFFICES ASSUME M[i].b = M[j].b
                   PROVE  ~IsNext(s, L[e[i]]) /\ M[i].o + MetaOn(s, L[e[i]]).rec <= M[j].o
      BY <1>8, <1>9 DEF Before
    <2>2. e[i] \in 1 .. n /\ e[j] \in 1 .. n /\ e[i] < e[j]
      BY <1>0, <1>3, <1>8, <1>11, <2>0
    <2>3. Before(s, L[e[i]], L[e[j]])
      BY <2>2, ChainParts
    <2>4. CASE j < k
      BY <1>0, <1>3, <1>6, <1>11, <2>0, <2>1, <2>3, <2>4 DEF Before
    <2>5. CASE i < k /\ j >= k
      <3>1. e[i] = i /\ e[j] = j + 1 /\ M[i] = L[i] /\ M[j].b = L[j + 1].b
        BY <1>0, <1>3, <1>6, <1>7, <2>0, <2>5
      <3>2. CASE L[j + 1].b = x.b
        <4>1. L[i].b = x.b
          BY <2>1, <3>1, <3>2
        <4>2. ~IsNext(s, L[i]) /\ L[i].o + MetaOn(s, L[i]).rec <= x.o /\ L[i].o \in Nat
          BY <1>6, <2>5, <4>1
        <4>3. L[j + 1].o >= x.o + rec /\ M[j].o = L[j + 1].o - rec /\ L[j + 1] \in Place
          BY <1>7, <2>5, <3>2
        <4>4. MetaOn(s, L[i]).rec \in Nat
          <5>1. L[i] \in Place
            BY <1>6, <2>5
          <5> QED  BY <5>1, Cells
        <4>5. L[j + 1].o \in Nat
          BY <4>3, Places
        <4>6. x.o <= M[j].o /\ M[j].o \in Int
          BY <1>1, <1>5, <4>3, <4>5
        <4>7. L[i].o + MetaOn(s, L[i]).rec \in Int
          BY <4>2, <4>4
        <4>8. L[i].o + MetaOn(s, L[i]).rec <= M[j].o
          BY <1>5, <4>2, <4>6, <4>7
        <4> QED  BY <3>1, <4>2, <4>8
      <3>3. CASE L[j + 1].b # x.b
        <4>1. M[j] = L[j + 1]
          BY <1>7, <2>5, <3>3
        <4> QED  BY <2>1, <2>3, <3>1, <4>1 DEF Before
      <3> QED  BY <3>2, <3>3
    <2>6. CASE i >= k
      <3>1. e[i] = i + 1 /\ e[j] = j + 1 /\ j >= k
        BY <1>0, <1>3, <1>11, <2>0, <2>6
      <3>2. M[i].b = L[i + 1].b /\ M[j].b = L[j + 1].b
        BY <1>7, <2>6, <3>1
      <3>3. ~IsNext(s, L[i + 1]) /\ L[i + 1].o + MetaOn(s, L[i + 1]).rec <= L[j + 1].o
        BY <2>1, <2>3, <3>1, <3>2 DEF Before
      <3>4. CASE L[i + 1].b = x.b
        <4>1. M[i].o = L[i + 1].o - rec /\ M[j].o = L[j + 1].o - rec
              /\ L[i + 1] \in Place /\ L[j + 1] \in Place
          BY <1>7, <2>1, <2>6, <3>1, <3>2, <3>4
        <4>2. L[i + 1].o \in Nat /\ L[j + 1].o \in Nat /\ MetaOn(s, L[i + 1]).rec \in Nat
          BY <4>1, Places, Cells
        <4>3. M[i].o + MetaOn(s, L[i + 1]).rec <= M[j].o
          BY <1>1, <3>3, <4>1, <4>2
        <4> QED  BY <3>1, <3>3, <4>3
      <3>5. CASE L[i + 1].b # x.b
        <4>1. M[i] = L[i + 1] /\ M[j] = L[j + 1]
          BY <1>7, <2>1, <2>6, <3>1, <3>2, <3>5
        <4> QED  BY <3>1, <3>3, <4>1
      <3> QED  BY <3>4, <3>5
    <2> QED  BY <1>0, <2>0, <2>4, <2>5, <2>6
  <1>12. IsChain(r, a, m, M)
    <2>1. M \in [1 .. m -> Place]
      BY <1>3, <1>8
    <2>2. M[1] = a
      <3>0. 1 \in 1 .. m
        BY <1>0
      <3>1. CASE k = 1
        <4>1. M[1] = Slid(x, rec, L[1 + 1])
          BY <1>0, <1>3, <3>0, <3>1
        <4>2. (x.o + rec) - rec = x.o
          BY <1>1, <1>5
        <4>3. M[1] = x
          BY <1>5, <3>1, <4>1, <4>2 DEF Slid
        <4> QED  BY <1>4, <3>1, <4>3, ChainParts
      <3>2. CASE k # 1
        <4>1. 1 < k
          BY <1>0, <3>2
        <4> QED  BY <3>0, <4>1, <1>6, ChainParts
      <3> QED  BY <3>1, <3>2
    <2>3. ASSUME NEW j \in 1 .. m PROVE M[j].o <= SpaceTotal
      <3>1. CASE j < k
        BY <1>6, <3>1, ChainParts
      <3>2. CASE ~(j < k)
        <4>1. j >= k
          BY <1>0, <3>2
        <4>2. j + 1 \in 1 .. n /\ L[j + 1].o <= SpaceTotal /\ L[j + 1] \in Place
          BY <1>7, <4>1, ChainParts
        <4>3. L[j + 1].o \in Nat /\ SpaceTotal \in Int
          BY <4>2, Places, Numbers
        <4>4. CASE L[j + 1].b = x.b
          <5>1. M[j].o = L[j + 1].o - rec
            BY <1>7, <4>1, <4>4
          <5> QED  BY <1>1, <4>2, <4>3, <5>1
        <4>5. CASE L[j + 1].b # x.b
          BY <1>7, <4>1, <4>2, <4>5
        <4> QED  BY <4>4, <4>5
      <3> QED  BY <3>1, <3>2
    <2>4. InodeOn(r, M[m]) = 0
      <3>1. m \in 1 .. m /\ e[m] = n
        BY <1>0, <1>3, <1>4
      <3> QED  BY <1>8, <3>1, ChainParts
    <2>5. m \in Nat \ {0}
      BY <1>0
    <2> QED  BY <1>10, <1>11, <2>1, <2>2, <2>3, <2>4, <2>5 DEF IsChain
  <1>13. Shrunk(s, r, a, n, L, k, m, M)
    <2>1. e \in [1 .. m -> 1 .. n]
      BY <1>3, <1>8
    <2>2. ASSUME NEW i \in 1 .. m, NEW j \in 1 .. m, i # j PROVE e[i] # e[j]
      BY <1>0, <1>3, <2>2
    <2>3. ASSUME NEW i \in 1 .. n, i # k PROVE \E j \in 1 .. m : e[j] = i
      <3>1. CASE i < k
        <4>1. i \in 1 .. m
          BY <1>0, <1>4, <3>1
        <4> QED  BY <1>3, <3>1, <4>1
      <3>2. CASE i > k
        <4>1. i - 1 \in 1 .. m /\ ~(i - 1 < k) /\ (i - 1) + 1 = i
          BY <1>0, <1>4, <3>2
        <4> QED  BY <1>3, <4>1
      <3> QED  BY <1>0, <2>3, <3>1, <3>2
    <2>4. \A j \in 1 .. m : e[j] # k /\ Alike(s, L[e[j]], r, M[j])
      BY <1>8, <1>9
    <2> QED  BY <1>12, <2>1, <2>2, <2>3, <2>4, FewerRows
  <1>14. BlocksIn(m, M) = BlocksIn(n, L)
    <2>1. ASSUME NEW j \in 1 .. m PROVE M[j].b \in BlocksIn(n, L)
      BY <1>0, <1>6, <1>7 DEF BlocksIn
    <2>2. ASSUME NEW j \in 1 .. n PROVE L[j].b \in BlocksIn(m, M)
      <3>1. CASE j < k
        <4>1. j \in 1 .. m
          BY <1>0, <1>4, <3>1
        <4> QED  BY <1>6, <3>1, <4>1 DEF BlocksIn
      <3>2. CASE j = k
        <4>1. k \in 1 .. m /\ k >= k
          BY <1>0
        <4>2. M[k].b = L[k + 1].b
          BY <1>7, <4>1
        <4> QED  BY <1>4, <1>5, <3>2, <4>1, <4>2 DEF BlocksIn
      <3>3. CASE j > k
        <4>1. j - 1 \in 1 .. m /\ j - 1 >= k /\ (j - 1) + 1 = j
          BY <1>0, <1>4, <3>3
        <4>2. M[j - 1].b = L[j].b
          BY <1>7, <4>1
        <4> QED  BY <4>1, <4>2 DEF BlocksIn
      <3> QED  BY <1>0, <3>1, <3>2, <3>3
    <2> QED  BY <2>1, <2>2 DEF BlocksIn
  <1>15. \E q \in Nat : \E N : Shrunk(s, r, a, n, L, k, q, N) /\ BlocksIn(q, N) = BlocksIn(n, L)
    BY <1>0, <1>13, <1>14
  <1> QED  BY <1>2, <1>15 DEF r, x, rec

Unlinked(s, y, v) ==
    [s EXCEPT ![y.b] = [s[y.b] EXCEPT ![y.o]     = Num(InodeOn(s, v)),
                                      ![y.o + 1] = [@ EXCEPT !.type = MetaOn(s, v).type]]]

\* Deletion of a table's only entry: the record that led to the table takes the
\* inode and the type of the entry behind it.
LEMMA UnlinkWords ==
    ASSUME NEW s \in Disk, NEW y \in Place, NEW v \in Place, NEW r, r = Unlinked(s, y, v)
    PROVE  /\ r \in Disk
           /\ InodeOn(r, y) = InodeOn(s, v) /\ MetaOn(r, y).type = MetaOn(s, v).type
           /\ \A z \in Place : z.b # y.b \/ z.o + 1 < y.o => SameWords(s, r, z)
  <1> DEFINE t == s[y.b]
             c == [t[y.o + 1] EXCEPT !.type = MetaOn(s, v).type]
             i == Num(InodeOn(s, v))
             u == [t EXCEPT ![y.o] = i, ![y.o + 1] = c]
  <1>0. y.b \in Blk /\ y.o \in Nat /\ y.o \in Word /\ y.o + 1 \in Word /\ y.o # y.o + 1
    BY Places
  <1>1. t \in [Word -> Cell] /\ t[y.o + 1] \in Cell
    BY <1>0 DEF Disk
  <1>2. i \in Cell /\ i.inode = InodeOn(s, v)
    <2>1. InodeOn(s, v) \in 0 .. Junk
      BY Cells
    <2>2. "none" \in CellType /\ NoName \in CellName /\ 0 \in Nat
      BY DEF CellType, CellName, NoName
    <2> QED  BY <2>1, <2>2 DEF Num, Cell
  <1>3. c \in Cell /\ c.type = MetaOn(s, v).type
    <2>1. MetaOn(s, v).type \in CellType
      BY Cells
    <2> HIDE DEF t
    <2> QED  BY <1>1, <2>1 DEF Cell
  <1>4. [t EXCEPT ![y.o] = i, ![y.o + 1] = [@ EXCEPT !.type = MetaOn(s, v).type]] = u
    <2>1. [t EXCEPT ![y.o] = i][y.o + 1] = t[y.o + 1]
      BY <1>0, <1>1
    <2> HIDE DEF t, i
    <2> QED  BY <2>1
  <1>5. r = [s EXCEPT ![y.b] = u]
    BY <1>4 DEF Unlinked
  <1> HIDE DEF t, u, c, i
  <1>6. r[y.b] = u /\ \A b \in Blk : b # y.b => r[b] = s[b]
    BY <1>0, <1>5 DEF Disk
  <1>7. /\ u \in [Word -> Cell] /\ u[y.o] = i /\ u[y.o + 1] = c
        /\ \A w \in Word : w # y.o /\ w # y.o + 1 => u[w] = t[w]
    BY <1>0, <1>1, <1>2, <1>3 DEF u
  <1>8. r \in Disk
    BY <1>5, <1>7 DEF Disk
  <1>9. InodeOn(r, y) = InodeOn(s, v) /\ MetaOn(r, y).type = MetaOn(s, v).type
    <2>1. InodeOn(r, y) = i.inode /\ MetaOn(r, y) = c
      BY <1>6, <1>7 DEF InodeOn, MetaOn
    <2> QED  BY <1>2, <1>3, <2>1
  <1>10. ASSUME NEW z \in Place, z.b # y.b \/ z.o + 1 < y.o PROVE SameWords(s, r, z)
    <2>1. z.b \in Blk /\ z.o \in Nat /\ z.o \in Word /\ z.o + 1 \in Word
      BY Places
    <2>2. CASE z.b # y.b
      BY <1>6, <2>1, <2>2 DEF SameWords, InodeOn, MetaOn
    <2>3. CASE z.b = y.b
      <3>1. z.o # y.o /\ z.o # y.o + 1 /\ z.o + 1 # y.o /\ z.o + 1 # y.o + 1
        BY <1>0, <1>10, <2>1, <2>3
      <3>2. u[z.o] = t[z.o] /\ u[z.o + 1] = t[z.o + 1]
        BY <1>7, <2>1, <3>1
      <3> QED  BY <1>6, <2>3, <3>2 DEF SameWords, InodeOn, MetaOn, t
    <2> QED  BY <2>2, <2>3
  <1> QED  BY <1>8, <1>9, <1>10

\* The entry is its table's only one: the table leaves the chain.
LEMMA UnlinkChain ==
    ASSUME NEW s \in Disk, NEW a, NEW n, NEW L, IsChain(s, a, n, L), a.o # 0,
           NEW k \in 1 .. n - 1, IsRow(s, L[k]), L[k].o = 0, ~IsEntry(s, L[k + 1])
    PROVE  LET r == Unlinked(s, L[k - 1], L[k + 1])
           IN  /\ r \in Disk
               /\ \E m \in Nat : \E M : /\ Shrunk(s, r, a, n, L, k, m, M)
                                        /\ BlocksIn(m, M) = BlocksIn(n, L) \ {L[k].b}
  <1> DEFINE x == L[k]
             y == L[k - 1]
             v == L[k + 1]
             r == Unlinked(s, y, v)
             m == n - 2
             e == [j \in 1 .. n - 2 |-> IF j < k THEN j ELSE j + 2]
             M == [j \in 1 .. n - 2 |-> IF j < k THEN L[j] ELSE L[j + 2]]
  <1>0. /\ k \in 1 .. n /\ k + 1 \in 1 .. n /\ k - 1 \in 1 .. n /\ k >= 2 /\ n >= 3 /\ n \in Nat
        /\ k \in Nat /\ m \in Nat /\ m >= 1 /\ k <= m + 1 /\ k - 1 < k
        /\ x \in Place /\ y \in Place /\ v \in Place
        /\ IsLink(s, y, x) /\ InodeOn(s, y) = x.b
    <2>1. n \in Nat /\ n >= 1
      BY ChainParts
    <2>2. k \in 1 .. n /\ k + 1 \in 1 .. n
      BY <2>1
    <2>3. /\ k - 1 \in 1 .. n /\ k >= 2
          /\ IsLink(s, y, x) /\ InodeOn(s, y) = x.b
      BY <2>2, ChainLinks
    <2>4. n >= 3 /\ k \in Nat /\ m \in Nat /\ m >= 1 /\ k <= m + 1 /\ k - 1 < k
      BY <2>1, <2>2, <2>3
    <2>5. x \in Place /\ y \in Place /\ v \in Place
      BY <2>2, <2>3, ChainParts
    <2> QED  BY <2>1, <2>2, <2>3, <2>4, <2>5
  <1>1. /\ r \in Disk
        /\ InodeOn(r, y) = InodeOn(s, v) /\ MetaOn(r, y).type = MetaOn(s, v).type
        /\ \A z \in Place : z.b # y.b \/ z.o + 1 < y.o => SameWords(s, r, z)
    <2> HIDE DEF x, y, v
    <2> QED  BY <1>0, UnlinkWords
  <1>2. /\ \A j \in 1 .. m : e[j] = IF j < k THEN j ELSE j + 2
        /\ \A j \in 1 .. m : M[j] = L[e[j]]
        /\ M = [j \in 1 .. m |-> M[j]] /\ e = [j \in 1 .. m |-> e[j]]
    OBVIOUS
  <1>3. x = L[k] /\ y = L[k - 1] /\ v = L[k + 1] /\ m = n - 2
    OBVIOUS
  <1> HIDE DEF x, y, v, r, m, e, M
  <1>4. IsNext(s, y) /\ IsNext(s, y) = TRUE
    BY <1>0 DEF IsLink, IsNext
  <1>5. v.b = x.b /\ v.o # 0
    <2>1. Leads(s, x, v)
      BY <1>3, ChainParts
    <2>2. v = At(x.b, x.o + MetaOn(s, x).rec)
      BY <1>3, <2>1 DEF Leads, IsLink, IsRow, IsEntry
    <2>3. MetaOn(s, x).rec \in {3, 4} /\ x.o \in Nat
      BY <1>0, <1>3, Numbers, Places DEF IsRow
    <2> QED  BY <2>2, <2>3, Places
  \* the free entry, or the NEXT to the next table
  <1>6. k + 1 # n => IsNext(s, v) /\ IsLink(s, v, L[k + 2]) /\ k + 2 \in 1 .. n
    <2>1. SUFFICES ASSUME k + 1 # n PROVE IsNext(s, v) /\ IsLink(s, v, L[k + 2]) /\ k + 2 \in 1 .. n
      OBVIOUS
    <2>2. k + 1 \in 1 .. n - 1 /\ k + 2 \in 1 .. n /\ (k + 1) + 1 = k + 2
      BY <1>0, <2>1
    <2>3. Leads(s, v, L[k + 2])
      BY <1>3, <2>2, ChainParts
    <2>4. ~IsRow(s, v)
      BY <1>3 DEF IsRow
    <2>5. IsLink(s, v, L[k + 2])
      BY <2>3, <2>4 DEF Leads
    <2> QED  BY <2>2, <2>5 DEF IsLink
  \* nothing else is in the table
  <1>7. ASSUME NEW j \in 1 .. n, j # k, j # k + 1 PROVE L[j].b # x.b
    <2>1. CASE j < k
      <3>1. ASSUME L[j].b = L[k].b PROVE FALSE
        <4>1. L[j].o \in Nat /\ L[j].o + 3 <= L[k].o
          BY <1>0, <2>1, <3>1, ChainRoom
        <4> QED  BY <4>1
      <3> QED  BY <1>3, <3>1
    <2>2. CASE j > k
      <3>1. j > k + 1 /\ k + 1 # n
        BY <1>0, <1>7, <2>2
      <3>2. Before(s, v, L[j])
        BY <1>0, <1>3, <3>1, ChainParts
      <3> QED  BY <1>5, <1>6, <3>1, <3>2 DEF Before
    <2> QED  BY <1>0, <1>7, <2>1, <2>2
  <1>8. ASSUME NEW j \in 1 .. n, j # k - 1, j # k, j # k + 1
        PROVE  L[j] \in Place /\ SameWords(s, r, L[j])
    <2>1. L[j] \in Place
      BY ChainParts
    <2>2. L[j].b # y.b \/ L[j].o + 1 < y.o
      <3>1. CASE j < k - 1
        <4>1. ASSUME L[j].b = L[k - 1].b PROVE L[j].o + 1 < L[k - 1].o
          <5>1. L[j].o \in Nat /\ L[k - 1].o \in Nat /\ L[j].o + 3 <= L[k - 1].o
            BY <1>0, <3>1, <4>1, ChainRoom
          <5> QED  BY <5>1
        <4> QED  BY <1>3, <4>1
      <3>2. CASE j > k - 1
        <4>1. Before(s, y, L[j])
          BY <1>0, <1>3, <3>2, ChainParts
        <4> QED  BY <1>4, <4>1 DEF Before
      <3> QED  BY <1>0, <1>8, <3>1, <3>2
    <2> QED  BY <1>1, <2>1, <2>2
  <1>9. ASSUME NEW j \in 1 .. m
        PROVE  /\ e[j] \in 1 .. n /\ e[j] # k /\ e[j] # k + 1 /\ M[j] = L[e[j]] /\ M[j] \in Place
               /\ e[j] = k - 1 <=> j = k - 1
               /\ j # k - 1 => SameWords(s, r, M[j])
    <2>1. e[j] \in 1 .. n /\ e[j] # k /\ e[j] # k + 1 /\ (e[j] = k - 1 <=> j = k - 1)
      <3>1. CASE j < k
        <4>1. e[j] = j
          BY <1>2, <3>1
        <4> QED  BY <1>0, <1>3, <3>1, <4>1
      <3>2. CASE ~(j < k)
        <4>1. e[j] = j + 2
          BY <1>2, <3>2
        <4> QED  BY <1>0, <1>3, <3>2, <4>1
      <3> QED  BY <3>1, <3>2
    <2>2. M[j] = L[e[j]] /\ M[j] \in Place
      BY <1>2, <2>1, ChainParts
    <2> QED  BY <1>8, <2>1, <2>2
  <1>10. ~IsEntry(r, y) /\ ~IsEntry(s, y)
    <2>1. MetaOn(s, v).type = "NEXT" \/ InodeOn(s, v) = 0
      BY <1>3 DEF IsEntry, IsNext
    <2> QED  BY <1>1, <1>4, <2>1 DEF IsEntry, IsNext
  <1>11. k - 1 \in 1 .. m /\ M[k - 1] = y
    <2>1. k - 1 \in 1 .. m
      BY <1>0
    <2>2. e[k - 1] = k - 1
      BY <1>0, <1>2, <2>1
    <2> QED  BY <1>3, <1>9, <2>1, <2>2
  <1>12. ASSUME NEW j \in 1 .. m - 1 PROVE Leads(r, M[j], M[j + 1])
    <2>0. j \in 1 .. m /\ j + 1 \in 1 .. m
      BY <1>0
    <2>1. CASE j = k - 1
      <3>1. j + 1 = k /\ k + 1 # n /\ e[k] = k + 2
        BY <1>0, <1>2, <1>3, <2>0, <2>1
      <3>2. M[j + 1] = L[k + 2] /\ SameWords(s, r, L[k + 2])
        BY <1>0, <1>9, <2>0, <3>1
      <3>3. IsNext(s, v) /\ IsLink(s, v, L[k + 2])
        BY <1>6, <3>1
      <3>4. IsEntry(r, L[k + 2]) = IsEntry(s, L[k + 2])
        BY <3>2, SameWordsSame
      <3>5. IsLink(r, y, L[k + 2])
        BY <1>1, <3>3, <3>4 DEF IsLink, IsNext
      <3> QED  BY <1>11, <2>1, <3>2, <3>5 DEF Leads
    <2>2. CASE j # k - 1
      <3>1. e[j + 1] = e[j] + 1 /\ e[j] \in 1 .. n - 1
        <4>0. m = n - 2 /\ j <= m - 1 /\ j >= 1
          BY <1>0, <1>3
        <4>1. CASE j < k
          <5>1. j + 1 < k
            BY <1>0, <2>2, <4>1
          <5>2. e[j] = j /\ e[j + 1] = j + 1
            BY <1>2, <2>0, <4>1, <5>1
          <5> QED  BY <1>0, <4>0, <5>2
        <4>2. CASE ~(j < k)
          <5>1. ~(j + 1 < k)
            BY <1>0, <4>2
          <5>2. e[j] = j + 2 /\ e[j + 1] = (j + 1) + 2
            BY <1>2, <2>0, <4>2, <5>1
          <5> QED  BY <1>0, <4>0, <5>2
        <4> QED  BY <4>1, <4>2
      <3>2. Leads(s, M[j], M[j + 1])
        BY <1>9, <2>0, <3>1, ChainParts
      <3>3. SameWords(s, r, M[j])
        BY <1>9, <2>0, <2>2
      <3>4. CASE j + 1 # k - 1
        <4>1. SameWords(s, r, M[j + 1])
          BY <1>9, <2>0, <3>4
        <4> QED  BY <3>2, <3>3, <4>1, SameWordsSame
      <3>5. CASE j + 1 = k - 1
        <4>1. ~IsLink(s, M[j], M[j + 1])
          BY <1>10, <1>11, <3>5 DEF IsLink
        <4>2. IsRow(r, M[j]) = IsRow(s, M[j])
          BY <3>3, SameWordsSame
        <4> QED  BY <3>2, <3>3, <4>1, <4>2 DEF Leads, SameWords
      <3> QED  BY <3>4, <3>5
    <2> QED  BY <2>1, <2>2
  <1>13. ASSUME NEW i \in 1 .. m, NEW j \in 1 .. m, i < j PROVE Before(r, M[i], M[j])
    <2>1. e[i] < e[j]
      BY <1>0, <1>2, <1>13
    <2>2. Before(s, M[i], M[j])
      BY <1>9, <2>1, ChainParts
    <2>3. CASE i = k - 1
      <3>1. M[i].b # M[j].b
        BY <1>4, <1>11, <2>2, <2>3 DEF Before
      <3> QED  BY <3>1 DEF Before
    <2>4. CASE i # k - 1
      <3>1. SameWords(s, r, M[i])
        BY <1>9, <2>4
      <3> QED  BY <2>2, <3>1, SameWordsSame
    <2> QED  BY <2>3, <2>4
  <1>14. IsChain(r, a, m, M)
    <2>1. M \in [1 .. m -> Place]
      BY <1>2, <1>9
    <2>2. M[1] = a
      <3>1. 1 \in 1 .. m /\ e[1] = 1
        BY <1>0, <1>2
      <3> QED  BY <1>9, <3>1, ChainParts
    <2>3. \A j \in 1 .. m : M[j].o <= SpaceTotal
      BY <1>9, ChainParts
    <2>4. InodeOn(r, M[m]) = 0
      <3>1. InodeOn(s, L[n]) = 0
        BY ChainParts
      <3>2. CASE k + 1 = n
        <4>1. m = k - 1
          BY <1>0, <1>3, <3>2
        <4> QED  BY <1>1, <1>3, <1>11, <3>1, <3>2, <4>1
      <3>3. CASE k + 1 # n
        <4>0. m = n - 2 /\ m \in 1 .. m /\ k + 1 < n /\ ~(m < k) /\ m # k - 1 /\ m + 2 = n
          <5>1. m = n - 2 /\ m \in 1 .. m
            BY <1>0, <1>3
          <5>2. k + 1 < n
            BY <1>0, <3>3, <1>6
          <5> QED  BY <1>0, <5>1, <5>2
        <4>1. m \in 1 .. m /\ e[m] = n /\ m # k - 1
          <5>1. e[m] = m + 2
            BY <1>2, <4>0
          <5> QED  BY <4>0, <5>1
        <4>2. SameWords(s, r, L[n])
          BY <1>9, <4>1
        <4> QED  BY <1>9, <3>1, <4>1, <4>2 DEF SameWords
      <3> QED  BY <3>2, <3>3
    <2>5. m \in Nat \ {0}
      BY <1>0
    <2> QED  BY <1>12, <1>13, <2>1, <2>2, <2>3, <2>4, <2>5 DEF IsChain
  <1>15. Shrunk(s, r, a, n, L, k, m, M)
    <2>1. e \in [1 .. m -> 1 .. n]
      BY <1>2, <1>9
    <2>2. ASSUME NEW i \in 1 .. m, NEW j \in 1 .. m, i # j PROVE e[i] # e[j]
      BY <1>0, <1>2, <2>2
    <2>3. ASSUME NEW i \in 1 .. n, i # k, IsEntry(s, L[i]) PROVE \E j \in 1 .. m : e[j] = i
      <3>0. i # k + 1
        BY <2>3
      <3>1. CASE i < k
        <4>1. i \in 1 .. m
          BY <1>0, <3>1
        <4> QED  BY <1>2, <3>1, <4>1
      <3>2. CASE i > k
        <4>1. i - 2 \in 1 .. m /\ ~(i - 2 < k) /\ (i - 2) + 2 = i
          BY <1>0, <1>3, <3>0, <3>2
        <4> QED  BY <1>2, <4>1
      <3> QED  BY <1>0, <2>3, <3>1, <3>2
    <2>4. ASSUME NEW j \in 1 .. m PROVE e[j] # k /\ Alike(s, L[e[j]], r, M[j])
      <3>1. CASE j = k - 1
        <4>1. e[j] = k - 1 /\ e[j] # k /\ M[j] = y
          BY <1>9, <1>11, <3>1
        <4>2. L[e[j]] = y
          BY <1>3, <4>1
        <4>3. IsEntry(r, y) = FALSE /\ IsEntry(s, y) = FALSE
          BY <1>10 DEF IsEntry
        <4>4. Alike(s, y, r, y)
          BY <4>3 DEF Alike
        <4> QED  BY <4>1, <4>2, <4>4
      <3>2. CASE j # k - 1
        <4>1. SameWords(s, r, L[e[j]]) /\ M[j] = L[e[j]] /\ e[j] # k
          BY <1>9, <3>2
        <4> QED  BY <4>1, SameWordsSame DEF Alike, SameWords
      <3> QED  BY <3>1, <3>2
    <2>5. \A i \in 1 .. n : i # k /\ IsEntry(s, L[i]) => \E j \in 1 .. m : e[j] = i
      BY <2>3
    <2>6. \A i, j \in 1 .. m : i # j => e[i] # e[j]
      BY <2>2
    <2>7. \A j \in 1 .. m : e[j] # k /\ Alike(s, L[e[j]], r, M[j])
      BY <2>4
    <2> QED  BY ONLY <1>14, <2>1, <2>5, <2>6, <2>7, FewerRows
  <1>16. BlocksIn(m, M) = BlocksIn(n, L) \ {x.b}
    <2>1. ASSUME NEW j \in 1 .. m PROVE M[j].b \in BlocksIn(n, L) /\ M[j].b # x.b
      BY <1>7, <1>9 DEF BlocksIn
    <2>2. ASSUME NEW j \in 1 .. n, L[j].b # x.b PROVE L[j].b \in BlocksIn(m, M)
      <3>0. j # k /\ j # k + 1
        BY <1>3, <1>5, <2>2
      <3>1. CASE j < k
        <4>1. j \in 1 .. m /\ e[j] = j
          BY <1>0, <1>2, <3>1
        <4> QED  BY <1>9, <4>1 DEF BlocksIn
      <3>2. CASE j > k
        <4>1. j - 2 \in 1 .. m /\ ~(j - 2 < k) /\ (j - 2) + 2 = j
          BY <1>0, <1>3, <3>0, <3>2
        <4>2. e[j - 2] = j
          BY <1>2, <4>1
        <4> QED  BY <1>9, <4>1, <4>2 DEF BlocksIn
      <3> QED  BY <1>0, <3>0, <3>1, <3>2
    <2> QED  BY <2>1, <2>2 DEF BlocksIn
  <1>17. \E q \in Nat : \E N : Shrunk(s, r, a, n, L, k, q, N) /\ BlocksIn(q, N) = BlocksIn(n, L) \ {x.b}
    BY <1>0, <1>15, <1>16
  <1> QED  BY <1>1, <1>17 DEF r, x, y, v


(***************************************************************************)
(* The same, of what a loop visits from place a of disk s, one entry x     *)
(* perhaps left out; Nowhere when it is none.                              *)
(***************************************************************************)

Nowhere == At(0, 0)

LeftOf(s, a, x) == {Row(s, y) : y \in {y \in Walk(s, a) : y # x /\ IsEntry(s, y)}}
Blocks(s, a)    == {y.b : y \in Walk(s, a)}
Apart(s, a, x)  == \A y, z \in Walk(s, a) : y # z /\ y # x /\ z # x => Differ(s, y, z)
Sound(s, a, x)  == (\E n : \E L : IsChain(s, a, n, L)) /\ Apart(s, a, x)

\* Nothing, or a place that is not the free one.
LeavesOut(s, a, x) == x \notin Place \/ (x \in Walk(s, a) /\ InodeOn(s, x) # 0)

Indexed(s, a, x, n, L, k) ==
    /\ IsChain(s, a, n, L) /\ k \in 0 .. n - 1 /\ (k # 0 => k \in 1 .. n /\ x = L[k])
    /\ Walk(s, a) = PlacesIn(n, L)
    /\ LeftOf(s, a, x) = RowsBut(s, n, L, k)
    /\ Blocks(s, a) = BlocksIn(n, L)
    /\ Apart(s, a, x) <=> DistinctBut(s, n, L, k)

\* The place that stands for leaving out none is none of the disk.
LEMMA NowhereIsNoPlace == Nowhere \notin Place
  <1>1. Nowhere.b = 0 /\ 0 \notin Blk
    BY Places DEF Nowhere, Blk
  <1> QED  BY <1>1, Places

\* A place of a chain is left out by its index, 0 when none is.
LEMMA ByIndex ==
    ASSUME NEW s, NEW a, NEW x, NEW n, NEW L, IsChain(s, a, n, L),
           NEW k \in 0 .. n - 1, k = 0 => x \notin Place, k # 0 => x = L[k]
    PROVE  Indexed(s, a, x, n, L, k)
  <1>1. /\ n \in Nat /\ n >= 1 /\ Walk(s, a) = PlacesIn(n, L)
        /\ \A j \in 1 .. n : L[j] \in Place
        /\ \A i, j \in 1 .. n : L[i] = L[j] => i = j
    BY ChainParts, ChainIsWalked, ChainEntries
  <1>2. k # 0 => k \in 1 .. n /\ x = L[k]
    BY <1>1
  <1>3. \A j \in 1 .. n : L[j] # x <=> j # k
    <2>1. CASE k = 0
      BY <1>1, <2>1
    <2>2. CASE k # 0
      BY <1>1, <1>2, <2>2
    <2> QED  BY <2>1, <2>2
  <1>4. LeftOf(s, a, x) = RowsBut(s, n, L, k)
    BY <1>1, <1>3 DEF LeftOf, RowsBut, PlacesIn
  <1>5. Blocks(s, a) = BlocksIn(n, L)
    BY <1>1 DEF Blocks, BlocksIn, PlacesIn
  <1>6. Apart(s, a, x) <=> DistinctBut(s, n, L, k)
    <2>1. ASSUME Apart(s, a, x), NEW i \in 1 .. n, NEW j \in 1 .. n, i # j, i # k, j # k
          PROVE  Differ(s, L[i], L[j])
      <3>1. L[i] \in Walk(s, a) /\ L[j] \in Walk(s, a) /\ L[i] # L[j] /\ L[i] # x /\ L[j] # x
        BY <1>1, <1>3, <2>1 DEF PlacesIn
      <3> QED  BY <2>1, <3>1 DEF Apart
    <2>2. ASSUME DistinctBut(s, n, L, k), NEW y \in Walk(s, a), NEW z \in Walk(s, a),
                 y # z, y # x, z # x
          PROVE  Differ(s, y, z)
      <3>1. PICK i \in 1 .. n, j \in 1 .. n : y = L[i] /\ z = L[j]
        BY <1>1 DEF PlacesIn
      <3>2. i # j /\ i # k /\ j # k
        BY <1>3, <2>2, <3>1
      <3> QED  BY <2>2, <3>1, <3>2 DEF DistinctBut
    <2> QED  BY <2>1, <2>2 DEF Apart, DistinctBut
  <1> QED  BY <1>1, <1>2, <1>4, <1>5, <1>6 DEF Indexed

\* A sound directory has a chain in which the place left out has an index.
LEMMA SoundIsIndexed ==
    ASSUME NEW s, NEW a, NEW x, Sound(s, a, x), LeavesOut(s, a, x)
    PROVE  \E n : \E L : \E k : Indexed(s, a, x, n, L, k) /\ DistinctBut(s, n, L, k)
                                /\ (k = 0 <=> x \notin Place)
  <1>1. PICK n, L : IsChain(s, a, n, L)
    BY DEF Sound
  <1>2. n \in Nat /\ n >= 1 /\ \A j \in 1 .. n : L[j] \in Place
    BY <1>1, ChainParts
  <1>3. CASE x \notin Place
    <2>1. Indexed(s, a, x, n, L, 0)
      BY <1>1, <1>2, <1>3, ByIndex
    <2> QED  BY <1>3, <2>1 DEF Indexed, Sound
  <1>4. CASE x \in Place
    <2>1. x \in PlacesIn(n, L) /\ InodeOn(s, x) # 0
      BY <1>1, <1>4, ChainIsWalked DEF LeavesOut
    <2>2. PICK k \in 1 .. n : x = L[k]
      BY <2>1 DEF PlacesIn
    <2>3. k # n
      BY <1>1, <2>1, <2>2, ChainParts
    <2>4. k \in 0 .. n - 1 /\ k # 0
      BY <1>2, <2>3
    <2>5. Indexed(s, a, x, n, L, k)
      BY <1>1, <2>2, <2>4, ByIndex
    <2> QED  BY <1>4, <2>4, <2>5 DEF Indexed, Sound
  <1> QED  BY <1>3, <1>4

\* Where a directory's entries start nothing in the table is before them.
LEMMA WalkStarts ==
    ASSUME NEW s, NEW a, NEW x, Sound(s, a, x)
    PROVE  /\ a \in Walk(s, a) /\ a.b \in Blocks(s, a) /\ Walk(s, a) \subseteq Place
           /\ \A y \in Walk(s, a) : y.b \in Blocks(s, a) /\ (y.b = a.b => y.o >= a.o)
           /\ \A y \in Walk(s, a) : y.o <= SpaceTotal /\ y.o \in Nat /\ y.b \in Blk
           /\ \A y \in Walk(s, a) : IsEntry(s, y) => IsRow(s, y)
           /\ \E e \in Walk(s, a) : InodeOn(s, e) = 0
           /\ \A y, z \in Walk(s, a) : InodeOn(s, y) = 0 /\ InodeOn(s, z) = 0 => y = z
  <1>1. PICK n, L : IsChain(s, a, n, L)
    BY DEF Sound
  <1>2. /\ n \in Nat /\ n >= 1 /\ L[1] = a /\ Walk(s, a) = PlacesIn(n, L)
        /\ \A j \in 1 .. n : L[j] \in Place /\ L[j].o <= SpaceTotal
    BY <1>1, ChainParts, ChainIsWalked
  <1>3. a \in Walk(s, a) /\ Walk(s, a) \subseteq Place
        /\ \A y \in Walk(s, a) : y.o <= SpaceTotal /\ y.o \in Nat /\ y.b \in Blk
    BY <1>2, Places DEF PlacesIn
  <1>4. \A y \in Walk(s, a) : y.b \in Blocks(s, a)
    BY DEF Blocks
  <1>5. ASSUME NEW j \in 1 .. n, L[j].b = a.b PROVE L[j].o >= a.o
    <2>1. CASE j = 1
      BY <1>2, <1>3, <2>1
    <2>2. CASE j # 1
      <3>1. 1 \in 1 .. n /\ 1 < j
        BY <1>2, <2>2
      <3>2. L[1].o \in Nat /\ L[j].o \in Nat /\ L[1].o + 3 <= L[j].o
        BY <1>1, <1>2, <1>5, <3>1, ChainRoom
      <3> QED  BY <1>2, <3>2
    <2> QED  BY <2>1, <2>2
  <1>6. \A y \in Walk(s, a) : y.b = a.b => y.o >= a.o
    BY <1>2, <1>5 DEF PlacesIn
  <1>7. \A y \in Walk(s, a) : IsEntry(s, y) => IsRow(s, y)
    BY <1>1, <1>2, ChainEntries DEF PlacesIn
  <1>8. /\ \E e \in Walk(s, a) : InodeOn(s, e) = 0
        /\ \A y, z \in Walk(s, a) : InodeOn(s, y) = 0 /\ InodeOn(s, z) = 0 => y = z
    BY <1>1, <1>2, ChainEnd
  <1> QED  BY <1>3, <1>4, <1>6, <1>7, <1>8

\* A table is what its words are, "." and ".." left out.
LEMMA SameTable ==
    ASSUME NEW s, NEW r, NEW a, NEW x, Sound(s, a, x), LeavesOut(s, a, x),
           \A b \in Blocks(s, a) : b # a.b => r[b] = s[b],
           \A w \in Word : w >= a.o => r[a.b][w] = s[a.b][w]
    PROVE  /\ Sound(r, a, x) /\ Walk(r, a) = Walk(s, a) /\ LeftOf(r, a, x) = LeftOf(s, a, x)
           /\ Blocks(r, a) = Blocks(s, a)
           /\ \A y \in Walk(s, a) : SameWords(s, r, y)
  <1>1. ASSUME NEW y \in Walk(s, a) PROVE SameWords(s, r, y)
    <2>1. y \in Place /\ y.b \in Blocks(s, a) /\ (y.b = a.b => y.o >= a.o)
      BY WalkStarts
    <2>2. y.o \in Word /\ y.o + 1 \in Word /\ y.o \in Nat /\ a.o \in Nat
      BY <2>1, WalkStarts, Places
    <2>3. CASE y.b # a.b
      BY <2>1, <2>3 DEF SameWords, InodeOn, MetaOn
    <2>4. CASE y.b = a.b
      <3>1. y.o >= a.o /\ y.o + 1 >= a.o
        BY <2>1, <2>2, <2>4
      <3>2. r[a.b][y.o] = s[a.b][y.o] /\ r[a.b][y.o + 1] = s[a.b][y.o + 1]
        BY <2>2, <3>1
      <3> QED  BY <2>4, <3>2 DEF SameWords, InodeOn, MetaOn
    <2> QED  BY <2>3, <2>4
  <1>2. PICK n, L : IsChain(s, a, n, L)
    BY DEF Sound
  <1>3. Walk(s, a) = PlacesIn(n, L)
    BY <1>2, ChainIsWalked
  <1>4. \A k \in 1 .. n : SameWords(s, r, L[k])
    BY <1>1, <1>3 DEF PlacesIn
  <1>5. IsChain(r, a, n, L)
    BY <1>2, <1>4, ChainUntouched
  <1>6. Walk(r, a) = Walk(s, a)
    BY <1>3, <1>5, ChainIsWalked
  <1>7. \A y \in Walk(s, a) : IsEntry(r, y) = IsEntry(s, y) /\ Row(r, y) = Row(s, y)
                              /\ InodeOn(r, y) = InodeOn(s, y)
    BY <1>1, SameWordsSame DEF SameWords
  <1>8. LeftOf(r, a, x) = LeftOf(s, a, x)
    BY <1>6, <1>7 DEF LeftOf
  <1>9. Apart(r, a, x)
    BY <1>6, <1>7 DEF Apart, Differ, Sound
  <1> QED  BY <1>1, <1>5, <1>6, <1>8, <1>9 DEF Sound, Blocks


(***************************************************************************)
(* What write does to a directory's tables.                                *)
(***************************************************************************)

\* Entry row has joined the ones of s, in blocks B.
Joined(s, r, a, x, row, B) ==
    /\ Sound(r, a, x) /\ LeftOf(r, a, x) = LeftOf(s, a, x) \cup {row} /\ Blocks(r, a) = B
    /\ \A y \in Walk(s, a) : InodeOn(s, y) # 0 => y \in Walk(r, a) /\ SameWords(s, r, y)

\* An insertion into the chain is an insertion into the set of rows.
LEMMA GrownIsJoined ==
    ASSUME NEW s, NEW r, NEW a, NEW x, NEW n, NEW L, NEW k,
           Indexed(s, a, x, n, L, k), DistinctBut(s, n, L, k), k = 0 <=> x \notin Place,
           NEW m \in Nat, NEW z \in Nat, NEW M, NEW row, Grown(s, r, a, n, L, m, M, z, row),
           NEW B, B = BlocksIn(m, M), \A e \in LeftOf(s, a, x) : e[3] # row[3]
    PROVE  Joined(s, r, a, x, row, B)
  <1>1. /\ IsChain(s, a, n, L) /\ k \in 0 .. n - 1 /\ (k # 0 => k \in 1 .. n /\ x = L[k])
        /\ Walk(s, a) = PlacesIn(n, L) /\ LeftOf(s, a, x) = RowsBut(s, n, L, k)
    BY DEF Indexed
  <1>2. n \in Nat /\ n >= 1 /\ InodeOn(s, L[n]) = 0
    BY <1>1, ChainParts
  <1>3. /\ IsChain(r, a, m, M) /\ n <= z /\ z < m
        /\ \A j \in 1 .. n - 1 : M[j] = L[j] /\ SameWords(s, r, L[j])
    BY DEF Grown
  <1>4. k \in 0 .. m - 1
    BY <1>1, <1>2, <1>3
  <1>5. k # 0 => x = M[k]
    <2>1. k # 0 => k \in 1 .. n - 1
      BY <1>1, <1>2
    <2> QED  BY <1>1, <1>3, <2>1
  <1>6. Indexed(r, a, x, m, M, k)
    BY <1>3, <1>4, <1>5, ByIndex
  <1>7. /\ RowsBut(r, m, M, k) = RowsBut(s, n, L, k) \cup {row}
        /\ DistinctBut(r, m, M, k)
    BY <1>1, GrownRows
  <1>8. /\ LeftOf(r, a, x) = LeftOf(s, a, x) \cup {row}
        /\ Apart(r, a, x) /\ Blocks(r, a) = BlocksIn(m, M) /\ Walk(r, a) = PlacesIn(m, M)
    BY <1>1, <1>6, <1>7 DEF Indexed
  <1>9. ASSUME NEW y \in Walk(s, a), InodeOn(s, y) # 0
        PROVE  y \in Walk(r, a) /\ SameWords(s, r, y)
    <2>1. PICK j \in 1 .. n : y = L[j]
      BY <1>1 DEF PlacesIn
    <2>2. j \in 1 .. n - 1 /\ j \in 1 .. m
      BY <1>2, <1>3, <1>9, <2>1
    <2>3. y = M[j] /\ SameWords(s, r, y)
      BY <1>3, <2>1, <2>2
    <2> QED  BY <1>8, <2>2, <2>3 DEF PlacesIn
  <1>10. Sound(r, a, x)
    BY <1>3, <1>8 DEF Sound
  <1> QED  BY <1>8, <1>9, <1>10 DEF Joined

\* A directory with room: the row joins, the blocks stay.
LEMMA Appended ==
    ASSUME NEW s \in Disk, NEW a, NEW x, Sound(s, a, x), LeavesOut(s, a, x),
           NEW e \in Walk(s, a), InodeOn(s, e) = 0,
           NEW i \in Inode, NEW type \in {"REG", "DIR"}, NEW nm \in Names,
           e.o + RecLen(nm) <= SpaceTotal, \A g \in LeftOf(s, a, x) : g[3] # i,
           NEW r, r = WithEntry(s, e, i, type, nm)
    PROVE  r \in Disk /\ Joined(s, r, a, x, <<nm, type, i>>, Blocks(s, a))
  <1>1. PICK n, L, k : Indexed(s, a, x, n, L, k) /\ DistinctBut(s, n, L, k)
                       /\ (k = 0 <=> x \notin Place)
    BY SoundIsIndexed
  <1>2. IsChain(s, a, n, L) /\ Walk(s, a) = PlacesIn(n, L) /\ Blocks(s, a) = BlocksIn(n, L)
    BY <1>1 DEF Indexed
  <1>3. e = L[n]
    BY <1>2, ChainEnd
  <1> DEFINE row == <<nm, type, i>>
  <1>4. /\ r \in Disk
        /\ \E m, z \in Nat : \E M : /\ Grown(s, r, a, n, L, m, M, z, row)
                                    /\ BlocksIn(m, M) = BlocksIn(n, L)
    BY <1>2, <1>3, AppendEntry
  <1>5. row[3] = i
    OBVIOUS
  <1> HIDE DEF row
  <1>6. PICK m \in Nat, z \in Nat : \E M : /\ Grown(s, r, a, n, L, m, M, z, row)
                                           /\ BlocksIn(m, M) = BlocksIn(n, L)
    BY <1>4
  <1>7. PICK M : Grown(s, r, a, n, L, m, M, z, row) /\ BlocksIn(m, M) = BlocksIn(n, L)
    BY <1>6
  <1>8. Joined(s, r, a, x, row, Blocks(s, a))
    <2>1. Blocks(s, a) = BlocksIn(m, M)
      BY <1>2, <1>7
    <2> QED  BY <1>1, <1>5, <1>7, <2>1, GrownIsJoined
  <1> QED  BY <1>4, <1>8 DEF row

\* A directory without room: the row joins, and so does the new table's block.
LEMMA Extended ==
    ASSUME NEW s \in Disk, NEW a, NEW x, Sound(s, a, x), LeavesOut(s, a, x),
           NEW e \in Walk(s, a), InodeOn(s, e) = 0, NEW b \in Blk, b \notin Blocks(s, a),
           NEW i \in Inode, NEW type \in {"REG", "DIR"}, NEW nm \in Names,
           \A g \in LeftOf(s, a, x) : g[3] # i, NEW B, B = Blocks(s, a) \cup {b},
           NEW r, r = WithEntry(WithNext(s, e, b), At(b, 0), i, type, nm)
    PROVE  r \in Disk /\ Joined(s, r, a, x, <<nm, type, i>>, B)
  <1>1. PICK n, L, k : Indexed(s, a, x, n, L, k) /\ DistinctBut(s, n, L, k)
                       /\ (k = 0 <=> x \notin Place)
    BY SoundIsIndexed
  <1>2. IsChain(s, a, n, L) /\ Walk(s, a) = PlacesIn(n, L) /\ Blocks(s, a) = BlocksIn(n, L)
    BY <1>1 DEF Indexed
  <1>3. e = L[n] /\ b \notin BlocksIn(n, L)
    BY <1>2, ChainEnd
  <1> DEFINE row == <<nm, type, i>>
  <1>4. /\ r \in Disk
        /\ \E m, z \in Nat : \E M : /\ Grown(s, r, a, n, L, m, M, z, row)
                                    /\ BlocksIn(m, M) = BlocksIn(n, L) \cup {b}
    BY <1>2, <1>3, ExtendChain
  <1>5. row[3] = i
    OBVIOUS
  <1> HIDE DEF row
  <1>6. PICK m \in Nat, z \in Nat : \E M : /\ Grown(s, r, a, n, L, m, M, z, row)
                                           /\ BlocksIn(m, M) = BlocksIn(n, L) \cup {b}
    BY <1>4
  <1>7. PICK M : Grown(s, r, a, n, L, m, M, z, row) /\ BlocksIn(m, M) = BlocksIn(n, L) \cup {b}
    BY <1>6
  <1>8. Joined(s, r, a, x, row, B)
    <2>1. B = BlocksIn(m, M)
      BY <1>2, <1>7
    <2> QED  BY <1>1, <1>5, <1>7, <2>1, GrownIsJoined
  <1> QED  BY <1>4, <1>8 DEF row

\* Insert writes behind the entries, in the last table or in it and a free block.
Inserted(s, e, i, type, n, b) ==
    IF e.o + RecLen(n) <= SpaceTotal THEN WithEntry(s, e, i, type, n)
    ELSE WithEntry(WithNext(s, e, b), At(b, 0), i, type, n)
Claimed(e, n, b) == IF e.o + RecLen(n) <= SpaceTotal THEN {} ELSE {b}

\* An insertion writes the block of the free entry, from that entry on, and the
\* block it claims.
LEMMA InsertedFrame ==
    ASSUME NEW s \in Disk, NEW e \in Place, NEW i, NEW type, NEW n,
           NEW b, e.o + RecLen(n) <= SpaceTotal \/ b # e.b, NEW r, r = Inserted(s, e, i, type, n, b)
    PROVE  /\ \A c \in Blk : c # e.b /\ c \notin Claimed(e, n, b) => r[c] = s[c]
           /\ \A w \in Word : w < e.o => r[e.b][w] = s[e.b][w]
  <1>1. e.b \in Blk /\ e.o \in Nat /\ RecLen(n) \in {3, 4}
    BY Places, Numbers
  <1>2. At(b, 0).b = b /\ At(b, 0).o = 0
    BY Places
  <1>3. ASSUME NEW t, NEW w \in Word, w < e.o PROVE PutEntry(t, e.o, i, type, n)[w] = t[w]
    BY <1>1, <1>3, Numbers DEF PutEntry, Word
  <1>4. ASSUME NEW w \in Word, w < e.o
        PROVE  PutNext(s[e.b], e.o, b)[w] = s[e.b][w]
    <2>1. w # e.o /\ w # e.o + 1 /\ s[e.b] \in [Word -> Cell]
      BY <1>1, <1>4, Numbers DEF Word, Disk
    <2> QED  BY <2>1 DEF PutNext
  <1>5. CASE e.o + RecLen(n) <= SpaceTotal
    <2>1. r = WithEntry(s, e, i, type, n) /\ Claimed(e, n, b) = {}
      BY <1>5 DEF Inserted, Claimed
    <2>2. \A c \in Blk : r[c] = IF c = e.b THEN PutEntry(s[c], e.o, i, type, n) ELSE s[c]
      BY <2>1 DEF WithEntry, Disk
    <2> QED  BY <1>1, <1>3, <2>2
  <1>6. CASE ~(e.o + RecLen(n) <= SpaceTotal)
    <2>1. r = WithEntry(WithNext(s, e, b), At(b, 0), i, type, n) /\ Claimed(e, n, b) = {b}
      BY <1>6 DEF Inserted, Claimed
    <2>2. \A c \in Blk : c # b => r[c] = IF c = e.b THEN PutNext(s[c], e.o, b) ELSE s[c]
      BY <1>2, <2>1 DEF WithEntry, WithNext, Disk
    <2>3. b # e.b
      BY <1>6
    <2> QED  BY <1>1, <1>4, <2>1, <2>2, <2>3
  <1> QED  BY <1>5, <1>6

Inserts(s, a, x, e, i, type, nm, b, r, B) ==
    /\ s \in Disk /\ Sound(s, a, x) /\ LeavesOut(s, a, x) /\ e \in Walk(s, a) /\ InodeOn(s, e) = 0
    /\ i \in Inode /\ type \in {"REG", "DIR"} /\ nm \in Names
    /\ e.o + RecLen(nm) <= SpaceTotal \/ (b \in Blk /\ b \notin Blocks(s, a))
    /\ \A g \in LeftOf(s, a, x) : g[3] # i
    /\ r = Inserted(s, e, i, type, nm, b) /\ B = Blocks(s, a) \cup Claimed(e, nm, b)

\* r is s but in the tables from a on, and in T.
Confined(s, r, a, T) ==
    /\ \A c \in Blk : c \notin Blocks(s, a) /\ c \notin T => r[c] = s[c]
    /\ \A w \in Word : w < a.o => r[a.b][w] = s[a.b][w]

\* Both kinds of insertion at once, with all that a step must know about them.
LEMMA InsertJoins ==
    ASSUME NEW s, NEW a, NEW x, NEW e, NEW i, NEW type, NEW nm, NEW b, NEW r, NEW B,
           Inserts(s, a, x, e, i, type, nm, b, r, B)
    PROVE  /\ r \in Disk
           /\ Joined(s, r, a, x, <<nm, type, i>>, B)
           /\ Confined(s, r, a, Claimed(e, nm, b))
  <1>a. /\ s \in Disk /\ Sound(s, a, x) /\ LeavesOut(s, a, x) /\ e \in Walk(s, a)
        /\ InodeOn(s, e) = 0 /\ i \in Inode /\ type \in {"REG", "DIR"} /\ nm \in Names
        /\ e.o + RecLen(nm) <= SpaceTotal \/ (b \in Blk /\ b \notin Blocks(s, a))
        /\ \A g \in LeftOf(s, a, x) : g[3] # i
        /\ r = Inserted(s, e, i, type, nm, b) /\ B = Blocks(s, a) \cup Claimed(e, nm, b)
    BY DEF Inserts
  <1> USE <1>a
  <1>0. /\ e \in Place /\ a \in Place /\ a.o \in Nat /\ e.o \in Nat /\ a.b \in Blk
        /\ e.b \in Blocks(s, a) /\ a.b \in Blocks(s, a) /\ (e.b = a.b => e.o >= a.o)
    BY WalkStarts, Places
  <1>1. r \in Disk /\ Joined(s, r, a, x, <<nm, type, i>>, B)
    <2>1. CASE e.o + RecLen(nm) <= SpaceTotal
      <3>1. r = WithEntry(s, e, i, type, nm) /\ B = Blocks(s, a)
        BY <2>1 DEF Inserted, Claimed
      <3>2. r \in Disk /\ Joined(s, r, a, x, <<nm, type, i>>, Blocks(s, a))
        BY ONLY <1>a, <2>1, <3>1, Appended
      <3> QED  BY <3>1, <3>2
    <2>2. CASE ~(e.o + RecLen(nm) <= SpaceTotal)
      <3>1. /\ r = WithEntry(WithNext(s, e, b), At(b, 0), i, type, nm)
            /\ B = Blocks(s, a) \cup {b}
        BY <2>2 DEF Inserted, Claimed
      <3> QED  BY <2>2, <3>1, Extended
    <2> QED  BY <2>1, <2>2
  <1>2. /\ \A c \in Blk : c # e.b /\ c \notin Claimed(e, nm, b) => r[c] = s[c]
        /\ \A w \in Word : w < e.o => r[e.b][w] = s[e.b][w]
    BY <1>0, InsertedFrame
  <1>3. \A w \in Word : w < a.o => r[a.b][w] = s[a.b][w]
    <2>0. a.b \notin Claimed(e, nm, b)
      BY <1>0 DEF Claimed
    <2>1. CASE a.b = e.b
      <3>1. ASSUME NEW w \in Word, w < a.o PROVE w < e.o
        BY <1>0, <2>1, <3>1, Numbers DEF Word
      <3> QED  BY <1>2, <2>1, <3>1
    <2>2. CASE a.b # e.b
      <3>2. r[a.b] = s[a.b]
        BY <1>0, <1>2, <2>0, <2>2
      <3> QED  BY <3>2
    <2> QED  BY <2>1, <2>2
  <1> QED  BY <1>0, <1>1, <1>2, <1>3 DEF Confined


(***************************************************************************)
(* What delete and move_dir do to them.                                    *)
(***************************************************************************)

\* The block that leaves the chain with its last entry.
Emptied(s, x) == IF Unlinks(s[x.b], x, MetaOn(s, x).rec) THEN {x.b} ELSE {}

\* y is where the code finds the way to the table of x.
LeadsIn(s, a, x, y) ==
    x.o = 0 => y \in Walk(s, a) /\ IsNext(s, y) /\ InodeOn(s, y) = x.b

\* The table looked at is the one of s, where the entry after x is.
LEMMA UnlinksWhenLast ==
    ASSUME NEW s \in Disk, NEW x \in Place, NEW v \in Place, IsRow(s, x),
           v = At(x.b, x.o + MetaOn(s, x).rec)
    PROVE  /\ Unlinks(s[x.b], x, MetaOn(s, x).rec) <=> x.o = 0 /\ ~IsEntry(s, v)
           /\ x.o = 0 => s[x.b][MetaOn(s, x).rec].inode = InodeOn(s, v)
                         /\ s[x.b][MetaOn(s, x).rec + 1] = MetaOn(s, v)
  <1>1. MetaOn(s, x).rec \in Nat /\ x.o \in Nat
    BY Cells, Places
  <1>2. v.b = x.b /\ v.o = x.o + MetaOn(s, x).rec
    BY Places
  <1>3. ASSUME x.o = 0
        PROVE  s[x.b][MetaOn(s, x).rec].inode = InodeOn(s, v)
               /\ s[x.b][MetaOn(s, x).rec + 1] = MetaOn(s, v)
    <2>1. v.o = MetaOn(s, x).rec
      BY <1>1, <1>2, <1>3
    <2> QED  BY <1>2, <2>1 DEF InodeOn, MetaOn
  <1> QED  BY <1>3 DEF Unlinks, IsEntry, IsNext

\* Both kinds of deletion at once: one row leaves, a table it emptied leaves with
\* it, and the other directories' words stay as they are.
LEMMA TakenOut ==
    ASSUME NEW s \in Disk, NEW a, a.o # 0, NEW x, Sound(s, a, x), x \in Walk(s, a), IsRow(s, x),
           NEW y, LeadsIn(s, a, x, y), x.o = 0 => disk[y.b] = s[y.b],
           NEW rec, rec = MetaOn(s, x).rec, NEW r, r = TakeOut(s, s[x.b], x, y, rec, rec)
    PROVE  /\ r \in Disk /\ Sound(r, a, Nowhere)
           /\ LeftOf(r, a, Nowhere) = LeftOf(s, a, x)
           /\ Blocks(r, a) = Blocks(s, a) \ Emptied(s, x)
           /\ \A c \in Blk : c \notin Blocks(s, a) => r[c] = s[c]
           /\ \A w \in Word : w < a.o => r[a.b][w] = s[a.b][w]
  <1>1. /\ Walk(s, a) \subseteq Place /\ InodeOn(s, x) # 0 /\ IsEntry(s, x)
        /\ LeavesOut(s, a, x) /\ x.o \in Nat /\ x.b \in Blocks(s, a) /\ x \in Place
        /\ x.b \in Blk /\ (x.b = a.b => x.o >= a.o) /\ a \in Walk(s, a)
    BY WalkStarts DEF IsRow, IsEntry, LeavesOut
  <1>2. PICK n, L, k : Indexed(s, a, x, n, L, k) /\ DistinctBut(s, n, L, k)
                       /\ (k = 0 <=> x \notin Place)
    BY <1>1, SoundIsIndexed
  <1>3. /\ IsChain(s, a, n, L) /\ k \in 0 .. n - 1 /\ k # 0 /\ k \in 1 .. n /\ x = L[k]
        /\ Walk(s, a) = PlacesIn(n, L) /\ LeftOf(s, a, x) = RowsBut(s, n, L, k)
        /\ Blocks(s, a) = BlocksIn(n, L)
    BY <1>1, <1>2 DEF Indexed
  <1>4. /\ n \in Nat /\ n >= 1 /\ k \in 1 .. n - 1 /\ k + 1 \in 1 .. n
        /\ L[k + 1] \in Place /\ Leads(s, x, L[k + 1]) /\ InodeOn(s, L[n]) = 0
    BY <1>3, ChainParts
  <1> DEFINE v == L[k + 1]
  <1>5. v = At(x.b, x.o + rec)
    BY <1>1, <1>4 DEF Leads, IsLink, IsEntry
  <1>6. /\ rec \in {3, 4}
        /\ Unlinks(s[x.b], x, rec) <=> x.o = 0 /\ ~IsEntry(s, v)
        /\ x.o = 0 => s[x.b][rec].inode = InodeOn(s, v) /\ s[x.b][rec + 1] = MetaOn(s, v)
    BY <1>1, <1>4, <1>5, UnlinksWhenLast, Numbers DEF IsRow
  <1> HIDE DEF v
  \* what is left is a chain
  <1>7. ASSUME NEW m \in Nat, NEW M, Shrunk(s, r, a, n, L, k, m, M)
        PROVE  /\ Sound(r, a, Nowhere) /\ LeftOf(r, a, Nowhere) = LeftOf(s, a, x)
               /\ Blocks(r, a) = BlocksIn(m, M)
    <2>1. /\ IsChain(r, a, m, M) /\ RowsIn(r, m, M) = RowsBut(s, n, L, k) /\ Distinct(r, m, M)
      BY <1>2, <1>7 DEF Shrunk
    <2>2. 0 \in 0 .. m - 1
      BY <2>1, ChainParts
    <2>3. Indexed(r, a, Nowhere, m, M, 0)
      BY <2>1, <2>2, NowhereIsNoPlace, ByIndex
    <2>4. /\ LeftOf(r, a, Nowhere) = RowsBut(r, m, M, 0) /\ Blocks(r, a) = BlocksIn(m, M)
          /\ Apart(r, a, Nowhere) <=> DistinctBut(r, m, M, 0)
      BY <2>3 DEF Indexed
    <2>5. RowsBut(r, m, M, 0) = RowsIn(r, m, M) /\ DistinctBut(r, m, M, 0)
      BY <2>1, ButNone
    <2> QED  BY <1>3, <2>1, <2>4, <2>5 DEF Sound
  <1>8. CASE Unlinks(s[x.b], x, rec)
    <2>1. x.o = 0 /\ ~IsEntry(s, v) /\ Emptied(s, x) = {x.b}
      BY <1>6, <1>8 DEF Emptied
    <2>2. /\ k - 1 \in 1 .. n /\ IsLink(s, L[k - 1], L[k]) /\ InodeOn(s, L[k - 1]) = L[k].b
          /\ \A j \in 1 .. n : IsNext(s, L[j]) /\ InodeOn(s, L[j]) = L[k].b => j = k - 1 \/ j = n
      BY <1>3, <2>1, ChainLinks
    <2>3. y \in PlacesIn(n, L) /\ IsNext(s, y) /\ InodeOn(s, y) = x.b /\ disk[y.b] = s[y.b]
      BY <1>3, <2>1 DEF LeadsIn
    <2>4. y = L[k - 1]
      <3>1. PICK j \in 1 .. n : y = L[j]
        BY <2>3 DEF PlacesIn
      <3>2. j # n
        BY <1>1, <1>4, <2>3, <3>1 DEF Blk
      <3> QED  BY <1>3, <2>2, <2>3, <3>1, <3>2
    <2>5. r = Unlinked(s, y, v)
      BY <1>6, <1>8, <2>1, <2>3 DEF TakeOut, Unlinked
    <2>6. /\ r \in Disk
          /\ \E m \in Nat : \E M : /\ Shrunk(s, r, a, n, L, k, m, M)
                                   /\ BlocksIn(m, M) = BlocksIn(n, L) \ {L[k].b}
      BY <1>3, <1>4, <2>1, <2>4, <2>5, UnlinkChain DEF v
    <2>7. PICK m \in Nat : \E M : /\ Shrunk(s, r, a, n, L, k, m, M)
                                  /\ BlocksIn(m, M) = BlocksIn(n, L) \ {L[k].b}
      BY <2>6
    <2>8. PICK M : Shrunk(s, r, a, n, L, k, m, M) /\ BlocksIn(m, M) = BlocksIn(n, L) \ {L[k].b}
      BY <2>7
    <2>9. /\ y \in Place /\ y.b \in Blocks(s, a) /\ (y.b = a.b => y.o >= a.o)
          /\ y.b \in Blk /\ y.o \in Nat /\ a.o \in Nat
      BY <1>1, <1>3, <2>3, WalkStarts
    <2>10. \A c \in Blk : c \notin Blocks(s, a) => r[c] = s[c]
      BY <2>5, <2>9 DEF Unlinked, Disk
    <2>11. ASSUME NEW w \in Word, w < a.o PROVE r[a.b][w] = s[a.b][w]
      <3>1. CASE y.b = a.b
        <4>1. w # y.o /\ w # y.o + 1
          BY <2>9, <2>11, <3>1, Numbers DEF Word
        <4>2. s[y.b] \in [Word -> Cell] /\ r[y.b] = [s[y.b] EXCEPT
                 ![y.o] = Num(InodeOn(s, v)), ![y.o + 1] = [@ EXCEPT !.type = MetaOn(s, v).type]]
          BY <2>5, <2>9 DEF Unlinked, Disk
        <4> QED  BY <3>1, <4>1, <4>2
      <3>2. CASE y.b # a.b
        BY <2>5, <2>9, <3>2, <1>1, Places DEF Unlinked, Disk
      <3> QED  BY <3>1, <3>2
    <2>12. Blocks(r, a) = Blocks(s, a) \ Emptied(s, x)
      BY <1>3, <1>7, <2>1, <2>8
    <2> QED  BY <1>7, <2>6, <2>8, <2>10, <2>11, <2>12
  <1>9. CASE ~Unlinks(s[x.b], x, rec)
    <2>1. (x.o # 0 \/ IsEntry(s, v)) /\ Emptied(s, x) = {}
      BY <1>6, <1>9 DEF Emptied
    <2>2. r = Shifted(s, x, rec)
      BY <1>9 DEF TakeOut, Shifted
    <2>3. /\ r \in Disk
          /\ \E m \in Nat : \E M : /\ Shrunk(s, r, a, n, L, k, m, M)
                                   /\ BlocksIn(m, M) = BlocksIn(n, L)
      BY <1>3, <1>4, <2>1, <2>2, ShiftChain DEF v
    <2>4. PICK m \in Nat : \E M : /\ Shrunk(s, r, a, n, L, k, m, M)
                                  /\ BlocksIn(m, M) = BlocksIn(n, L)
      BY <2>3
    <2>5. PICK M : Shrunk(s, r, a, n, L, k, m, M) /\ BlocksIn(m, M) = BlocksIn(n, L)
      BY <2>4
    <2>6. \A c \in Blk : r[c] = IF c = x.b THEN Shift(s[c], x.o, rec) ELSE s[c]
      BY <2>2 DEF Shifted, Disk
    <2>7. \A c \in Blk : c \notin Blocks(s, a) => r[c] = s[c]
      BY <1>1, <2>6
    <2>8. a \in Place /\ a.b \in Blk /\ a.o \in Nat
      BY <1>1, Places
    <2>9. ASSUME NEW w \in Word, w < a.o PROVE r[a.b][w] = s[a.b][w]
      <3>1. CASE a.b = x.b
        <4>1. ~(w >= x.o)
          BY <1>1, <2>8, <2>9, <3>1, Numbers DEF Word
        <4> QED  BY <2>6, <2>8, <3>1, <4>1 DEF Shift
      <3>2. CASE a.b # x.b
        BY <2>6, <2>8, <3>2
      <3> QED  BY <3>1, <3>2
    <2>10. Blocks(r, a) = Blocks(s, a) \ Emptied(s, x)
      BY <1>3, <1>7, <2>1, <2>5
    <2> QED  BY <1>7, <2>3, <2>5, <2>7, <2>9, <2>10
  <1> QED  BY <1>8, <1>9


(***************************************************************************)
(* All directories: their entries R, blocks B, and what the headers of     *)
(* their first tables say.                                                 *)
(***************************************************************************)

EntriesIn(s, f, u) ==
    [d \in Inode |-> IF d \in DirsOf(f, u) THEN LeftOf(s, StartOf(f, d), Nowhere) ELSE {}]
TablesIn(s, f, u) ==
    [d \in Inode |-> IF d \in DirsOf(f, u) THEN Blocks(s, StartOf(f, d)) ELSE {}]
Itself(s, f) == [d \in Inode |-> s[f[d]][0].inode]
Parent(s, f) == [d \in Inode |-> s[f[d]][RecLen(".")].inode]

\* Every inode in use has one entry, in the directory its own table names.
Tree(f, u, R, own, up) ==
    /\ f \in [Inode -> 0 .. MaxBlock] /\ u \subseteq Inode /\ Root \in u /\ f[Root] # 0
    /\ R \in [Inode -> SUBSET D!Entry]
    /\ \A d \in Inode : d \notin DirsOf(f, u) => R[d] = {}
    /\ \A d \in Inode : \A e \in R[d] :
          /\ e[3] \in u /\ e[3] # Root /\ e[3] # d
          /\ e[2] = "DIR" => f[e[3]] # 0 /\ up[e[3]] = d
          /\ e[2] = "REG" => f[e[3]] = 0
    /\ \A c, d \in Inode : \A e \in R[c], g \in R[d] : e[3] = g[3] => c = d /\ e = g
    /\ \A d \in DirsOf(f, u) : d = Root \/ \E c \in Inode : \E e \in R[c] : e[2] = "DIR" /\ e[3] = d
    /\ \A d \in DirsOf(f, u) : own[d] = d

\* Every block is free or in the tables of one directory.
Split(f, u, fr, B) ==
    /\ fr \subseteq Blk
    /\ \A d \in DirsOf(f, u) : f[d] \in B[d] /\ B[d] \subseteq Blk /\ B[d] \cap fr = {}
    /\ \A c, d \in DirsOf(f, u) : c # d => B[c] \cap B[d] = {}
    /\ \A b \in Blk : b \in fr \/ \E d \in DirsOf(f, u) : b \in B[d]

\* The entries after one was made in p, taken out of it, moved to q.
WithRow(R, p, e)    == [R EXCEPT ![p] = @ \cup {e}]
WithoutRow(R, p, e) == [R EXCEPT ![p] = @ \ {e}]
RowMoved(R, p, e, q, x) ==
    [d \in Inode |-> (R[d] \ IF d = p THEN {e} ELSE {}) \cup IF d = q THEN {x} ELSE {}]

\* What adding and removing a row does to the rows of each directory.
LEMMA RowSets ==
    ASSUME NEW R, R \in [Inode -> SUBSET D!Entry], NEW p \in Inode, NEW e
    PROVE  /\ e \in D!Entry => WithRow(R, p, e) \in [Inode -> SUBSET D!Entry]
           /\ WithRow(R, p, e)[p] = R[p] \cup {e}
           /\ \A d \in Inode : d # p => WithRow(R, p, e)[d] = R[d]
           /\ WithoutRow(R, p, e) \in [Inode -> SUBSET D!Entry]
           /\ WithoutRow(R, p, e)[p] = R[p] \ {e}
           /\ \A d \in Inode : d # p => WithoutRow(R, p, e)[d] = R[d]
  BY DEF WithRow, WithoutRow

\* An entry of Directory is a name, a type and an inode.
LEMMA EntryParts ==
    /\ \A e \in D!Entry : e[1] \in Names /\ e[2] \in {"REG", "DIR"} /\ e[3] \in Inode
    /\ \A n \in Names, type \in {"REG", "DIR"}, i \in Inode :
          <<n, type, i>> \in D!Entry /\ <<n, type, i>>[1] = n /\ <<n, type, i>>[2] = type
          /\ <<n, type, i>>[3] = i
  BY DEF D!Entry, D!FileType

Creates(f, u, R, own, up, p, i, k, e, g, v, S, own2, up2) ==
    /\ Tree(f, u, R, own, up) /\ p \in DirsOf(f, u) /\ i \in Inode /\ i \notin u
    /\ e \in D!Entry /\ e[3] = i /\ k \in 0 .. MaxBlock /\ (k # 0 <=> e[2] = "DIR")
    /\ g = [f EXCEPT ![i] = k] /\ v = u \cup {i} /\ S = WithRow(R, p, e)
    /\ \A d \in DirsOf(f, u) : own2[d] = own[d] /\ up2[d] = up[d]
    /\ e[2] = "DIR" => own2[i] = i /\ up2[i] = p

\* Creating an entry for an unused inode keeps the tree.
LEMMA CreateTree ==
    ASSUME NEW f, NEW u, NEW R, NEW own, NEW up, NEW p, NEW i, NEW k, NEW e, NEW g, NEW v, NEW S,
           NEW own2, NEW up2, Creates(f, u, R, own, up, p, i, k, e, g, v, S, own2, up2)
    PROVE  Tree(g, v, S, own2, up2)
           /\ DirsOf(g, v) = DirsOf(f, u) \cup (IF e[2] = "DIR" THEN {i} ELSE {})
  <1>0. /\ Tree(f, u, R, own, up) /\ p \in DirsOf(f, u) /\ i \in Inode /\ i \notin u
        /\ e \in D!Entry /\ e[3] = i /\ k \in 0 .. MaxBlock /\ (k # 0 <=> e[2] = "DIR")
        /\ g = [f EXCEPT ![i] = k] /\ v = u \cup {i} /\ S = WithRow(R, p, e)
        /\ \A d \in DirsOf(f, u) : own2[d] = own[d] /\ up2[d] = up[d]
        /\ e[2] = "DIR" => own2[i] = i /\ up2[i] = p
    BY DEF Creates
  <1> USE <1>0
  <1>1. /\ f \in [Inode -> 0 .. MaxBlock] /\ u \subseteq Inode /\ Root \in u /\ f[Root] # 0
        /\ R \in [Inode -> SUBSET D!Entry] /\ p \in Inode /\ p \in u
    BY DEF Tree, DirsOf
  <1>2. /\ \A d \in Inode : g[d] = IF d = i THEN k ELSE f[d]
        /\ g \in [Inode -> 0 .. MaxBlock] /\ v \subseteq Inode /\ Root \in v /\ g[Root] # 0
    BY <1>1
  <1>3. DirsOf(g, v) = DirsOf(f, u) \cup (IF e[2] = "DIR" THEN {i} ELSE {})
    BY <1>1, <1>2 DEF DirsOf
  <1>4. /\ S \in [Inode -> SUBSET D!Entry]
        /\ \A d \in Inode : S[d] = R[d] \cup (IF d = p THEN {e} ELSE {})
    BY <1>1 DEF WithRow
  <1>5. e[2] \in {"REG", "DIR"}
    BY EntryParts
  <1>6. \A d \in Inode : \A x \in R[d] : x[3] \in u /\ x[3] # Root /\ x[3] # d /\ x[3] # i
                          /\ x \in D!Entry /\ (x[2] = "DIR" => x[3] \in DirsOf(f, u))
    BY <1>1 DEF Tree, DirsOf
  <1>7. ASSUME NEW d \in Inode, d \notin DirsOf(g, v) PROVE S[d] = {}
    <2>0. d \notin DirsOf(f, u) /\ d # p
      BY <1>3, <1>7
    <2>1. R[d] = {} /\ d # p
      BY <2>0 DEF Tree
    <2> QED  BY <1>4, <2>1
  <1>8. ASSUME NEW d \in Inode, NEW x \in S[d]
        PROVE  /\ x[3] \in v /\ x[3] # Root /\ x[3] # d
               /\ x[2] = "DIR" => g[x[3]] # 0 /\ up2[x[3]] = d
               /\ x[2] = "REG" => g[x[3]] = 0
    <2>1. CASE x \in R[d]
      <3>1. g[x[3]] = f[x[3]] /\ x[3] \in v /\ x[3] # Root /\ x[3] # d
        BY <1>1, <1>2, <1>6, <2>1
      <3>2. x[2] = "DIR" => up2[x[3]] = up[x[3]]
        BY <1>6, <2>1
      <3> QED  BY <2>1, <3>1, <3>2 DEF Tree
    <2>2. CASE x = e /\ d = p
      BY <1>1, <1>2, <2>2, <1>5
    <2> QED  BY <1>4, <2>1, <2>2
  <1>9. ASSUME NEW c \in Inode, NEW d \in Inode, NEW x \in S[c], NEW y \in S[d], x[3] = y[3]
        PROVE  c = d /\ x = y
    BY <1>4, <1>6, <1>9 DEF Tree
  <1>10. ASSUME NEW d \in DirsOf(g, v)
         PROVE  own2[d] = d /\ (d = Root \/ \E c \in Inode : \E x \in S[c] : x[2] = "DIR" /\ x[3] = d)
    <2>1. CASE d \in DirsOf(f, u)
      BY <1>4, <2>1 DEF Tree
    <2>2. CASE d = i /\ e[2] = "DIR"
      BY <1>1, <1>4, <2>2
    <2> QED  BY <1>3, <2>1, <2>2
  <1> QED  BY <1>2, <1>3, <1>4, <1>7, <1>8, <1>9, <1>10 DEF Tree


Removes(f, u, R, own, up, p, e, v, S, own2, up2) ==
    /\ Tree(f, u, R, own, up) /\ p \in DirsOf(f, u) /\ e \in R[p] /\ R[e[3]] = {}
    /\ v = u \ {e[3]} /\ S = WithoutRow(R, p, e)
    /\ \A d \in DirsOf(f, u) : d # e[3] => own2[d] = own[d] /\ up2[d] = up[d]

\* Removing an entry, and its inode when nothing is below it, keeps the tree.
LEMMA RemoveTree ==
    ASSUME NEW f, NEW u, NEW R, NEW own, NEW up, NEW p, NEW e, NEW v, NEW S, NEW own2, NEW up2,
           Removes(f, u, R, own, up, p, e, v, S, own2, up2)
    PROVE  /\ Tree(f, v, S, own2, up2) /\ DirsOf(f, v) = DirsOf(f, u) \ {e[3]}
           /\ p \in DirsOf(f, v)
  <1>0. /\ Tree(f, u, R, own, up) /\ p \in DirsOf(f, u) /\ e \in R[p] /\ R[e[3]] = {}
        /\ v = u \ {e[3]} /\ S = WithoutRow(R, p, e)
        /\ \A d \in DirsOf(f, u) : d # e[3] => own2[d] = own[d] /\ up2[d] = up[d]
    BY DEF Removes
  <1> USE <1>0
  <1>1. /\ f \in [Inode -> 0 .. MaxBlock] /\ u \subseteq Inode /\ Root \in u /\ f[Root] # 0
        /\ R \in [Inode -> SUBSET D!Entry] /\ p \in Inode /\ p \in u
    BY DEF Tree, DirsOf
  <1>2. e[3] # Root /\ e[3] # p /\ e[3] \in Inode
    BY <1>1 DEF Tree
  <1>3. DirsOf(f, v) = DirsOf(f, u) \ {e[3]} /\ p \in DirsOf(f, v)
    BY <1>1, <1>2 DEF DirsOf
  <1>4. /\ S \in [Inode -> SUBSET D!Entry]
        /\ \A d \in Inode : S[d] = R[d] \ (IF d = p THEN {e} ELSE {})
    BY <1>1 DEF WithoutRow
  <1>5. \A d \in Inode : \A x \in S[d] : x \in R[d] /\ x[3] # e[3]
    BY <1>1, <1>4 DEF Tree
  <1>6. ASSUME NEW d \in Inode, d \notin DirsOf(f, v) PROVE S[d] = {}
    <2>1. CASE d = e[3]
      BY <1>2, <1>4, <2>1
    <2>2. CASE d # e[3]
      <3>1. R[d] = {}
        BY <1>3, <1>6, <2>2 DEF Tree
      <3> QED  BY <1>4, <3>1
    <2> QED  BY <2>1, <2>2
  <1>7. ASSUME NEW d \in Inode, NEW x \in S[d]
        PROVE  /\ x[3] \in v /\ x[3] # Root /\ x[3] # d
               /\ x[2] = "DIR" => f[x[3]] # 0 /\ up2[x[3]] = d
               /\ x[2] = "REG" => f[x[3]] = 0
    <2>1. x \in R[d] /\ x[3] # e[3] /\ x[3] \in u /\ x[3] \in v
      BY <1>5 DEF Tree
    <2>2. x[2] = "DIR" => x[3] \in DirsOf(f, u)
      BY <1>1, <2>1 DEF Tree, DirsOf
    <2>3. x[2] = "DIR" => up2[x[3]] = up[x[3]]
      BY <2>1, <2>2
    <2> QED  BY <2>1, <2>3 DEF Tree
  <1>8. ASSUME NEW d \in DirsOf(f, v)
        PROVE  own2[d] = d /\ (d = Root \/ \E c \in Inode : \E x \in S[c] : x[2] = "DIR" /\ x[3] = d)
    <2>1. d \in DirsOf(f, u) /\ d # e[3] /\ own2[d] = d
      BY <1>3 DEF Tree
    <2>2. CASE d # Root
      <3>1. PICK c \in Inode : \E x \in R[c] : x[2] = "DIR" /\ x[3] = d
        BY <2>1, <2>2 DEF Tree
      <3>2. PICK x \in R[c] : x[2] = "DIR" /\ x[3] = d
        BY <3>1
      <3>3. x \in S[c]
        BY <1>4, <2>1, <3>2
      <3> QED  BY <2>1, <3>2, <3>3
    <2> QED  BY <2>1, <2>2
  <1>9. \A c, d \in Inode : \A x \in S[c], y \in S[d] : x[3] = y[3] => c = d /\ x = y
    BY <1>5 DEF Tree
  <1>10. v \subseteq Inode /\ Root \in v
    BY <1>1, <1>2
  <1> QED  BY <1>1, <1>3, <1>4, <1>6, <1>7, <1>8, <1>9, <1>10 DEF Tree

Moves(f, u, R, own, up, p, e, q, x, S, own2, up2) ==
    /\ Tree(f, u, R, own, up) /\ p \in DirsOf(f, u) /\ q \in DirsOf(f, u)
    /\ e \in R[p] /\ e[2] = "DIR" /\ q # e[3]
    /\ x \in D!Entry /\ x[3] = e[3] /\ x[2] = "DIR" /\ S = RowMoved(R, p, e, q, x)
    /\ \A d \in DirsOf(f, u) : own2[d] = d
    /\ \A d \in DirsOf(f, u) : up2[d] = IF d = e[3] THEN q ELSE up[d]

\* Moving a directory out of another keeps the tree.
LEMMA MoveTree ==
    ASSUME NEW f, NEW u, NEW R, NEW own, NEW up, NEW p, NEW e, NEW q, NEW x, NEW S,
           NEW own2, NEW up2, Moves(f, u, R, own, up, p, e, q, x, S, own2, up2)
    PROVE  Tree(f, u, S, own2, up2)
  <1>0. /\ Tree(f, u, R, own, up) /\ p \in DirsOf(f, u) /\ q \in DirsOf(f, u)
        /\ e \in R[p] /\ e[2] = "DIR" /\ q # e[3]
        /\ x \in D!Entry /\ x[3] = e[3] /\ x[2] = "DIR" /\ S = RowMoved(R, p, e, q, x)
        /\ \A d \in DirsOf(f, u) : own2[d] = d
        /\ \A d \in DirsOf(f, u) : up2[d] = IF d = e[3] THEN q ELSE up[d]
    BY DEF Moves
  <1> USE <1>0
  <1>1. /\ f \in [Inode -> 0 .. MaxBlock] /\ u \subseteq Inode /\ Root \in u /\ f[Root] # 0
        /\ R \in [Inode -> SUBSET D!Entry] /\ p \in Inode /\ q \in Inode
    BY DEF Tree, DirsOf
  <1>2. e[3] # Root /\ e[3] # p /\ e[3] \in u /\ f[e[3]] # 0 /\ e[3] \in DirsOf(f, u)
    BY <1>1 DEF Tree, DirsOf
  <1>3. /\ S \in [Inode -> SUBSET D!Entry]
        /\ \A d \in Inode : \A y : y \in S[d] <=> (y \in R[d] /\ ~(d = p /\ y = e)) \/ (d = q /\ y = x)
    BY <1>1 DEF RowMoved
  <1>4. \A d \in Inode : \A y \in R[d] : ~(d = p /\ y = e) => y[3] # e[3]
    BY <1>1 DEF Tree
  <1>5. \A d \in Inode : d \notin DirsOf(f, u) => S[d] = {}
    BY <1>3 DEF Tree
  <1>6. ASSUME NEW d \in Inode, NEW y \in S[d]
        PROVE  /\ y[3] \in u /\ y[3] # Root /\ y[3] # d
               /\ y[2] = "DIR" => f[y[3]] # 0 /\ up2[y[3]] = d
               /\ y[2] = "REG" => f[y[3]] = 0
    <2>1. CASE y \in R[d] /\ ~(d = p /\ y = e)
      <3>1. y[2] = "DIR" => y[3] \in DirsOf(f, u)
        BY <1>1, <2>1 DEF Tree, DirsOf
      <3>2. y[2] = "DIR" => up2[y[3]] = up[y[3]]
        BY <1>4, <2>1, <3>1
      <3> QED  BY <2>1, <3>2 DEF Tree
    <2>2. CASE d = q /\ y = x
      BY <1>2, <2>2
    <2> QED  BY <1>3, <2>1, <2>2
  <1>7. ASSUME NEW d \in DirsOf(f, u)
        PROVE  own2[d] = d /\ (d = Root \/ \E c \in Inode : \E y \in S[c] : y[2] = "DIR" /\ y[3] = d)
    <2>1. CASE d = e[3]
      BY <1>1, <1>3, <2>1
    <2>2. CASE d # e[3] /\ d # Root
      <3>1. PICK c \in Inode : \E y \in R[c] : y[2] = "DIR" /\ y[3] = d
        BY <2>2 DEF Tree
      <3>2. PICK y \in R[c] : y[2] = "DIR" /\ y[3] = d
        BY <3>1
      <3>3. y \in S[c]
        BY <1>3, <2>2, <3>2
      <3> QED  BY <3>2, <3>3
    <2> QED  BY <2>1, <2>2
  <1>8. ASSUME NEW c \in Inode, NEW d \in Inode, NEW y \in S[c], NEW z \in S[d], y[3] = z[3]
        PROVE  c = d /\ y = z
    <2>1. CASE y \in R[c] /\ ~(c = p /\ y = e) /\ z \in R[d] /\ ~(d = p /\ z = e)
      BY <1>8, <2>1 DEF Tree
    <2>2. CASE c = q /\ y = x /\ d = q /\ z = x
      BY <2>2
    <2> QED  BY <1>3, <1>4, <1>8, <2>1, <2>2
  <1> QED  BY <1>1, <1>3, <1>5, <1>6, <1>7, <1>8 DEF Tree

\* The blocks of p become C and those of new directory i, if there is one, {k}.
Grows(f, u, fr, B, p, T, i, k, g, v, C, left) ==
    /\ Split(f, u, fr, B) /\ p \in DirsOf(f, u) /\ T \subseteq fr
    /\ i \notin DirsOf(f, u) /\ (k # 0 => k \in fr /\ k \notin T /\ g[i] = k /\ C[i] = {k})
    /\ \A d \in DirsOf(f, u) : g[d] = f[d]
    /\ DirsOf(g, v) = DirsOf(f, u) \cup (IF k # 0 THEN {i} ELSE {})
    /\ \A d \in DirsOf(f, u) : C[d] = B[d] \cup (IF d = p THEN T ELSE {})
    /\ \A b : b \in left <=> b \in fr /\ b \notin T /\ (k # 0 => b # k)

\* The blocks stay divided when a directory takes one and an inode may take one.
LEMMA SplitGrows ==
    ASSUME NEW f, NEW u, NEW fr, NEW B, NEW p, NEW T, NEW i, NEW k, NEW g, NEW v, NEW C,
           NEW left, Grows(f, u, fr, B, p, T, i, k, g, v, C, left)
    PROVE  Split(g, v, left, C)
  <1>0. /\ Split(f, u, fr, B) /\ p \in DirsOf(f, u) /\ T \subseteq fr
        /\ i \notin DirsOf(f, u) /\ (k # 0 => k \in fr /\ k \notin T /\ g[i] = k /\ C[i] = {k})
        /\ \A d \in DirsOf(f, u) : g[d] = f[d]
        /\ DirsOf(g, v) = DirsOf(f, u) \cup (IF k # 0 THEN {i} ELSE {})
        /\ \A d \in DirsOf(f, u) : C[d] = B[d] \cup (IF d = p THEN T ELSE {})
        /\ \A b : b \in left <=> b \in fr /\ b \notin T /\ (k # 0 => b # k)
    BY DEF Grows
  <1> USE <1>0
  <1>1. fr \subseteq Blk /\ \A d \in DirsOf(f, u) : d # i /\ g[d] = f[d]
    BY DEF Split
  <1>2. \A d \in DirsOf(f, u) : \A b : b \in C[d] <=> b \in B[d] \/ (d = p /\ b \in T)
    OBVIOUS
  <1>3. ASSUME NEW d \in DirsOf(g, v)
        PROVE  g[d] \in C[d] /\ C[d] \subseteq Blk /\ C[d] \cap left = {}
    <2>1. CASE d \in DirsOf(f, u)
      BY <1>1, <1>2, <2>1 DEF Split
    <2>2. CASE d = i /\ k # 0
      BY <1>1, <2>2
    <2> QED  BY <2>1, <2>2
  <1>4. ASSUME NEW c \in DirsOf(g, v), NEW d \in DirsOf(g, v), c # d, NEW b \in C[c], b \in C[d]
        PROVE  FALSE
    <2>1. CASE c \in DirsOf(f, u) /\ d \in DirsOf(f, u)
      BY <1>2, <1>4, <2>1 DEF Split
    <2>2. CASE c = i /\ k # 0 /\ d \in DirsOf(f, u)
      <3>1. b = k /\ b \in fr /\ b \notin T
        BY <1>4, <2>2
      <3> QED  BY <1>2, <1>4, <2>2, <3>1 DEF Split
    <2>3. CASE d = i /\ k # 0 /\ c \in DirsOf(f, u)
      <3>1. b = k /\ b \in fr /\ b \notin T
        BY <1>4, <2>3
      <3> QED  BY <1>2, <1>4, <2>3, <3>1 DEF Split
    <2> QED  BY <1>4, <2>1, <2>2, <2>3
  <1>5. ASSUME NEW b \in Blk PROVE b \in left \/ \E d \in DirsOf(g, v) : b \in C[d]
    <2>1. CASE b \in fr
      BY <1>2, <2>1
    <2>2. CASE b \notin fr
      BY <1>2, <2>2 DEF Split
    <2> QED  BY <2>1, <2>2
  <1> QED  BY <1>1, <1>3, <1>4, <1>5 DEF Split

\* p loses the blocks of T, and the directories of X all of theirs.
LEMMA SplitShrinks ==
    ASSUME NEW f, NEW u, NEW fr, NEW B, Split(f, u, fr, B),
           NEW p \in DirsOf(f, u), NEW T \in SUBSET B[p], NEW v, DirsOf(f, v) \subseteq DirsOf(f, u),
           NEW C, \A d \in DirsOf(f, v) : C[d] = B[d] \ (IF d = p THEN T ELSE {}),
           NEW left, \A b : b \in left <=> b \in fr \cup T
                                          \/ \E d \in DirsOf(f, u) \ DirsOf(f, v) : b \in B[d],
           p \in DirsOf(f, v), f[p] \notin T
    PROVE  Split(f, v, left, C)
  <1>1. left \subseteq Blk
    BY DEF Split
  <1>2. ASSUME NEW d \in DirsOf(f, v)
        PROVE  f[d] \in C[d] /\ C[d] \subseteq Blk /\ C[d] \cap left = {}
    BY DEF Split
  <1>3. \A c, d \in DirsOf(f, v) : c # d => C[c] \cap C[d] = {}
    BY DEF Split
  <1>4. ASSUME NEW b \in Blk PROVE b \in left \/ \E d \in DirsOf(f, v) : b \in C[d]
    BY DEF Split
  <1> QED  BY <1>1, <1>2, <1>3, <1>4 DEF Split


(***************************************************************************)
(* What holds of every state: of disk s, first blocks f, inodes u in use   *)
(* and free blocks fr.                                                     *)
(***************************************************************************)

DirInv(s, f, u, fr) ==
    /\ s \in Disk
    /\ \A d \in DirsOf(f, u) : Sound(s, StartOf(f, d), Nowhere)
    /\ Tree(f, u, EntriesIn(s, f, u), Itself(s, f), Parent(s, f))
    /\ Split(f, u, fr, TablesIn(s, f, u))

\* What the invariant says of one directory in use.
LEMMA DirParts ==
    ASSUME NEW s, NEW f, NEW u, NEW fr, DirInv(s, f, u, fr), NEW d \in DirsOf(f, u)
    PROVE  /\ d \in Inode /\ d \in u /\ f[d] \in Blk /\ StartOf(f, d).b = f[d]
           /\ StartOf(f, d).o = 6 /\ StartOf(f, d) \in Place
           /\ Sound(s, StartOf(f, d), Nowhere)
           /\ EntriesIn(s, f, u)[d] = LeftOf(s, StartOf(f, d), Nowhere)
           /\ TablesIn(s, f, u)[d] = Blocks(s, StartOf(f, d))
           /\ f[d] \in Blocks(s, StartOf(f, d)) /\ Blocks(s, StartOf(f, d)) \subseteq Blk
           /\ f[d] # 0
  <1>1. /\ f \in [Inode -> 0 .. MaxBlock] /\ u \subseteq Inode
        /\ Sound(s, StartOf(f, d), Nowhere)
    BY DEF DirInv, Tree
  <1>2. d \in Inode /\ d \in u /\ f[d] \in Blk /\ f[d] # 0
    BY <1>1, Numbers DEF DirsOf, Blk
  <1>3. StartOf(f, d).b = f[d] /\ StartOf(f, d).o = 6 /\ StartOf(f, d) \in Place
    BY <1>2, Places, Numbers DEF StartOf
  <1>4. EntriesIn(s, f, u)[d] = LeftOf(s, StartOf(f, d), Nowhere)
        /\ TablesIn(s, f, u)[d] = Blocks(s, StartOf(f, d))
    BY <1>2 DEF EntriesIn, TablesIn
  <1>5. f[d] \in Blocks(s, StartOf(f, d)) /\ Blocks(s, StartOf(f, d)) \subseteq Blk
    BY <1>1, <1>3, WalkStarts DEF Blocks
  <1> QED  BY <1>1, <1>2, <1>3, <1>4, <1>5

\* Two directories share no block, and neither owns a free one.
LEMMA BlocksApart ==
    ASSUME NEW s, NEW f, NEW u, NEW fr, DirInv(s, f, u, fr),
           NEW c \in DirsOf(f, u), NEW d \in DirsOf(f, u), c # d
    PROVE  /\ Blocks(s, StartOf(f, c)) \cap Blocks(s, StartOf(f, d)) = {}
           /\ Blocks(s, StartOf(f, c)) \cap fr = {}
  <1>1. /\ TablesIn(s, f, u)[c] = Blocks(s, StartOf(f, c))
        /\ TablesIn(s, f, u)[d] = Blocks(s, StartOf(f, d))
    BY DirParts
  <1>2. Split(f, u, fr, TablesIn(s, f, u))
    BY DEF DirInv
  <1>3. TablesIn(s, f, u)[c] \cap TablesIn(s, f, u)[d] = {} /\ TablesIn(s, f, u)[c] \cap fr = {}
    BY <1>2 DEF Split
  <1> QED  BY <1>1, <1>3

\* A directory in whose blocks only the words of "." and ".." may have changed.
LEMMA SameDirectory ==
    ASSUME NEW s, NEW f, NEW u, NEW fr, DirInv(s, f, u, fr), NEW d \in DirsOf(f, u),
           NEW r, NEW g, g[d] = f[d],
           \A b \in Blocks(s, StartOf(f, d)) : b # f[d] => r[b] = s[b],
           \A w \in Word : w >= 6 => r[f[d]][w] = s[f[d]][w]
    PROVE  /\ Sound(r, StartOf(g, d), Nowhere)
           /\ LeftOf(r, StartOf(g, d), Nowhere) = EntriesIn(s, f, u)[d]
           /\ Blocks(r, StartOf(g, d)) = TablesIn(s, f, u)[d]
  <1>1. StartOf(g, d) = StartOf(f, d)
    BY DEF StartOf
  <1>2. LeavesOut(s, StartOf(f, d), Nowhere)
    BY NowhereIsNoPlace DEF LeavesOut
  <1>3. StartOf(f, d).b = f[d] /\ StartOf(f, d).o = 6 /\ Sound(s, StartOf(f, d), Nowhere)
    BY DirParts
  <1>4. /\ Sound(r, StartOf(f, d), Nowhere)
        /\ LeftOf(r, StartOf(f, d), Nowhere) = LeftOf(s, StartOf(f, d), Nowhere)
        /\ Blocks(r, StartOf(f, d)) = Blocks(s, StartOf(f, d))
    BY <1>2, <1>3, SameTable
  <1> QED  BY <1>1, <1>4, DirParts

\* One entry left out, the rest is the others.
LEMMA LeftWithout ==
    ASSUME NEW s, NEW a, Sound(s, a, Nowhere), NEW x \in Walk(s, a), IsEntry(s, x)
    PROVE  /\ LeftOf(s, a, x) = LeftOf(s, a, Nowhere) \ {Row(s, x)}
           /\ Row(s, x) \in LeftOf(s, a, Nowhere) /\ Sound(s, a, x) /\ LeavesOut(s, a, x)
           /\ IsRow(s, x) /\ Row(s, x) \in D!Entry /\ InodeOn(s, x) \in Inode
           /\ \A e \in LeftOf(s, a, x) : e[3] # InodeOn(s, x)
  <1>1. /\ Walk(s, a) \subseteq Place /\ \A y \in Walk(s, a) : y # Nowhere
        /\ IsRow(s, x) /\ InodeOn(s, x) # 0
    BY WalkStarts, NowhereIsNoPlace DEF IsEntry
  <1>2. ASSUME NEW y \in Walk(s, a), IsEntry(s, y), y # x PROVE InodeOn(s, y) # InodeOn(s, x)
    BY <1>1, <1>2 DEF Sound, Apart, Differ
  <1>3. \A y : Row(s, y)[3] = InodeOn(s, y)
    BY DEF Row
  <1>4. LeftOf(s, a, x) = LeftOf(s, a, Nowhere) \ {Row(s, x)}
    BY <1>1, <1>2, <1>3 DEF LeftOf
  <1>5. Row(s, x) \in LeftOf(s, a, Nowhere)
    BY <1>1 DEF LeftOf
  <1>6. Sound(s, a, x) /\ LeavesOut(s, a, x)
    BY <1>1 DEF Sound, Apart, LeavesOut
  <1>7. Row(s, x) \in D!Entry /\ InodeOn(s, x) \in Inode
    BY <1>1, EntryParts DEF IsRow, Row
  <1>8. \A e \in LeftOf(s, a, x) : e[3] # InodeOn(s, x)
    BY <1>2, <1>3 DEF LeftOf
  <1> QED  BY <1>1, <1>4, <1>5, <1>6, <1>7, <1>8

\* A table whose first place is free is a block of its own, and no more.
LEMMA EmptyTable ==
    ASSUME NEW s, NEW a \in Place, InodeOn(s, a) = 0
    PROVE  Walk(s, a) = {a} /\ LeftOf(s, a, Nowhere) = {} /\ Blocks(s, a) = {a.b}
  <1>1. Walk(s, a) = {a}
    BY WalkUnfolds DEF Stops
  <1>2. ~IsEntry(s, a)
    BY DEF IsEntry
  <1> QED  BY <1>1, <1>2 DEF LeftOf, Blocks

\* Where Into looks there is the NEXT it looks for.
LEMMA IntoLeads ==
    ASSUME NEW p, NEW x, Children(p).o # 0, Sound(disk, Children(p), Nowhere),
           x \in Entries(p), x.o = 0
    PROVE  LeadsIn(disk, Children(p), x, Into(p, x)) /\ Into(p, x) \in Visited(p)
  <1>1. PICK n, L : IsChain(disk, Children(p), n, L)
    BY DEF Sound
  <1>2. x \in PlacesIn(n, L) /\ Visited(p) = PlacesIn(n, L)
    BY <1>1, ChainIsWalked DEF Entries, Visited
  <1>3. PICK k \in 1 .. n : x = L[k]
    BY <1>2 DEF PlacesIn
  <1>4. k - 1 \in 1 .. n /\ IsLink(disk, L[k - 1], L[k]) /\ InodeOn(disk, L[k - 1]) = L[k].b
    BY <1>1, <1>3, ChainLinks
  <1>5. \E y \in Visited(p) : IsNext(disk, y) /\ InodeAt(y) = x.b
    BY <1>2, <1>3, <1>4 DEF PlacesIn, IsLink, InodeAt
  <1>6. Into(p, x) \in Visited(p) /\ IsNext(disk, Into(p, x)) /\ InodeAt(Into(p, x)) = x.b
    BY <1>5 DEF Into
  <1> QED  BY <1>6 DEF LeadsIn, Visited, InodeAt

\* The directories of the specification are these, in every state.
ListingOf(s, f, u, d) == IF d \in DirsOf(f, u) THEN RowsOf(s, f, d) ELSE {}

\* The listings of the refinement mapping are the rows the invariant speaks of.
LEMMA ListingIs ==
    ASSUME NEW s, NEW f, NEW u, NEW fr, DirInv(s, f, u, fr)
    PROVE  [d \in Inode |-> ListingOf(s, f, u, d)] = EntriesIn(s, f, u)
  <1>1. ASSUME NEW d \in DirsOf(f, u) PROVE RowsOf(s, f, d) = LeftOf(s, StartOf(f, d), Nowhere)
    <2>1. \A y \in Walk(s, StartOf(f, d)) : y # Nowhere
      BY DirParts, WalkStarts, NowhereIsNoPlace
    <2> QED  BY <2>1 DEF RowsOf, EntriesOf, LeftOf
  <1> QED  BY <1>1 DEF ListingOf, EntriesIn

\* The state-level operators of DirTable are those of this module at this state.
LEMMA ListingHere ==
    /\ \A d : Listing(d) = ListingOf(disk, first, used, d)
    /\ LiveDirs = DirsOf(first, used)
    /\ \A d : Children(d) = StartOf(first, d) /\ Visited(d) = Walk(disk, StartOf(first, d))
  <1>1. LiveDirs = DirsOf(first, used)
    BY DEF LiveDirs, DirsOf
  <1>2. \A d : Children(d) = StartOf(first, d) /\ Visited(d) = Walk(disk, StartOf(first, d))
    BY DEF Children, StartOf, Visited
  <1>3. \A d : Entries(d) = EntriesOf(disk, first, d)
    BY <1>2 DEF Entries, EntriesOf
  <1>4. ASSUME NEW d PROVE Listing(d) = ListingOf(disk, first, used, d)
    <2>1. {<<MetaAt(x).name, MetaAt(x).type, InodeAt(x)>> : x \in Entries(d)} = RowsOf(disk, first, d)
      BY <1>3 DEF RowsOf, Row, MetaAt, InodeAt
    <2> QED  BY <1>1, <2>1 DEF Listing, ListingOf
  <1> QED  BY <1>1, <1>2, <1>4


(***************************************************************************)
(* delete.                                                                 *)
(***************************************************************************)

\* delete of the code keeps the invariant and is the removal of one row.
LEMMA DeleteStep ==
    ASSUME DirInv(disk, first, used, free), NEW p \in LiveDirs, NEW n \in Names,
           NEW type \in {"REG", "DIR"}, Delete(p, n, type)
    PROVE  /\ DirInv(disk', first', used', free')
           /\ \E e \in EntriesIn(disk, first, used)[p] :
                 /\ EntriesIn(disk, first, used)[e[3]] = {}
                 /\ EntriesIn(disk', first', used') = WithoutRow(EntriesIn(disk, first, used), p, e)
  <1> DEFINE s == disk  f == first  u == used  Dirs == DirsOf(first, used)
             a == StartOf(first, p)  R == EntriesIn(disk, first, used)
             B == TablesIn(disk, first, used)
  <1>1. PICK x \in Entries(p) :
           /\ Same(x, n, type) /\ (type = "DIR" => IsDirectoryEmpty(InodeAt(x)))
           /\ disk' = TakeOut(disk, disk[x.b], x, Into(p, x), MetaAt(x).rec, MetaAt(x).rec)
           /\ used' = used \ {InodeAt(x)}
           /\ free' = free \cup (IF type = "DIR" THEN {first[InodeAt(x)]} ELSE {})
                           \cup (IF Unlinks(disk[x.b], x, MetaAt(x).rec) THEN {x.b} ELSE {})
           /\ first' = first
    BY DEF Delete
  <1> DEFINE i == InodeAt(x)  e == Row(disk, x)  v == used \ {i}
  <1>2. p \in Dirs /\ Children(p) = a /\ Visited(p) = Walk(s, a)
    BY ListingHere
  <1>3. /\ p \in Inode /\ a.b = f[p] /\ a.o = 6 /\ a.o # 0 /\ Sound(s, a, Nowhere)
        /\ R[p] = LeftOf(s, a, Nowhere) /\ B[p] = Blocks(s, a) /\ Blocks(s, a) \subseteq Blk
        /\ s \in Disk /\ f[p] \in Blk /\ Tree(f, u, R, Itself(s, f), Parent(s, f))
        /\ Split(f, u, free, B)
    BY <1>2, DirParts DEF DirInv
  <1>4. x \in Walk(s, a) /\ IsEntry(s, x)
    BY <1>2 DEF Entries
  <1>5. /\ LeftOf(s, a, x) = R[p] \ {e} /\ e \in R[p] /\ Sound(s, a, x) /\ IsRow(s, x)
        /\ e \in D!Entry /\ i \in Inode
    BY <1>3, <1>4, LeftWithout DEF InodeAt
  <1>6. e[3] = i /\ e[2] = type /\ MetaAt(x).rec = MetaOn(s, x).rec
    BY <1>1 DEF Row, InodeAt, MetaAt, Same
  <1>7. LeadsIn(s, a, x, Into(p, x))
    <2>1. CASE x.o = 0
      BY <1>2, <1>3, <2>1, IntoLeads
    <2>2. CASE x.o # 0
      BY <2>2 DEF LeadsIn
    <2> QED  BY <2>1, <2>2
  <1>8. /\ disk' \in Disk /\ Sound(disk', a, Nowhere) /\ LeftOf(disk', a, Nowhere) = R[p] \ {e}
        /\ Blocks(disk', a) = B[p] \ Emptied(s, x)
        /\ \A c \in Blk : c \notin Blocks(s, a) => disk'[c] = s[c]
        /\ \A w \in Word : w < 6 => disk'[f[p]][w] = s[f[p]][w]
    <2> HIDE DEF a
    <2>1. disk' = TakeOut(s, s[x.b], x, Into(p, x), MetaOn(s, x).rec, MetaOn(s, x).rec)
      BY <1>1, <1>6
    <2> QED  BY <1>3, <1>4, <1>5, <1>7, <2>1, TakenOut
  <1>9. i # Root /\ i # p /\ (type = "DIR" <=> i \in Dirs)
    BY <1>3, <1>5, <1>6 DEF Tree, DirsOf
  \* a directory that goes away has no entries and one block
  <1>10. i \in Dirs => R[i] = {} /\ B[i] = {f[i]}
    <2>1. SUFFICES ASSUME i \in Dirs PROVE R[i] = {} /\ B[i] = {f[i]}
      OBVIOUS
    <2>2. InodeOn(s, StartOf(f, i)) = 0
      BY <1>1, <1>9, <2>1, Places DEF IsDirectoryEmpty, InodeOn, StartOf, At
    <2>3. /\ StartOf(f, i) \in Place /\ StartOf(f, i).b = f[i]
          /\ R[i] = LeftOf(s, StartOf(f, i), Nowhere) /\ B[i] = Blocks(s, StartOf(f, i))
      BY <2>1, DirParts
    <2> QED  BY <2>2, <2>3, EmptyTable
  <1>11. R[i] = {}
    BY <1>3, <1>5, <1>9, <1>10 DEF Tree
  <1>12. DirsOf(f, v) = Dirs \ {i} /\ p \in DirsOf(f, v)
    BY <1>2, <1>9 DEF DirsOf
  \* the others
  <1>13. ASSUME NEW d \in DirsOf(f, v), d # p
         PROVE  /\ Sound(disk', StartOf(f, d), Nowhere)
                /\ LeftOf(disk', StartOf(f, d), Nowhere) = R[d]
                /\ Blocks(disk', StartOf(f, d)) = B[d] /\ disk'[f[d]] = s[f[d]]
    <2>1. d \in Dirs
      BY <1>12
    <2>2. Blocks(s, StartOf(f, d)) \cap Blocks(s, a) = {}
      BY <1>2, <1>13, <2>1, BlocksApart
    <2>3. Blocks(s, StartOf(f, d)) \subseteq Blk /\ f[d] \in Blocks(s, StartOf(f, d))
      BY <2>1, DirParts
    <2>4. \A b \in Blocks(s, StartOf(f, d)) : disk'[b] = s[b]
      BY <1>8, <2>2, <2>3
    <2> QED  BY <2>1, <2>3, <2>4, SameDirectory
  <1>14. \A d \in DirsOf(f, v) : Sound(disk', StartOf(f, d), Nowhere)
    BY <1>8, <1>13
  <1> DEFINE S == WithoutRow(R, p, e)
  <1>15. /\ R \in [Inode -> SUBSET D!Entry] /\ S \in [Inode -> SUBSET D!Entry]
         /\ S[p] = R[p] \ {e} /\ \A d \in Inode : d # p => S[d] = R[d]
    <2>1. R \in [Inode -> SUBSET D!Entry]
      BY <1>3 DEF Tree
    <2>2. \A d \in Inode : R[d] \in SUBSET D!Entry
      BY <2>1
    <2> HIDE DEF R, e
    <2> QED  BY <1>3, <2>1, <2>2, RowSets
  <1> HIDE DEF S
  <1>16. EntriesIn(disk', f, v) = S
    <2>1. ASSUME NEW d \in Inode PROVE EntriesIn(disk', f, v)[d] = S[d]
      <3>1. CASE d = p
        BY <1>8, <1>12, <1>15, <3>1 DEF EntriesIn
      <3>2. CASE d # p /\ d \in DirsOf(f, v)
        <4>1. EntriesIn(disk', f, v)[d] = R[d]
          BY <1>13, <3>2 DEF EntriesIn
        <4>2. S[d] = R[d]
          BY <1>15, <3>2
        <4> QED  BY <4>1, <4>2
      <3>3. CASE d \notin DirsOf(f, v)
        <4>1. EntriesIn(disk', f, v)[d] = {} /\ d # p
          BY <1>12, <3>3 DEF EntriesIn
        <4>2. R[d] = {}
          BY <1>3, <1>11, <1>12, <3>3 DEF Tree
        <4>3. S[d] = R[d]
          BY <1>15, <4>1
        <4> QED  BY <4>1, <4>2, <4>3
      <3> QED  BY <3>1, <3>2, <3>3
    <2> HIDE DEF R, v
    <2> QED  BY <1>15, <2>1 DEF EntriesIn
  <1>17. Tree(f, v, S, Itself(disk', f), Parent(disk', f))
    <2>1. ASSUME NEW d \in Dirs, d # i
          PROVE  Itself(disk', f)[d] = Itself(s, f)[d] /\ Parent(disk', f)[d] = Parent(s, f)[d]
      <3>1. d \in Inode /\ f[d] \in Blk
        BY <2>1, DirParts
      <3>2. disk'[f[d]][0] = s[f[d]][0] /\ disk'[f[d]][3] = s[f[d]][3]
        <4>1. CASE d = p
          <5>1. 0 \in Word /\ 3 \in Word /\ 0 < 6 /\ 3 < 6
            BY Numbers DEF Word
          <5> QED  BY <1>8, <4>1, <5>1
        <4>2. CASE d # p
          BY <1>12, <1>13, <2>1, <4>2
        <4> QED  BY <4>1, <4>2
      <3> QED  BY <3>1, <3>2, Numbers DEF Itself, Parent
    <2>2. Removes(f, u, R, Itself(s, f), Parent(s, f), p, e, v, S, Itself(disk', f), Parent(disk', f))
      <3> HIDE DEF R, e
      <3> QED  BY <1>2, <1>3, <1>5, <1>6, <1>11, <2>1 DEF Removes, S
    <2> QED  BY <2>2, RemoveTree
  <1>18. Split(f, v, free', TablesIn(disk', f, v))
    <2> DEFINE T == Emptied(s, x)  C == TablesIn(disk', f, v)
    <2>1. \A d \in DirsOf(f, v) : C[d] = B[d] \ (IF d = p THEN T ELSE {})
      <3>1. ASSUME NEW d \in DirsOf(f, v) PROVE C[d] = Blocks(disk', StartOf(f, d))
        <4>1. d \in Inode
          BY <1>12, DirParts
        <4> QED  BY <4>1 DEF TablesIn
      <3> QED  BY <1>8, <1>13, <3>1
    <2>2. T \in SUBSET B[p] /\ T = IF Unlinks(s[x.b], x, MetaAt(x).rec) THEN {x.b} ELSE {}
      BY <1>3, <1>4, <1>6 DEF Emptied, Blocks
    <2>3. f[p] \notin T
      BY <1>3, <1>8, WalkStarts
    <2>4. ASSUME NEW b
          PROVE  b \in free' <=> b \in free \cup T \/ \E d \in Dirs \ DirsOf(f, v) : b \in B[d]
      <3>1. b \in free' <=> b \in free \cup T \/ (type = "DIR" /\ b = f[i])
        BY <1>1, <2>2
      <3>2. Dirs \ DirsOf(f, v) = IF type = "DIR" THEN {i} ELSE {}
        BY <1>9, <1>12
      <3> QED  BY <1>9, <1>10, <3>1, <3>2
    <2>5. DirsOf(f, v) \subseteq Dirs
      BY <1>12
    <2> HIDE DEF T, C, v, B
    <2> QED  BY <1>2, <1>3, <1>12, <2>1, <2>2, <2>3, <2>4, <2>5, SplitShrinks DEF C
  <1>19. DirInv(disk', first', used', free')
    BY <1>1, <1>8, <1>14, <1>16, <1>17, <1>18 DEF DirInv
  <1>20. /\ e \in R[p] /\ R[e[3]] = {}
         /\ EntriesIn(disk', first', used') = WithoutRow(R, p, e)
    BY <1>1, <1>5, <1>6, <1>11, <1>16 DEF S
  <1> HIDE DEF R, e
  <1> QED  BY <1>19, <1>20 DEF R


(***************************************************************************)
(* write.                                                                  *)
(***************************************************************************)

\* The inode or block the search takes is one of those it searches.
LEMMA LowestIn ==
    ASSUME NEW S \in SUBSET Nat, S # {}
    PROVE  Lowest(S) \in S
  BY Least DEF Lowest

\* The block a new table takes, if the last one is full.
NewTables(q, m) == Claimed(End(q), m, Lowest(free))

\* Entry <<m, type, i>> is new to the tables a of q, of which x is left out.
InsertsHere(q, a, x, i, type, m, r, B, T) ==
    /\ q \in LiveDirs /\ a = Children(q) /\ Sound(disk, a, x) /\ LeavesOut(disk, a, x)
    /\ i \in Inode /\ type \in {"REG", "DIR"} /\ m \in Names
    /\ \A g \in LeftOf(disk, a, x) : g[3] # i
    /\ Fits(q, m) \/ free # {}
    /\ T = NewTables(q, m) /\ r = Insert(q, m, type, i).disk /\ B = Blocks(disk, a) \cup T

InsertDone(q, a, x, i, type, m, r, B, T) ==
    /\ r \in Disk /\ Insert(q, m, type, i).free = free \ T /\ T \subseteq free
    /\ Joined(disk, r, a, x, <<m, type, i>>, B)
    /\ Confined(disk, r, a, T)

\* The insertion of create and of move, from the state to the written tables.
LEMMA InsertHere ==
    ASSUME DirInv(disk, first, used, free), NEW q, NEW a, NEW x, NEW i, NEW type, NEW m, NEW r,
           NEW B, NEW T, InsertsHere(q, a, x, i, type, m, r, B, T)
    PROVE  InsertDone(q, a, x, i, type, m, r, B, T)
  <1>0. /\ q \in LiveDirs /\ a = Children(q) /\ Sound(disk, a, x) /\ LeavesOut(disk, a, x)
        /\ i \in Inode /\ type \in {"REG", "DIR"} /\ m \in Names
        /\ \A g \in LeftOf(disk, a, x) : g[3] # i
        /\ Fits(q, m) \/ free # {}
        /\ T = NewTables(q, m) /\ r = Insert(q, m, type, i).disk /\ B = Blocks(disk, a) \cup T
    BY DEF InsertsHere
  <1> USE <1>0
  <1> DEFINE e == End(q)  b == Lowest(free)
  <1>1. q \in DirsOf(first, used) /\ a = StartOf(first, q) /\ Visited(q) = Walk(disk, a)
    BY ListingHere
  <1>2. /\ disk \in Disk /\ Blocks(disk, a) \cap free = {} /\ free \subseteq Blk
        /\ a.b = first[q] /\ a.o = 6
    <2>1. TablesIn(disk, first, used)[q] = Blocks(disk, a) /\ a.b = first[q] /\ a.o = 6
      BY <1>1, DirParts
    <2> QED  BY <1>1, <2>1 DEF DirInv, Split
  <1>3. e \in Walk(disk, a) /\ InodeOn(disk, e) = 0
    BY <1>1, WalkStarts DEF End, InodeAt
  <1>4. CASE e.o + RecLen(m) <= SpaceTotal
    <2>1. Insert(q, m, type, i) = [disk |-> WithEntry(disk, e, i, type, m), free |-> free]
      BY <1>4 DEF Insert, WithEntry
    <2>2. r = Inserted(disk, e, i, type, m, b) /\ NewTables(q, m) = {}
      BY <1>4, <2>1 DEF Inserted, NewTables, Claimed
    <2>3. B = Blocks(disk, a) \cup Claimed(e, m, b)
      BY DEF NewTables
    <2> HIDE DEF e, b
    <2>4. /\ r \in Disk /\ Joined(disk, r, a, x, <<m, type, i>>, B)
          /\ Confined(disk, r, a, Claimed(e, m, b))
      <3>1. Inserts(disk, a, x, e, i, type, m, b, r, B)
        BY <1>2, <1>3, <1>4, <2>2, <2>3 DEF Inserts
      <3>2. r \in Disk
        BY <3>1, InsertJoins
      <3>3. Joined(disk, r, a, x, <<m, type, i>>, B)
        BY <3>1, InsertJoins
      <3>4. Confined(disk, r, a, Claimed(e, m, b))
        BY <3>1, InsertJoins
      <3> QED  BY ONLY <3>2, <3>3, <3>4
    <2> QED  BY <1>2, <2>1, <2>2, <2>4 DEF InsertDone, NewTables, e, b
  <1>5. CASE ~(e.o + RecLen(m) <= SpaceTotal)
    <2>4. b \in free
      <3>1. free # {} /\ free \in SUBSET Nat
        BY <1>2, <1>5 DEF Fits, Blk
      <3> QED  BY <3>1, LowestIn
    <2>5. b \in Blk /\ b \notin Blocks(disk, a)
      BY <1>2, <2>4
    <2>1. Insert(q, m, type, i) = [disk |-> WithEntry(WithNext(disk, e, b), At(b, 0), i, type, m),
                                   free |-> free \ {b}]
      <3>1. Insert(q, m, type, i)
              = [disk |-> [disk EXCEPT ![e.b] = PutNext(@, e.o, b), ![b] = PutEntry(@, 0, i, type, m)],
                 free |-> free \ {b}]
        BY <1>5 DEF Insert
      <3>2. [disk EXCEPT ![e.b] = PutNext(@, e.o, b), ![b] = PutEntry(@, 0, i, type, m)]
              = WithEntry(WithNext(disk, e, b), At(b, 0), i, type, m)
        <4>1. e.b \in Blk /\ e.b # b
          BY <1>1, <1>2, <1>3, <2>5, WalkStarts
        <4>2. disk = [c \in Blk |-> disk[c]]
          BY <1>2 DEF Disk
        <4>3. At(b, 0).b = b /\ At(b, 0).o = 0
          BY Places
        <4> HIDE DEF e, b
        <4> QED  BY <2>5, <4>1, <4>2, <4>3 DEF WithEntry, WithNext
      <3> QED  BY <3>1, <3>2
    <2>2. r = Inserted(disk, e, i, type, m, b) /\ NewTables(q, m) = {b}
      BY <1>5, <2>1 DEF Inserted, NewTables, Claimed
    <2>3. B = Blocks(disk, a) \cup Claimed(e, m, b)
      BY DEF NewTables
    <2> HIDE DEF e, b
    <2>6. /\ r \in Disk /\ Joined(disk, r, a, x, <<m, type, i>>, B)
          /\ Confined(disk, r, a, Claimed(e, m, b))
      <3>1. Inserts(disk, a, x, e, i, type, m, b, r, B)
        BY <1>2, <1>3, <2>2, <2>3, <2>5 DEF Inserts
      <3>2. r \in Disk
        BY <3>1, InsertJoins
      <3>3. Joined(disk, r, a, x, <<m, type, i>>, B)
        BY <3>1, InsertJoins
      <3>4. Confined(disk, r, a, Claimed(e, m, b))
        BY <3>1, InsertJoins
      <3> QED  BY ONLY <3>2, <3>3, <3>4
    <2> QED  BY <1>2, <2>1, <2>2, <2>4, <2>6 DEF InsertDone, NewTables, e, b
  <1> QED  BY <1>4, <1>5

\* A new directory's table has no entries.
LEMMA NewTableWords ==
    ASSUME NEW i \in Inode, NEW p \in Inode, NEW junk \in StackTypes
    PROVE  /\ NewTable(i, p, junk) \in [Word -> Cell]
           /\ NewTable(i, p, junk)[0].inode = i /\ NewTable(i, p, junk)[3].inode = p
           /\ NewTable(i, p, junk)[6].inode = 0
  <1> DEFINE t0 == [w \in Word |-> [Pad EXCEPT !.type = junk]]
             t1 == PutEntry(t0, 0, i, "DIR", ".")
             t2 == PutEntry(t1, 3, p, "DIR", "..")
  <1>0. /\ RecLen(".") = 3 /\ RecLen("..") = 3 /\ SpaceTotal = WORDS - 3 /\ WORDS >= 13
        /\ WORDS \in Nat /\ Junk = MaxInode + MaxBlock + 1 /\ MaxInode \in Nat /\ MaxBlock \in Nat
    BY Numbers
  <1>1. i \in 0 .. Junk /\ p \in 0 .. Junk /\ Junk \in 0 .. Junk
    BY <1>0 DEF Inode
  <1>2. "DIR" \in CellType /\ "." \in CellName /\ ".." \in CellName /\ NoName \in CellName
        /\ junk \in CellType
    BY DirTableAssumption DEF CellType, CellName
  <1>3. t0 \in [Word -> Cell]
    BY <1>1, <1>2 DEF Pad, Cell
  <1>4. NewTable(i, p, junk) = t2
    BY <1>0 DEF NewTable
  <1> HIDE DEF t0
  <1>5. /\ t1 \in [Word -> Cell] /\ t1[0].inode = i
        /\ \A w \in Word : w < 0 \/ w > 3 => t1[w] = t0[w]
    BY <1>0, <1>1, <1>2, <1>3, EntryWords
  <1> HIDE DEF t1
  <1>6. /\ t2 \in [Word -> Cell] /\ t2[3].inode = p /\ t2[6].inode = 0
        /\ \A w \in Word : w < 3 \/ w > 6 => t2[w] = t1[w]
    BY <1>0, <1>1, <1>2, <1>5, EntryWords
  <1> HIDE DEF t2
  <1>7. t2[0] = t1[0]
    BY <1>0, <1>6 DEF Word
  <1> QED  BY <1>4, <1>5, <1>6, <1>7

\* A table whose first child is free is a directory with no entry.
LEMMA NewDirectory ==
    ASSUME NEW s, NEW a \in Place, InodeOn(s, a) = 0, a.o <= SpaceTotal
    PROVE  Sound(s, a, Nowhere)
  <1> DEFINE L == [k \in 1 .. 1 |-> a]
  <1>1. \A k \in 1 .. 1 : k = 1
    OBVIOUS
  <1>2. L \in [1 .. 1 -> Place] /\ L[1] = a /\ \A k \in 1 .. 1 : L[k] = a
    OBVIOUS
  <1> HIDE DEF L
  <1>3. IsChain(s, a, 1, L)
    BY <1>1, <1>2 DEF IsChain
  <1>4. Apart(s, a, Nowhere)
    BY EmptyTable DEF Apart
  <1> QED  BY <1>3, <1>4 DEF Sound


\* Enough blocks are left for the tables that write makes.
LEMMA BlocksLeft ==
    ASSUME free \subseteq Blk, NEW p, NEW n, NEW new \in BOOLEAN,
           Cardinality(free) >= (IF Fits(p, n) THEN 0 ELSE 1) + (IF new THEN 1 ELSE 0)
    PROVE  /\ Fits(p, n) \/ free # {}
           /\ new => Lowest(free \ NewTables(p, n)) \in free \ NewTables(p, n)
  <1>1. IsFiniteSet(free)
    <2>1. IsFiniteSet(1 .. MaxBlock)
      BY Numbers, FS_Interval
    <2> QED  BY <2>1, FS_Subset DEF Blk
  <1>2. Fits(p, n) \/ free # {}
    BY FS_EmptySet
  <1>3. ASSUME new PROVE free \ NewTables(p, n) # {}
    <2>1. CASE Fits(p, n)
      <3>1. NewTables(p, n) = {}
        BY <2>1 DEF Fits, NewTables, Claimed
      <3> QED  BY <1>3, <2>1, <3>1, FS_EmptySet
    <2>2. CASE ~Fits(p, n)
      <3>1. NewTables(p, n) = {Lowest(free)} /\ Cardinality(free) >= 2
        BY <1>3, <2>2 DEF Fits, NewTables, Claimed
      <3>2. Lowest(free) \in free
        <4>1. free \in SUBSET Nat
          BY DEF Blk
        <4> QED  BY <1>2, <2>2, <4>1, LowestIn
      <3>3. Cardinality(free \ {Lowest(free)}) = Cardinality(free) - 1
        BY <1>1, <3>2, FS_RemoveElement
      <3>4. Cardinality(free \ {Lowest(free)}) # 0
        BY <3>1, <3>3, <1>1, FS_CardinalityType
      <3> QED  BY <3>1, <3>4, FS_EmptySet
    <2> QED  BY <2>1, <2>2
  <1>4. free \ NewTables(p, n) \in SUBSET Nat
    <2>1. free \subseteq Nat
      BY DEF Blk
    <2> QED  BY <2>1
  <1> QED  BY <1>2, <1>3, <1>4, LowestIn


\* write of the code keeps the invariant and is the addition of one row.
LEMMA WriteStep ==
    ASSUME DirInv(disk, first, used, free), NEW p \in LiveDirs, NEW n \in Names,
           NEW type \in {"REG", "DIR"}, Write(p, n, type)
    PROVE  /\ DirInv(disk', first', used', free')
           /\ \E i \in Inode \ used :
                 EntriesIn(disk', first', used')
                    = WithRow(EntriesIn(disk, first, used), p, <<n, type, i>>)
  <1> DEFINE s == disk  f == first  u == used  Dirs == DirsOf(first, used)
             a == StartOf(first, p)  R == EntriesIn(disk, first, used)
             B == TablesIn(disk, first, used)  T == NewTables(p, n)
  <1>a. PICK i, w :
           /\ i = Lowest(Inode \ used) /\ w = Insert(p, n, type, i) /\ used' = used \cup {i}
           /\ IF type = "DIR"
              THEN /\ \E junk \in StackTypes :
                         disk' = [w.disk EXCEPT ![Lowest(w.free)] = NewTable(i, p, junk)]
                   /\ first' = [first EXCEPT ![i] = Lowest(w.free)]
                   /\ free' = w.free \ {Lowest(w.free)}
              ELSE disk' = w.disk /\ free' = w.free /\ first' = [first EXCEPT ![i] = 0]
    BY DEF Write
  <1>b. PICK r, k : r = w.disk /\ k = IF type = "DIR" THEN Lowest(w.free) ELSE 0
    OBVIOUS
  <1>1. /\ i = Lowest(Inode \ used) /\ r = Insert(p, n, type, i).disk
        /\ used' = used \cup {i} /\ first' = [first EXCEPT ![i] = k]
        /\ type = "DIR" => /\ k = Lowest(Insert(p, n, type, i).free)
                           /\ \E junk \in StackTypes : disk' = [r EXCEPT ![k] = NewTable(i, p, junk)]
                           /\ free' = Insert(p, n, type, i).free \ {k}
        /\ type = "REG" => k = 0 /\ disk' = r /\ free' = Insert(p, n, type, i).free
    <2>1. CASE type = "DIR"
      <3>1. k = Lowest(w.free) /\ free' = w.free \ {k} /\ first' = [first EXCEPT ![i] = k]
            /\ \E junk \in StackTypes : disk' = [r EXCEPT ![k] = NewTable(i, p, junk)]
        BY <1>a, <1>b, <2>1
      <3> QED  BY <1>a, <1>b, <2>1, <3>1
    <2>2. CASE type = "REG"
      BY <1>a, <1>b, <2>2
    <2> QED  BY <2>1, <2>2
  <1>2. p \in Dirs /\ Children(p) = a /\ Visited(p) = Walk(s, a)
    BY ListingHere
  <1>3. /\ p \in Inode /\ a.b = f[p] /\ a.o = 6 /\ Sound(s, a, Nowhere)
        /\ R[p] = LeftOf(s, a, Nowhere) /\ B[p] = Blocks(s, a) /\ Blocks(s, a) \subseteq Blk
        /\ s \in Disk /\ f[p] \in Blk /\ f[p] \in Blocks(s, a)
        /\ Tree(f, u, R, Itself(s, f), Parent(s, f)) /\ Split(f, u, free, B)
    BY <1>2, DirParts DEF DirInv
  <1>4. i \in Inode /\ i \notin used
    <2>1. Inode \ used # {} /\ Inode \ used \in SUBSET Nat
      <3>1. used \subseteq Inode /\ used # Inode
        BY <1>3 DEF Write, Tree
      <3>2. Inode \subseteq Nat
        BY DEF Inode
      <3> QED  BY <3>1, <3>2
    <2> QED  BY <1>1, <2>1, LowestIn
  <1>5. \A d \in Inode : \A e \in R[d] : e[3] # i
    BY <1>3, <1>4 DEF Tree
  <1>6. free \subseteq Blk /\ (Fits(p, n) \/ free # {})
        /\ (type = "DIR" => Lowest(free \ T) \in free \ T)
    <2>1. free \subseteq Blk /\ (type = "DIR") \in BOOLEAN
      BY <1>3 DEF Split
    <2>2. Cardinality(free) >= (IF Fits(p, n) THEN 0 ELSE 1) + (IF type = "DIR" THEN 1 ELSE 0)
      BY DEF Write
    <2> QED  BY <2>1, <2>2, BlocksLeft
  <1>7. LeavesOut(s, a, Nowhere)
    BY NowhereIsNoPlace DEF LeavesOut
  <1>8. /\ r \in Disk /\ Insert(p, n, type, i).free = free \ T /\ T \subseteq free
        /\ Joined(s, r, a, Nowhere, <<n, type, i>>, Blocks(s, a) \cup T)
        /\ Confined(s, r, a, T)
    <2> DEFINE C == Blocks(s, a) \cup T
    <2>1. \A d \in LeftOf(s, a, Nowhere) : d[3] # i
      BY <1>3, <1>5
    <2>2. C = Blocks(s, a) \cup NewTables(p, n)
      OBVIOUS
    <2> HIDE DEF a, C
    <2> HIDE DEF T
    <2>3. InsertsHere(p, a, Nowhere, i, type, n, r, C, T)
      BY <1>1, <1>2, <1>3, <1>4, <1>6, <1>7, <2>1, <2>2 DEF InsertsHere, T
    <2>4. /\ r \in Disk /\ Insert(p, n, type, i).free = free \ T /\ T \subseteq free
          /\ Joined(s, r, a, Nowhere, <<n, type, i>>, C)
          /\ Confined(s, r, a, T)
      <3>1. DirInv(disk, first, used, free)
        OBVIOUS
      <3>2. InsertDone(p, a, Nowhere, i, type, n, r, C, T)
        BY ONLY <2>3, <3>1, InsertHere
      <3> QED  BY <3>2 DEF InsertDone
    <2> QED  BY <2>4 DEF C
  <1> HIDE DEF T
  <1>9. /\ type = "DIR" => k \in Blk /\ k \in free /\ k \notin T /\ k # 0
        /\ k \in 0 .. MaxBlock
    <2>1. CASE type = "DIR"
      <3>1. k \in free \ T
        BY <1>1, <1>6, <1>8, <2>1
      <3> QED  BY <1>6, <3>1, Numbers DEF Blk
    <2>2. CASE type = "REG"
      BY <1>1, <2>2, Numbers
    <2> QED  BY <2>1, <2>2
  <1>10. /\ disk' \in Disk
         /\ \A c \in Blk : ~(type = "DIR" /\ c = k) => disk'[c] = r[c]
         /\ type = "DIR" => /\ disk'[k][0].inode = i /\ disk'[k][3].inode = p
                            /\ disk'[k][6].inode = 0
    <2>1. CASE type = "DIR"
      <3>1. PICK junk \in StackTypes : disk' = [r EXCEPT ![k] = NewTable(i, p, junk)]
        BY <1>1, <2>1
      <3>2. PICK t : t = NewTable(i, p, junk)
        OBVIOUS
      <3>3. t \in [Word -> Cell] /\ t[0].inode = i /\ t[3].inode = p /\ t[6].inode = 0
        BY <1>3, <1>4, <3>2, NewTableWords
      <3>4. r \in [Blk -> [Word -> Cell]] /\ k \in Blk /\ disk' = [r EXCEPT ![k] = t]
        BY <1>8, <1>9, <2>1, <3>1, <3>2 DEF Disk
      <3>5. disk' \in [Blk -> [Word -> Cell]] /\ disk'[k] = t
            /\ \A c \in Blk : c # k => disk'[c] = r[c]
        BY <3>3, <3>4
      <3> QED  BY <2>1, <3>3, <3>5 DEF Disk
    <2>2. CASE type = "REG"
      BY <1>1, <1>8, <2>2
    <2> QED  BY <2>1, <2>2
  <1> DEFINE g == first'  v == used'
  <1>11. /\ \A d \in Dirs : d \in Inode /\ d # i /\ g[d] = f[d] /\ f[d] \in Blk
         /\ g[i] = k /\ v = u \cup {i} /\ g = [f EXCEPT ![i] = k]
         /\ DirsOf(g, v) = Dirs \cup (IF type = "DIR" THEN {i} ELSE {})
    <2>1. f \in [Inode -> 0 .. MaxBlock] /\ u \subseteq Inode
      BY <1>3 DEF Tree
    <2>2. \A d \in Dirs : d \in Inode /\ d # i /\ f[d] \in Blk
      BY <1>4, DirParts
    <2> QED  BY <1>1, <1>4, <1>9, <2>1, <2>2 DEF DirsOf
  <1> HIDE DEF g, v
  \* p has the new entry
  <1>12. /\ Sound(disk', StartOf(g, p), Nowhere) /\ Blocks(disk', StartOf(g, p)) = B[p] \cup T
         /\ LeftOf(disk', StartOf(g, p), Nowhere) = R[p] \cup {<<n, type, i>>}
         /\ disk'[f[p]][0] = s[f[p]][0] /\ disk'[f[p]][3] = s[f[p]][3]
    <2>1. StartOf(g, p) = a
      BY <1>2, <1>11 DEF StartOf
    <2>2. /\ Sound(r, a, Nowhere) /\ Blocks(r, a) = Blocks(s, a) \cup T
          /\ LeftOf(r, a, Nowhere) = R[p] \cup {<<n, type, i>>}
      BY <1>3, <1>8 DEF Joined
    <2>3. ASSUME NEW b \in Blocks(r, a) PROVE disk'[b] = r[b]
      <3>1. b \in Blk /\ ~(type = "DIR" /\ b = k)
        <4>1. Blocks(s, a) \cap free = {}
          BY <1>2, <1>3 DEF Split
        <4> QED  BY <1>3, <1>6, <1>8, <1>9, <2>2, <4>1
      <3> QED  BY <1>10, <3>1
    <2>4. a.b \in Blocks(r, a) /\ LeavesOut(r, a, Nowhere)
      BY <1>3, <2>2, NowhereIsNoPlace DEF LeavesOut
    <2>5. /\ Sound(disk', a, Nowhere) /\ LeftOf(disk', a, Nowhere) = LeftOf(r, a, Nowhere)
          /\ Blocks(disk', a) = Blocks(r, a)
      <3>1. \A b \in Blocks(r, a) : b # a.b => disk'[b] = r[b]
        BY <2>3
      <3>2. \A z \in Word : z >= a.o => disk'[a.b][z] = r[a.b][z]
        BY <2>3, <2>4
      <3> HIDE DEF a
      <3> QED  BY <2>2, <2>4, <3>1, <3>2, SameTable
    <2>6. disk'[f[p]][0] = s[f[p]][0] /\ disk'[f[p]][3] = s[f[p]][3]
      <3>1. disk'[f[p]] = r[f[p]]
        BY <1>3, <2>3, <2>4
      <3>2. 0 \in Word /\ 3 \in Word /\ 0 < 6 /\ 3 < 6
        BY Numbers DEF Word
      <3> QED  BY <1>3, <1>8, <3>1, <3>2 DEF Confined
    <2> QED  BY <1>3, <2>1, <2>2, <2>5, <2>6
  \* the others are as before
  <1>13. ASSUME NEW d \in Dirs, d # p
         PROVE  /\ Sound(disk', StartOf(g, d), Nowhere)
                /\ LeftOf(disk', StartOf(g, d), Nowhere) = R[d]
                /\ Blocks(disk', StartOf(g, d)) = B[d] /\ disk'[f[d]] = s[f[d]]
    <2>1. Blocks(s, StartOf(f, d)) \cap Blocks(s, a) = {} /\ Blocks(s, StartOf(f, d)) \cap free = {}
      BY <1>2, <1>13, BlocksApart
    <2>2. Blocks(s, StartOf(f, d)) \subseteq Blk /\ f[d] \in Blocks(s, StartOf(f, d))
      BY DirParts
    <2>3. ASSUME NEW b \in Blocks(s, StartOf(f, d)) PROVE disk'[b] = s[b]
      <3>1. b \in Blk /\ b \notin Blocks(s, a) /\ b \notin T /\ ~(type = "DIR" /\ b = k)
        BY <1>8, <1>9, <2>1, <2>2
      <3> QED  BY <1>8, <1>10, <3>1 DEF Confined
    <2>4. g[d] = f[d]
      BY <1>11
    <2> QED  BY <2>2, <2>3, <2>4, SameDirectory
  \* a new directory is empty
  <1>14. ASSUME type = "DIR"
         PROVE  /\ Sound(disk', StartOf(g, i), Nowhere)
                /\ LeftOf(disk', StartOf(g, i), Nowhere) = {}
                /\ Blocks(disk', StartOf(g, i)) = {k}
    <2> DEFINE b == StartOf(g, i)
    <2>1. b.b = k /\ b.o = 6 /\ b \in Place /\ 6 <= SpaceTotal
      BY <1>9, <1>11, <1>14, Places, Numbers DEF StartOf
    <2>2. InodeOn(disk', b) = 0
      BY <1>10, <1>14, <2>1 DEF InodeOn
    <2> HIDE DEF b
    <2>3. Sound(disk', b, Nowhere) /\ LeftOf(disk', b, Nowhere) = {} /\ Blocks(disk', b) = {k}
      BY <2>1, <2>2, EmptyTable, NewDirectory
    <2> QED  BY <2>3 DEF b
  <1>15. \A d \in DirsOf(g, v) : Sound(disk', StartOf(g, d), Nowhere)
    BY <1>11, <1>12, <1>13, <1>14
  <1> DEFINE e == <<n, type, i>>  S == WithRow(R, p, e)
  <1>16. e \in D!Entry /\ e[3] = i /\ e[2] = type /\ R \in [Inode -> SUBSET D!Entry]
    BY <1>3, <1>4, EntryParts DEF Tree
  <1>17. /\ S \in [Inode -> SUBSET D!Entry] /\ S[p] = R[p] \cup {e}
         /\ \A d \in Inode : d # p => S[d] = R[d]
    <2> HIDE DEF e, R
    <2> QED  BY <1>3, <1>16, RowSets
  <1> HIDE DEF S
  <1>18. EntriesIn(disk', g, v) = S
    <2>1. ASSUME NEW d \in Inode PROVE EntriesIn(disk', g, v)[d] = S[d]
      <3>1. CASE d = p
        BY <1>2, <1>11, <1>12, <1>17, <3>1 DEF EntriesIn
      <3>2. CASE d # p /\ d \in Dirs
        BY <1>11, <1>13, <1>17, <3>2 DEF EntriesIn
      <3>3. CASE d \notin Dirs
        <4>1. R[d] = {} /\ d # p /\ S[d] = R[d]
          BY <1>2, <1>3, <1>17, <3>3 DEF Tree
        <4>2. CASE d = i /\ type = "DIR"
          BY <1>11, <1>14, <4>1, <4>2 DEF EntriesIn
        <4>3. CASE ~(d = i /\ type = "DIR")
          <5>1. d \notin DirsOf(g, v)
            BY <1>11, <3>3, <4>3
          <5> QED  BY <4>1, <5>1 DEF EntriesIn
        <4> QED  BY <4>2, <4>3
      <3> QED  BY <3>1, <3>2, <3>3
    <2> QED  BY <1>17, <2>1 DEF EntriesIn
  <1>19. Tree(g, v, S, Itself(disk', g), Parent(disk', g))
    <2>1. ASSUME NEW d \in Dirs
          PROVE  Itself(disk', g)[d] = Itself(s, f)[d] /\ Parent(disk', g)[d] = Parent(s, f)[d]
      <3>1. d \in Inode /\ g[d] = f[d]
        BY <1>11
      <3>2. disk'[f[d]][0] = s[f[d]][0] /\ disk'[f[d]][3] = s[f[d]][3]
        BY <1>12, <1>13
      <3> QED  BY <3>1, <3>2, Numbers DEF Itself, Parent
    <2>2. type = "DIR" => Itself(disk', g)[i] = i /\ Parent(disk', g)[i] = p
      BY <1>4, <1>10, <1>11, Numbers DEF Itself, Parent
    <2>3. Creates(f, u, R, Itself(s, f), Parent(s, f), p, i, k, e, g, v, S,
                  Itself(disk', g), Parent(disk', g))
      <3>1. k # 0 <=> e[2] = "DIR"
        BY <1>1, <1>9, <1>16
      <3> HIDE DEF R, e
      <3> QED  BY <1>2, <1>3, <1>4, <1>9, <1>11, <1>16, <2>1, <2>2, <3>1 DEF Creates, S
    <2> QED  BY <2>3, CreateTree
  <1>20. Split(g, v, free', TablesIn(disk', g, v))
    <2> DEFINE C == TablesIn(disk', g, v)
    <2>1. \A d \in Dirs : C[d] = B[d] \cup (IF d = p THEN T ELSE {})
      BY <1>11, <1>12, <1>13 DEF TablesIn
    <2>2. k # 0 <=> type = "DIR"
      BY <1>1, <1>9
    <2>3. type = "DIR" => C[i] = {k}
      BY <1>4, <1>11, <1>14 DEF TablesIn
    <2>4. \A b : b \in free' <=> b \in free /\ b \notin T /\ (k # 0 => b # k)
      BY <1>1, <1>8, <2>2
    <2> HIDE DEF C, B
    <2>5. Grows(f, u, free, B, p, T, i, k, g, v, C, free')
      BY <1>2, <1>3, <1>8, <1>9, <1>11, <2>1, <2>2, <2>3, <2>4 DEF Grows
    <2> QED  BY <2>5, SplitGrows DEF C
  <1>21. DirInv(disk', g, v, free')
    BY <1>10, <1>15, <1>18, <1>19, <1>20 DEF DirInv
  <1> QED  BY <1>4, <1>18, <1>21 DEF g, v, S


(***************************************************************************)
(* move_dir.                                                               *)
(***************************************************************************)

\* Nothing but "." and ".." of a directory's table changes with its header.
LEMMA HeaderWords ==
    ASSUME NEW t \in [Word -> Cell], NEW i \in Inode, NEW q \in Inode
    PROVE  /\ Header(t, i, q) \in [Word -> Cell]
           /\ Header(t, i, q)[0].inode = i /\ Header(t, i, q)[3].inode = q
           /\ \A w \in Word : w # 0 /\ w # 3 => Header(t, i, q)[w] = t[w]
  <1>1. RecLen(".") = 3 /\ 0 \in Word /\ 3 \in Word
    BY Numbers DEF Word
  <1>2. Num(i) \in Cell /\ Num(q) \in Cell /\ Num(i).inode = i /\ Num(q).inode = q
    <2>1. i \in 0 .. Junk /\ q \in 0 .. Junk /\ 0 \in Nat
      BY Numbers DEF Inode
    <2>2. "none" \in CellType /\ NoName \in CellName
      BY DEF CellType, CellName
    <2> QED  BY <2>1, <2>2 DEF Num, Cell
  <1>3. Header(t, i, q) = [t EXCEPT ![0] = Num(i), ![3] = Num(q)]
    BY <1>1 DEF Header
  <1> QED  BY <1>1, <1>2, <1>3

\* What joined the tables of a directory stays when something else is written.
LEMMA JoinedAway ==
    ASSUME NEW s, NEW r, NEW a, NEW x, NEW row, NEW B, Joined(s, r, a, x, row, B),
           LeavesOut(s, a, x), NEW d, \A c \in B : d[c] = r[c]
    PROVE  Joined(s, d, a, x, row, B)
  <1>1. /\ Sound(r, a, x) /\ LeftOf(r, a, x) = LeftOf(s, a, x) \cup {row} /\ Blocks(r, a) = B
        /\ \A y \in Walk(s, a) : InodeOn(s, y) # 0 => y \in Walk(r, a) /\ SameWords(s, r, y)
    BY DEF Joined
  <1>2. LeavesOut(r, a, x)
    BY <1>1 DEF LeavesOut, SameWords
  <1>3. a.b \in B
    BY <1>1, WalkStarts
  <1>4. /\ Sound(d, a, x) /\ Walk(d, a) = Walk(r, a) /\ LeftOf(d, a, x) = LeftOf(r, a, x)
        /\ Blocks(d, a) = Blocks(r, a)
        /\ \A y \in Walk(r, a) : SameWords(r, d, y)
    <2>1. \A b \in Blocks(r, a) : b # a.b => d[b] = r[b]
      BY <1>1
    <2>2. \A w \in Word : w >= a.o => d[a.b][w] = r[a.b][w]
      BY <1>3
    <2> QED  BY <1>1, <1>2, <2>1, <2>2, SameTable
  <1> QED  BY <1>1, <1>4 DEF Joined, SameWords

\* The last table is not one that a NEXT ends.
LEMMA LinkNotLast ==
    ASSUME NEW s, NEW a, NEW x, Sound(s, a, x), NEW y \in Walk(s, a), IsNext(s, y),
           InodeOn(s, y) # 0, NEW e \in Walk(s, a), InodeOn(s, e) = 0
    PROVE  y.b # e.b
  <1>1. PICK n, L : IsChain(s, a, n, L)
    BY DEF Sound
  <1>2. /\ n \in Nat /\ n >= 1 /\ Walk(s, a) = PlacesIn(n, L)
        /\ \A j, k \in 1 .. n : j < k => Before(s, L[j], L[k])
    BY <1>1, ChainParts, ChainIsWalked
  <1>3. e = L[n] /\ y # L[n]
    BY <1>1, <1>2, ChainEnd
  <1>4. PICK j \in 1 .. n : y = L[j]
    BY <1>2 DEF PlacesIn
  <1>5. j < n /\ n \in 1 .. n
    BY <1>2, <1>3, <1>4
  <1> QED  BY <1>2, <1>3, <1>4, <1>5 DEF Before

\* An insertion writes to the last table, and to a new one if it has to.
LEMMA InsertElsewhere ==
    ASSUME disk \in Disk, NEW q, NEW m, NEW type, NEW i, NEW c \in Blk, c # End(q).b,
           c \notin NewTables(q, m)
    PROVE  Insert(q, m, type, i).disk[c] = disk[c]
  <1> DEFINE e == End(q)  b == Lowest(free)
  <1>1. CASE e.o + RecLen(m) <= SpaceTotal
    <2>1. Insert(q, m, type, i).disk = [disk EXCEPT ![e.b] = PutEntry(@, e.o, i, type, m)]
      BY <1>1 DEF Insert
    <2> HIDE DEF e
    <2>2. c # e.b
      BY DEF e
    <2> QED  BY <2>1, <2>2 DEF Disk
  <1>2. CASE ~(e.o + RecLen(m) <= SpaceTotal)
    <2>1. Insert(q, m, type, i).disk
            = [disk EXCEPT ![e.b] = PutNext(@, e.o, b), ![b] = PutEntry(@, 0, i, type, m)]
      BY <1>2 DEF Insert
    <2>2. c # e.b /\ c # b
      BY <1>2 DEF NewTables, Claimed
    <2> HIDE DEF e, b
    <2> QED  BY <2>1, <2>2 DEF Disk
  <1> QED  BY <1>1, <1>2


\* What is moved, and the disk d when it is in both directories.
Moving(p, q, n, m, x, i, y, r, d, T) ==
    /\ p \in LiveDirs /\ q \in LiveDirs /\ n \in Names /\ m \in Names
    /\ x \in Entries(p) /\ Same(x, n, "DIR") /\ i = InodeAt(x) /\ MetaAt(x).rec = 3 /\ y = Into(p, x)
    /\ q # i /\ ~Taken(q, m) /\ (Fits(q, m) \/ free # {})
    /\ T = NewTables(q, m) /\ r = Insert(q, m, "DIR", i).disk
    /\ d = [r EXCEPT ![first[i]] = Header(@, i, q)]

Moved(p, q, m, x, i, y, d) ==
    /\ ~D!Within(q, i)
    /\ disk' = TakeOut(d, d[x.b], x, y, 3, 3)
    /\ free' = Insert(q, m, "DIR", i).free \cup IF Unlinks(d[x.b], x, 3) THEN {x.b} ELSE {}
    /\ first' = first /\ used' = used

\* move_dir begins: what the two look-ups found and what the insertion wrote.
LEMMA MoveStarts ==
    ASSUME DirInv(disk, first, used, free), NEW p \in LiveDirs, NEW q \in LiveDirs, NEW n \in Names,
           NEW m \in Names, Move(p, n, q, m)
    PROVE  \E x, i, y : \E r, d, T : Moving(p, q, n, m, x, i, y, r, d, T) /\ Moved(p, q, m, x, i, y, d)
  <1>1. PICK x \in Entries(p) :
           /\ Same(x, n, "DIR")
           /\ \E i \in {InodeAt(x)}, rec \in {MetaAt(x).rec},
                 r \in {IF ExtendsOwnTable(x, End(q), m)
                        THEN [disk |-> [disk EXCEPT ![End(q).b] = PutNext(@, End(q).o, Lowest(free))],
                              free |-> free \ {Lowest(free)}]
                        ELSE Insert(q, m, "DIR", InodeAt(x))} :
              \E d \in {[r.disk EXCEPT ![first[i]] = Header(@, i, q)]} :
              \E t \in {IF ExtendsOwnTable(x, End(q), m) THEN disk[Lowest(free)] ELSE d[x.b]} :
                 /\ disk' = TakeOut(d, t, x, Into(p, x), rec, RecLen("."))
                 /\ free' = r.free \cup IF Unlinks(t, x, rec) THEN {x.b} ELSE {}
    BY DEF Move, MoveDir
  <1>2. ~ExtendsOwnTable(x, End(q), m) /\ ~D!Within(q, InodeAt(x)) /\ n \notin LongNames
        /\ ~Taken(q, m) /\ (Fits(q, m) \/ free # {}) /\ first' = first /\ used' = used
    BY <1>1 DEF Move, MoveDir, OtherTable, Outside
  <1>3. PICK i, y, rec : i = InodeAt(x) /\ y = Into(p, x) /\ rec = MetaAt(x).rec
    OBVIOUS
  <1>4. PICK w : w = Insert(q, m, "DIR", i)
    OBVIOUS
  <1>5. PICK d : d = [w.disk EXCEPT ![first[i]] = Header(@, i, q)]
    OBVIOUS
  <1>6. /\ disk' = TakeOut(d, d[x.b], x, y, rec, RecLen("."))
        /\ free' = w.free \cup IF Unlinks(d[x.b], x, rec) THEN {x.b} ELSE {}
    BY <1>1, <1>2, <1>3, <1>4, <1>5
  <1>7. rec = 3 /\ RecLen(".") = 3
    <2>1. p \in DirsOf(first, used) /\ Children(p) = StartOf(first, p)
          /\ Visited(p) = Walk(disk, StartOf(first, p))
      BY ListingHere
    <2>2. IsRow(disk, x)
      BY <2>1, DirParts, WalkStarts DEF Entries
    <2>3. rec = RecLen(MetaOn(disk, x).name) /\ MetaOn(disk, x).name = n
      BY <1>1, <1>3, <2>2 DEF IsRow, MetaAt, Same
    <2> QED  BY <1>2, <2>3, Numbers DEF RecLen
  <1>8. q # i
    BY <1>2, <1>3 DEF D!Within
  <1>9. Moving(p, q, n, m, x, i, y, w.disk, d, NewTables(q, m))
    BY <1>1, <1>2, <1>3, <1>4, <1>5, <1>7, <1>8 DEF Moving
  <1>10. Moved(p, q, m, x, i, y, d)
    BY <1>2, <1>3, <1>4, <1>6, <1>7 DEF Moved
  <1> QED  BY <1>9, <1>10


\* The tables after the insertion and the header, before the old entry goes.
\* a and b are where p and q start, R and B what they hold before.
Ready(p, q, a, b, x, i, y, d, T, R, B, e, g) ==
    /\ d \in Disk /\ T \subseteq free
    /\ Sound(d, a, x) /\ x \in Walk(d, a) /\ SameWords(disk, d, x) /\ LeadsIn(d, a, x, y)
    /\ x.o = 0 => disk[y.b] = d[y.b]
    /\ \A h : h \in LeftOf(d, a, x) <=> (h \in R[p] /\ h # e) \/ (p = q /\ h = g)
    /\ \A c : c \in Blocks(d, a) <=> c \in B[p] \/ (p = q /\ c \in T)
    /\ p # q => /\ Sound(d, b, Nowhere) /\ LeftOf(d, b, Nowhere) = R[q] \cup {g}
                /\ Blocks(d, b) = B[q] \cup T
    /\ \A c \in Blk : c \notin B[q] /\ c \notin T /\ c # first[i] => d[c] = disk[c]
    /\ \A w \in Word : w < 6 => d[first[q]][w] = disk[first[q]][w]
    /\ d[first[i]][0].inode = i /\ d[first[i]][3].inode = q
    /\ \A w \in Word : w >= 6 => d[first[i]][w] = disk[first[i]][w]

\* Between the insertion and the deletion of move_dir: the target has the new row,
\* and the source still has the old one at the place that was found.
LEMMA MoveReady ==
    ASSUME DirInv(disk, first, used, free), NEW p, NEW q, NEW n, NEW m, NEW x, NEW i, NEW y, NEW r,
           NEW d, NEW T, Moving(p, q, n, m, x, i, y, r, d, T), NEW a, NEW b, NEW e, NEW g,
           a = StartOf(first, p), b = StartOf(first, q), e = Row(disk, x), g = <<m, "DIR", i>>,
           NEW R, NEW B, R = EntriesIn(disk, first, used), B = TablesIn(disk, first, used)
    PROVE  /\ Ready(p, q, a, b, x, i, y, d, T, R, B, e, g)
           /\ Insert(q, m, "DIR", i).free = free \ T
           /\ e \in R[p] /\ e[3] = i /\ e[2] = "DIR" /\ g \in D!Entry /\ IsRow(disk, x)
           /\ i \in DirsOf(first, used) /\ i # p /\ i # q
  <1> DEFINE s == disk  f == first  Dirs == DirsOf(first, used)
             z == IF p = q THEN x ELSE Nowhere
             C == Blocks(disk, b) \cup T
  <1>1. /\ p \in LiveDirs /\ q \in LiveDirs /\ n \in Names /\ m \in Names
        /\ x \in Entries(p) /\ Same(x, n, "DIR") /\ i = InodeOn(s, x) /\ MetaOn(s, x).rec = 3
        /\ y = Into(p, x) /\ q # i /\ (Fits(q, m) \/ free # {})
        /\ T = NewTables(q, m) /\ r = Insert(q, m, "DIR", i).disk
        /\ d = [r EXCEPT ![f[i]] = Header(@, i, q)]
    BY DEF Moving, InodeAt, MetaAt
  <1>2. /\ p \in Dirs /\ Children(p) = a /\ Visited(p) = Walk(s, a)
        /\ q \in Dirs /\ Children(q) = b /\ Visited(q) = Walk(s, b)
    BY <1>1, ListingHere
  <1>3. /\ p \in Inode /\ a.b = f[p] /\ a.o = 6 /\ a.o # 0 /\ Sound(s, a, Nowhere)
        /\ R[p] = LeftOf(s, a, Nowhere) /\ B[p] = Blocks(s, a) /\ Blocks(s, a) \subseteq Blk
        /\ q \in Inode /\ b.b = f[q] /\ b.o = 6 /\ Sound(s, b, Nowhere)
        /\ R[q] = LeftOf(s, b, Nowhere) /\ B[q] = Blocks(s, b) /\ Blocks(s, b) \subseteq Blk
        /\ f[p] \in Blk /\ f[q] \in Blk
    BY <1>2, DirParts
  <1>4. s \in Disk /\ Tree(f, used, R, Itself(s, f), Parent(s, f)) /\ Split(f, used, free, B)
    BY DEF DirInv
  <1>5. x \in Walk(s, a) /\ IsEntry(s, x)
    BY <1>1, <1>2 DEF Entries
  <1>6. /\ LeftOf(s, a, x) = R[p] \ {e} /\ e \in R[p] /\ Sound(s, a, x) /\ IsRow(s, x)
        /\ e \in D!Entry /\ i \in Inode /\ LeavesOut(s, a, x)
        /\ \A h \in LeftOf(s, a, x) : h[3] # i
    BY <1>1, <1>3, <1>5, LeftWithout
  <1>7. e[3] = i /\ e[2] = "DIR"
    BY <1>1 DEF Row, MetaAt, Same
  <1>8. i # Root /\ i # p /\ i \in Dirs /\ f[i] \in Blk
    <2>1. i \in used /\ i # p /\ f[i] # 0 /\ i # Root
      BY <1>3, <1>4, <1>6, <1>7 DEF Tree
    <2> QED  BY <2>1, DirParts DEF DirsOf
  <1>9. /\ g \in D!Entry /\ g[3] = i /\ g[2] = "DIR"
    BY <1>1, <1>6, EntryParts
  \* q without the entry has none of i
  <1>10. /\ Sound(s, b, z) /\ LeavesOut(s, b, z) /\ \A h \in LeftOf(s, b, z) : h[3] # i
         /\ \A h : h \in LeftOf(s, b, z) <=> h \in R[q] /\ ~(p = q /\ h = e)
    <2>1. CASE p = q
      <3>1. a = b /\ z = x
        BY <2>1
      <3> HIDE DEF z
      <3> QED  BY <1>6, <2>1, <3>1
    <2>2. CASE p # q
      <3>1. z = Nowhere /\ LeavesOut(s, b, Nowhere)
        BY <2>2, NowhereIsNoPlace DEF LeavesOut
      <3>2. \A h \in R[q] : h[3] # i
        BY <1>3, <1>4, <1>6, <1>7, <2>2 DEF Tree
      <3> HIDE DEF z
      <3> QED  BY <1>3, <2>2, <3>1, <3>2
    <2> QED  BY <2>1, <2>2
  <1> HIDE DEF z, C
  <1>11. /\ r \in Disk /\ Insert(q, m, "DIR", i).free = free \ T /\ T \subseteq free
         /\ Joined(s, r, b, z, g, C) /\ Confined(s, r, b, T)
    <2>1. InsertsHere(q, b, z, i, "DIR", m, r, C, T)
      BY <1>1, <1>2, <1>6, <1>10 DEF InsertsHere, C
    <2>2. DirInv(disk, first, used, free)
      OBVIOUS
    <2>3. InsertDone(q, b, z, i, "DIR", m, r, C, T)
      BY ONLY <2>1, <2>2, InsertHere
    <2> QED  BY <2>3 DEF InsertDone
  \* the header of i
  <1>12. /\ Blocks(s, b) \cap free = {} /\ f[i] \notin Blocks(s, b) /\ f[i] \notin free
         /\ f[i] \notin C /\ f[i] \notin Blocks(s, a)
         /\ p # q => Blocks(s, a) \cap Blocks(s, b) = {} /\ Blocks(s, a) \cap free = {}
    <2>1. f[i] \in B[i] /\ B[i] \cap B[q] = {} /\ B[i] \cap B[p] = {} /\ B[i] \cap free = {}
          /\ B[q] \cap free = {} /\ B[p] \cap free = {} /\ (p # q => B[p] \cap B[q] = {})
      BY <1>1, <1>2, <1>4, <1>8 DEF Split
    <2> QED  BY <1>3, <1>11, <2>1 DEF C
  <1>13. /\ d \in Disk /\ \A c \in Blk : c # f[i] => d[c] = r[c]
         /\ d[f[i]][0].inode = i /\ d[f[i]][3].inode = q
         /\ \A w \in Word : w # 0 /\ w # 3 => d[f[i]][w] = r[f[i]][w]
    <2>1. PICK t : t = Header(r[f[i]], i, q)
      OBVIOUS
    <2>2. r \in [Blk -> [Word -> Cell]] /\ r[f[i]] \in [Word -> Cell]
      BY <1>8, <1>11 DEF Disk
    <2>3. t \in [Word -> Cell] /\ t[0].inode = i /\ t[3].inode = q
          /\ \A w \in Word : w # 0 /\ w # 3 => t[w] = r[f[i]][w]
      BY <1>3, <1>6, <2>1, <2>2, HeaderWords
    <2>4. d = [r EXCEPT ![f[i]] = t]
      BY <1>1, <2>1
    <2>5. d \in [Blk -> [Word -> Cell]] /\ d[f[i]] = t /\ \A c \in Blk : c # f[i] => d[c] = r[c]
      BY <1>8, <2>2, <2>3, <2>4
    <2> QED  BY <2>3, <2>5 DEF Disk
  <1>14. C \subseteq Blk
    BY <1>3, <1>4, <1>11 DEF Split, C
  <1>15. Joined(s, d, b, z, g, C)
    <2>1. \A c \in C : d[c] = r[c]
      BY <1>12, <1>13, <1>14
    <2> QED  BY <1>10, <1>11, <2>1, JoinedAway
  <1>16. /\ \A c \in Blk : c \notin B[q] /\ c \notin T /\ c # f[i] => d[c] = s[c]
         /\ \A w \in Word : w < 6 => d[f[q]][w] = s[f[q]][w]
         /\ \A w \in Word : w >= 6 => d[f[i]][w] = s[f[i]][w]
    <2>1. r[f[i]] = s[f[i]]
      BY <1>8, <1>11, <1>12 DEF Confined
    <2>2. \A w \in Word : w >= 6 => w # 0 /\ w # 3
      BY Numbers DEF Word
    <2>3. f[q] # f[i]
      BY <1>3, <1>12, WalkStarts
    <2> QED  BY <1>3, <1>11, <1>13, <2>1, <2>2, <2>3 DEF Confined
  \* p, still with the entry
  <1>17. /\ Sound(d, a, x) /\ \A w \in Walk(s, a) : InodeOn(s, w) # 0 => w \in Walk(d, a) /\ SameWords(s, d, w)
         /\ \A h : h \in LeftOf(d, a, x) <=> (h \in R[p] /\ h # e) \/ (p = q /\ h = g)
         /\ \A c : c \in Blocks(d, a) <=> c \in B[p] \/ (p = q /\ c \in T)
    <2>1. CASE p = q
      <3>1. a = b /\ z = x
        BY <2>1 DEF z
      <3>2. /\ Sound(d, a, x) /\ LeftOf(d, a, x) = LeftOf(s, a, x) \cup {g} /\ Blocks(d, a) = C
            /\ \A w \in Walk(s, a) : InodeOn(s, w) # 0 => w \in Walk(d, a) /\ SameWords(s, d, w)
        BY <1>15, <3>1 DEF Joined
      <3> QED  BY <1>3, <1>6, <2>1, <3>1, <3>2 DEF C
    <2>2. CASE p # q
      <3>1. \A c \in Blocks(s, a) : d[c] = s[c]
        BY <1>3, <1>11, <1>12, <1>16, <2>2
      <3>2. a.b \in Blocks(s, a)
        BY <1>3, WalkStarts
      <3>3. /\ Sound(d, a, x) /\ Walk(d, a) = Walk(s, a) /\ LeftOf(d, a, x) = LeftOf(s, a, x)
            /\ Blocks(d, a) = Blocks(s, a) /\ \A w \in Walk(s, a) : SameWords(s, d, w)
        <4>1. \A c \in Blocks(s, a) : c # a.b => d[c] = s[c]
          BY <3>1
        <4>2. \A w \in Word : w >= a.o => d[a.b][w] = s[a.b][w]
          BY <3>1, <3>2
        <4>3. Sound(s, a, x) /\ LeavesOut(s, a, x)
          BY <1>6
        <4> QED  BY ONLY <4>1, <4>2, <4>3, SameTable
      <3> QED  BY <1>3, <1>6, <2>2, <3>3
    <2> QED  BY <2>1, <2>2
  <1>18. x \in Walk(d, a) /\ SameWords(s, d, x)
    BY <1>5, <1>17 DEF IsEntry
  <1>19. LeadsIn(d, a, x, y) /\ (x.o = 0 => s[y.b] = d[y.b])
    <2>1. SUFFICES ASSUME x.o = 0
                   PROVE  /\ y \in Walk(d, a) /\ IsNext(d, y) /\ InodeOn(d, y) = x.b
                          /\ s[y.b] = d[y.b]
      BY DEF LeadsIn
    <2>2. y \in Walk(s, a) /\ IsNext(s, y) /\ InodeOn(s, y) = x.b
      <3>1. LeadsIn(disk, Children(p), x, Into(p, x))
        BY <1>1, <1>2, <1>3, <2>1, IntoLeads
      <3> QED  BY <1>1, <1>2, <2>1, <3>1 DEF LeadsIn
    <2>3. x.b # 0 /\ y.b \in Blocks(s, a) /\ y.b \in Blk
      <3>1. x.b \in Blk /\ y.b \in Blk /\ y.b \in Blocks(s, a)
        BY <1>3, <1>5, <2>2, WalkStarts
      <3> QED  BY <3>1, Numbers DEF Blk
    <2>4. y \in Walk(d, a) /\ SameWords(s, d, y)
      BY <1>17, <2>2, <2>3
    <2>5. IsNext(d, y) /\ InodeOn(d, y) = x.b
      BY <2>2, <2>4, SameWordsSame DEF SameWords
    <2>6. s[y.b] = d[y.b]
      <3>1. CASE p = q
        <4>1. End(q) \in Walk(s, b) /\ InodeOn(s, End(q)) = 0
          BY <1>2, <1>3, WalkStarts DEF End, InodeAt
        <4>2. y.b # End(q).b
          BY <1>3, <2>2, <2>3, <3>1, <4>1, LinkNotLast
        <4>3. y.b \notin T
          BY <1>11, <1>12, <2>3, <3>1
        <4>4. r[y.b] = s[y.b]
          BY <1>1, <1>4, <2>3, <4>2, <4>3, InsertElsewhere
        <4> QED  BY <1>12, <1>13, <2>3, <4>4
      <3>2. CASE p # q
        BY <1>3, <1>11, <1>12, <1>16, <2>3, <3>2
      <3> QED  BY <3>1, <3>2
    <2> QED  BY <2>4, <2>5, <2>6
  <1>20. p # q => /\ Sound(d, b, Nowhere) /\ LeftOf(d, b, Nowhere) = R[q] \cup {g}
                  /\ Blocks(d, b) = B[q] \cup T
    BY <1>3, <1>15 DEF Joined, z, C
  <1>21. Ready(p, q, a, b, x, i, y, d, T, R, B, e, g)
    BY <1>11, <1>13, <1>16, <1>17, <1>18, <1>19, <1>20 DEF Ready
  <1> QED  BY <1>1, <1>6, <1>7, <1>8, <1>9, <1>11, <1>21


\* move_dir of the code keeps the invariant and is the move of one row.
LEMMA MoveStep ==
    ASSUME DirInv(disk, first, used, free), NEW p \in LiveDirs, NEW q \in LiveDirs, NEW n \in Names,
           NEW m \in Names, Move(p, n, q, m)
    PROVE  /\ DirInv(disk', first', used', free')
           /\ \E e \in EntriesIn(disk, first, used)[p] :
                 /\ e[2] = "DIR" /\ ~D!Within(q, e[3])
                 /\ EntriesIn(disk', first', used')
                      = RowMoved(EntriesIn(disk, first, used), p, e, q, <<m, "DIR", e[3]>>)
  <1> DEFINE s == disk  f == first  u == used  Dirs == DirsOf(first, used)
  <1>1. PICK x, i, y, r, d, T : Moving(p, q, n, m, x, i, y, r, d, T) /\ Moved(p, q, m, x, i, y, d)
    BY MoveStarts
  <1>2. PICK a, b : a = StartOf(f, p) /\ b = StartOf(f, q)
    OBVIOUS
  <1>3. PICK R, B : R = EntriesIn(s, f, u) /\ B = TablesIn(s, f, u)
    OBVIOUS
  <1>4. PICK e, g : e = Row(s, x) /\ g = <<m, "DIR", i>>
    OBVIOUS
  <1>5. /\ Ready(p, q, a, b, x, i, y, d, T, R, B, e, g)
        /\ Insert(q, m, "DIR", i).free = free \ T
        /\ e \in R[p] /\ e[3] = i /\ e[2] = "DIR" /\ g \in D!Entry /\ IsRow(s, x)
        /\ i \in Dirs /\ i # p /\ i # q
    BY <1>1, <1>2, <1>3, <1>4, MoveReady
  <1>6. /\ d \in Disk /\ T \subseteq free
        /\ Sound(d, a, x) /\ x \in Walk(d, a) /\ SameWords(s, d, x) /\ LeadsIn(d, a, x, y)
        /\ x.o = 0 => s[y.b] = d[y.b]
        /\ \A h : h \in LeftOf(d, a, x) <=> (h \in R[p] /\ h # e) \/ (p = q /\ h = g)
        /\ \A c : c \in Blocks(d, a) <=> c \in B[p] \/ (p = q /\ c \in T)
    BY <1>5 DEF Ready
  <1>7. /\ p # q => /\ Sound(d, b, Nowhere) /\ LeftOf(d, b, Nowhere) = R[q] \cup {g}
                    /\ Blocks(d, b) = B[q] \cup T
        /\ \A c \in Blk : c \notin B[q] /\ c \notin T /\ c # f[i] => d[c] = s[c]
        /\ \A w \in Word : w < 6 => d[f[q]][w] = s[f[q]][w]
        /\ d[f[i]][0].inode = i /\ d[f[i]][3].inode = q
        /\ \A w \in Word : w >= 6 => d[f[i]][w] = s[f[i]][w]
    BY <1>5 DEF Ready
  <1>8. /\ p \in Dirs /\ q \in Dirs /\ p \in Inode /\ q \in Inode /\ a.b = f[p] /\ a.o = 6 /\ a.o # 0
        /\ b.b = f[q] /\ b.o = 6 /\ f[p] \in Blk /\ f[q] \in Blk /\ i \in Inode /\ f[i] \in Blk
    BY <1>2, <1>5, ListingHere, DirParts
  <1>9. /\ s \in Disk /\ Tree(f, u, R, Itself(s, f), Parent(s, f)) /\ Split(f, u, free, B)
    BY <1>3 DEF DirInv
  \* the old entry goes
  <1>10. IsRow(d, x) /\ MetaOn(d, x).rec = 3
    <2>1. MetaOn(s, x).rec = 3 /\ MetaOn(d, x) = MetaOn(s, x)
      BY <1>1, <1>6 DEF Moving, MetaAt, SameWords
    <2> QED  BY <1>5, <1>6, <2>1, SameWordsSame
  <1>11. /\ disk' \in Disk /\ Sound(disk', a, Nowhere)
         /\ LeftOf(disk', a, Nowhere) = LeftOf(d, a, x)
         /\ Blocks(disk', a) = Blocks(d, a) \ Emptied(d, x)
         /\ \A c \in Blk : c \notin Blocks(d, a) => disk'[c] = d[c]
         /\ \A w \in Word : w < 6 => disk'[f[p]][w] = d[f[p]][w]
    <2>1. disk' = TakeOut(d, d[x.b], x, y, 3, 3)
      BY <1>1 DEF Moved
    <2> QED  BY <1>6, <1>8, <1>10, <2>1, TakenOut
  <1>12. /\ B[p] \cap free = {} /\ B[q] \cap free = {} /\ f[p] \in B[p] /\ f[q] \in B[q]
         /\ B[p] \subseteq Blk /\ B[q] \subseteq Blk /\ (p # q => B[p] \cap B[q] = {})
         /\ free \subseteq Blk
    BY <1>8, <1>9 DEF Split
  \* in q there is the new one
  <1>13. ASSUME p # q
         PROVE  /\ Sound(disk', b, Nowhere) /\ LeftOf(disk', b, Nowhere) = R[q] \cup {g}
                /\ Blocks(disk', b) = B[q] \cup T /\ disk'[f[q]] = d[f[q]]
    <2>1. \A c \in B[q] \cup T : disk'[c] = d[c]
      BY <1>6, <1>11, <1>12, <1>13
    <2>2. Sound(d, b, Nowhere) /\ Blocks(d, b) = B[q] \cup T /\ LeftOf(d, b, Nowhere) = R[q] \cup {g}
      BY <1>7, <1>13
    <2>3. LeavesOut(d, b, Nowhere) /\ b.b \in Blocks(d, b)
      BY <1>8, <1>12, <2>2, NowhereIsNoPlace DEF LeavesOut
    <2>4. /\ Sound(disk', b, Nowhere) /\ LeftOf(disk', b, Nowhere) = LeftOf(d, b, Nowhere)
          /\ Blocks(disk', b) = Blocks(d, b)
      <3>1. \A c \in Blocks(d, b) : c # b.b => disk'[c] = d[c]
        BY <2>1, <2>2
      <3>2. \A w \in Word : w >= b.o => disk'[b.b][w] = d[b.b][w]
        BY <2>1, <2>2, <2>3
      <3> QED  BY ONLY <2>2, <2>3, <3>1, <3>2, SameTable
    <2> QED  BY <1>12, <2>1, <2>2, <2>4
  \* the others are as before, but for the header of i
  <1>14. ASSUME NEW c \in Dirs, c # p, c # q
         PROVE  /\ Sound(disk', StartOf(f, c), Nowhere)
                /\ LeftOf(disk', StartOf(f, c), Nowhere) = R[c]
                /\ Blocks(disk', StartOf(f, c)) = B[c]
                /\ disk'[f[c]] = d[f[c]] /\ (c # i => d[f[c]] = s[f[c]])
    <2>1. /\ c \in Inode /\ f[c] \in Blk /\ B[c] = Blocks(s, StartOf(f, c))
          /\ R[c] = EntriesIn(s, f, u)[c] /\ B[c] = TablesIn(s, f, u)[c]
      BY <1>3, DirParts
    <2>2. /\ B[c] \cap B[p] = {} /\ B[c] \cap B[q] = {} /\ B[c] \cap free = {} /\ B[c] \subseteq Blk
          /\ f[c] \in B[c]
      BY <1>8, <1>9, <1>14 DEF Split
    <2>3. \A k \in B[c] : disk'[k] = d[k] /\ (k # f[i] => d[k] = s[k])
      BY <1>6, <1>7, <1>11, <2>2
    <2>4. \A k \in B[c] : k = f[i] => c = i
      BY <1>5, <1>9 DEF Split
    <2>5. \A k \in B[c] : k # f[c] => disk'[k] = s[k]
      BY <2>3, <2>4
    <2>6. \A w \in Word : w >= 6 => disk'[f[c]][w] = s[f[c]][w]
      BY <1>7, <2>2, <2>3
    <2>7. c # i => d[f[c]] = s[f[c]]
      BY <2>2, <2>3, <2>4
    <2>8. /\ Sound(disk', StartOf(f, c), Nowhere)
          /\ LeftOf(disk', StartOf(f, c), Nowhere) = EntriesIn(s, f, u)[c]
          /\ Blocks(disk', StartOf(f, c)) = TablesIn(s, f, u)[c]
      BY <2>1, <2>5, <2>6, SameDirectory
    <2> QED  BY <2>1, <2>2, <2>3, <2>7, <2>8
  <1>15. \A c \in Dirs : Sound(disk', StartOf(f, c), Nowhere)
    BY <1>2, <1>11, <1>13, <1>14
  <1> DEFINE S == RowMoved(R, p, e, q, g)
  <1>16. /\ S \in [Inode -> SUBSET D!Entry]
         /\ \A c \in Inode : \A h : h \in S[c] <=> (h \in R[c] /\ ~(c = p /\ h = e)) \/ (c = q /\ h = g)
    <2>1. R \in [Inode -> SUBSET D!Entry]
      BY <1>9 DEF Tree
    <2> QED  BY <1>5, <2>1 DEF RowMoved
  <1> HIDE DEF S
  <1>17. EntriesIn(disk', f, u) = S
    <2>1. ASSUME NEW c \in Inode PROVE EntriesIn(disk', f, u)[c] = S[c]
      <3>1. CASE c = p
        <4>1. EntriesIn(disk', f, u)[c] = LeftOf(d, a, x)
          BY <1>2, <1>8, <1>11, <3>1 DEF EntriesIn
        <4> QED  BY <1>6, <1>16, <3>1, <4>1
      <3>2. CASE c = q /\ p # q
        <4>1. EntriesIn(disk', f, u)[c] = R[q] \cup {g}
          BY <1>2, <1>8, <1>13, <3>2 DEF EntriesIn
        <4> QED  BY <1>16, <3>2, <4>1
      <3>3. CASE c # p /\ c # q
        <4>1. EntriesIn(disk', f, u)[c] = R[c]
          <5>1. CASE c \in Dirs
            BY <1>14, <3>3, <5>1 DEF EntriesIn
          <5>2. CASE c \notin Dirs
            BY <1>9, <5>2 DEF EntriesIn, Tree
          <5> QED  BY <5>1, <5>2
        <4> QED  BY <1>16, <3>3, <4>1
      <3> QED  BY <3>1, <3>2, <3>3
    <2> QED  BY <1>16, <2>1 DEF EntriesIn
  <1>18. Tree(f, u, S, Itself(disk', f), Parent(disk', f))
    <2>0. 0 \in Word /\ 3 \in Word /\ 0 < 6 /\ 3 < 6 /\ RecLen(".") = 3
      BY Numbers DEF Word
    <2>1. ASSUME NEW c \in Dirs
          PROVE  /\ c # i => disk'[f[c]][0] = s[f[c]][0] /\ disk'[f[c]][3] = s[f[c]][3]
                 /\ c = i => disk'[f[c]][0].inode = i /\ disk'[f[c]][3].inode = q
      <3>1. CASE c = q
        <4>1. disk'[f[q]][0] = d[f[q]][0] /\ disk'[f[q]][3] = d[f[q]][3]
          BY <1>11, <1>13, <2>0
        <4> QED  BY <1>5, <1>7, <2>0, <3>1, <4>1
      <3>2. CASE c = p /\ p # q
        <4>1. disk'[f[p]][0] = d[f[p]][0] /\ disk'[f[p]][3] = d[f[p]][3]
          BY <1>11, <2>0
        <4>2. d[f[p]] = s[f[p]]
          <5>1. f[p] # f[i]
            BY <1>5, <1>8, <1>9 DEF Split
          <5> QED  BY <1>6, <1>7, <1>8, <1>12, <3>2, <5>1
        <4> QED  BY <1>5, <3>2, <4>1, <4>2
      <3>3. CASE c # p /\ c # q
        BY <1>7, <1>14, <3>3
      <3> QED  BY <3>1, <3>2, <3>3
    <2>2. ASSUME NEW c \in Dirs
          PROVE  /\ Itself(disk', f)[c] = c
                 /\ Parent(disk', f)[c] = IF c = i THEN q ELSE Parent(s, f)[c]
      <3>1. c \in Inode /\ Itself(s, f)[c] = c
        BY <1>9, DirParts DEF Tree
      <3> QED  BY <2>0, <2>1, <3>1 DEF Itself, Parent
    <2>3. g[3] = i /\ g[2] = "DIR"
      BY <1>4
    <2>4. Moves(f, u, R, Itself(s, f), Parent(s, f), p, e, q, g, S, Itself(disk', f), Parent(disk', f))
      BY <1>5, <1>8, <1>9, <2>2, <2>3 DEF Moves, S
    <2> QED  BY <2>4, MoveTree
  \* q takes the blocks of T, p gives up the one that was emptied
  <1>19. Split(f, u, free', TablesIn(disk', f, u))
    <2>1. PICK C : C = [c \in Inode |-> B[c] \cup (IF c = q THEN T ELSE {})]
      OBVIOUS
    <2>2. PICK left, E : left = free \ T /\ E = Emptied(d, x)
      OBVIOUS
    <2>3. Split(f, u, left, C)
      <3>1. 0 \notin Dirs /\ \A c \in Dirs : c \in Inode
        <4>1. \A c \in Dirs : c \in Inode
          BY DirParts
        <4> QED  BY <4>1 DEF Inode
      <3>2. \A c \in Dirs : C[c] = B[c] \cup (IF c = q THEN T ELSE {})
        BY <2>1, <3>1
      <3>3. Grows(f, u, free, B, q, T, 0, 0, f, u, C, left)
        BY <1>6, <1>8, <1>9, <2>2, <3>1, <3>2 DEF Grows
      <3> QED  BY <3>3, SplitGrows
    <2>4. E \in SUBSET C[p] /\ E = IF Unlinks(d[x.b], x, 3) THEN {x.b} ELSE {}
      <3>1. x.b \in Blocks(d, a)
        BY <1>6, WalkStarts
      <3>2. x.b \in C[p]
        BY <1>6, <1>8, <2>1, <3>1
      <3> QED  BY <1>10, <2>2, <3>2 DEF Emptied
    <2>5. f[p] \notin E
      <3>1. f[p] \in Blocks(disk', a)
        BY <1>8, <1>11, WalkStarts
      <3> QED  BY <1>11, <2>2, <3>1
    <2>6. PICK F : F = TablesIn(disk', f, u)
      OBVIOUS
    <2>7. ASSUME NEW c \in Dirs PROVE F[c] = C[c] \ (IF c = p THEN E ELSE {})
      <3>0. c \in Inode
        BY DirParts
      <3>1. F[c] = Blocks(disk', StartOf(f, c)) /\ C[c] = B[c] \cup (IF c = q THEN T ELSE {})
        BY <2>1, <2>6, <3>0 DEF TablesIn
      <3>2. CASE c = p
        BY <1>2, <1>6, <1>11, <2>2, <3>1, <3>2
      <3>3. CASE c = q /\ p # q
        BY <1>2, <1>13, <3>1, <3>3
      <3>4. CASE c # p /\ c # q
        BY <1>14, <3>1, <3>4
      <3> QED  BY <3>2, <3>3, <3>4
    <2>8. \A k : k \in free' <=> k \in left \cup E \/ \E c \in Dirs \ Dirs : k \in C[c]
      BY <1>1, <1>5, <2>2, <2>4 DEF Moved
    <2> QED  BY <1>8, <2>3, <2>4, <2>5, <2>6, <2>7, <2>8, SplitShrinks
  <1>20. first' = first /\ used' = used /\ ~D!Within(q, i)
    BY <1>1 DEF Moved
  <1>21. DirInv(disk', first', used', free')
    BY <1>11, <1>15, <1>17, <1>18, <1>19, <1>20 DEF DirInv
  <1> QED  BY <1>3, <1>4, <1>5, <1>17, <1>20, <1>21 DEF S


(***************************************************************************)
(* The invariant.                                                          *)
(***************************************************************************)

\* The formatted disk satisfies the invariant.
LEMMA InitInv == Init => DirInv(disk, first, used, free)
  <1> SUFFICES ASSUME Init PROVE DirInv(disk, first, used, free)
    OBVIOUS
  <1>0. PICK a : a = At(1, 6)
    OBVIOUS
  <1>1. PICK type \in StackTypes :
           disk = [b \in Blk |-> IF b = 1 THEN NewTable(Root, Root, type) ELSE [w \in Word |-> Pad]]
    BY DEF Init
  <1>2. Root \in Inode /\ 1 \in Blk /\ Root = 1
    BY Numbers
  <1>3. first \in [Inode -> 0 .. MaxBlock] /\ used = {Root} /\ first[Root] = 1
        /\ free = Blk \ {1} /\ DirsOf(first, used) = {Root} /\ StartOf(first, Root) = a
    <2>1. used = {Root} /\ first = [i \in Inode |-> IF i = Root THEN 1 ELSE 0] /\ free = Blk \ {1}
      BY DEF Init
    <2>2. 0 \in 0 .. MaxBlock /\ 1 \in 0 .. MaxBlock
      BY Numbers
    <2>3. first[Root] = 1 /\ first \in [Inode -> 0 .. MaxBlock]
      BY <1>2, <2>1, <2>2
    <2> QED  BY <1>0, <2>1, <2>3, Numbers DEF DirsOf, StartOf
  <1>4. PICK t : t = NewTable(Root, Root, type)
    OBVIOUS
  <1>5. t \in [Word -> Cell] /\ t[0].inode = Root /\ t[3].inode = Root /\ t[6].inode = 0
    BY <1>2, <1>4, NewTableWords
  <1>6. disk \in Disk /\ disk[1] = t
    <2>1. Pad \in Cell
      <3>1. Junk \in 0 .. Junk /\ 0 \in Nat /\ "none" \in CellType /\ NoName \in CellName
        BY Numbers DEF CellType, CellName
      <3> QED  BY <3>1 DEF Pad, Cell
    <2>2. disk = [b \in Blk |-> IF b = 1 THEN t ELSE [w \in Word |-> Pad]]
      BY <1>1, <1>4
    <2> QED  BY <1>2, <1>5, <2>1, <2>2 DEF Disk
  <1>7. a.b = 1 /\ a.o = 6 /\ a \in Place /\ a.o <= SpaceTotal /\ InodeOn(disk, a) = 0
    <2>1. a.b = 1 /\ a.o = 6 /\ a \in Place /\ 6 <= SpaceTotal
      BY <1>0, <1>2, Places, Numbers
    <2> QED  BY <1>5, <1>6, <2>1 DEF InodeOn
  <1>8. Sound(disk, a, Nowhere) /\ LeftOf(disk, a, Nowhere) = {} /\ Blocks(disk, a) = {1}
    BY <1>7, EmptyTable, NewDirectory
  <1>9. PICK R, B : R = EntriesIn(disk, first, used) /\ B = TablesIn(disk, first, used)
    OBVIOUS
  <1>10. R \in [Inode -> SUBSET D!Entry] /\ \A d \in Inode : R[d] = {}
    BY <1>3, <1>8, <1>9 DEF EntriesIn
  <1>11. B[Root] = {1}
    BY <1>2, <1>3, <1>8, <1>9 DEF TablesIn
  <1>12. Tree(first, used, R, Itself(disk, first), Parent(disk, first))
    <2>1. Itself(disk, first)[Root] = Root
      BY <1>2, <1>3, <1>5, <1>6 DEF Itself
    <2>2. used \subseteq Inode /\ Root \in used /\ first[Root] # 0
      BY <1>2, <1>3
    <2>3. \A d \in DirsOf(first, used) : d = Root
      BY <1>3
    <2> QED  BY <1>3, <1>10, <2>1, <2>2, <2>3 DEF Tree
  <1>13. Split(first, used, free, B)
    BY <1>2, <1>3, <1>11 DEF Split
  <1> QED  BY <1>3, <1>6, <1>8, <1>9, <1>12, <1>13 DEF DirInv

\* A lookup that finds no entry at the start of a table changes nothing.
LEMMA LookupStep ==
    ASSUME NEW p, NEW n, Lookup(p, n)
    PROVE  disk' = disk /\ first' = first /\ used' = used /\ free' = free
  BY DEF Lookup, NotFirst, ReadDirectory

\* Every step of the tables keeps the invariant.
LEMMA NextInv == DirInv(disk, first, used, free) /\ [Next]_vars
                    => DirInv(disk', first', used', free')
  <1> SUFFICES ASSUME DirInv(disk, first, used, free), [Next]_vars
               PROVE  DirInv(disk', first', used', free')
    OBVIOUS
  <1>1. CASE UNCHANGED vars
    BY <1>1 DEF vars
  <1>2. ASSUME NEW p \in LiveDirs, NEW n \in Names, MakeFolder(p, n)
        PROVE  DirInv(disk', first', used', free')
    <2>1. "DIR" \in {"REG", "DIR"} /\ Write(p, n, "DIR")
      BY <1>2 DEF MakeFolder
    <2> QED  BY <2>1, WriteStep
  <1>3. ASSUME NEW p \in LiveDirs, NEW n \in Names, WriteFile(p, n)
        PROVE  DirInv(disk', first', used', free')
    <2>1. "REG" \in {"REG", "DIR"} /\ Write(p, n, "REG")
      BY <1>3 DEF WriteFile
    <2> QED  BY <2>1, WriteStep
  <1>4. ASSUME NEW p \in LiveDirs, NEW n \in Names, NEW type \in {"REG", "DIR"}, Delete(p, n, type)
        PROVE  DirInv(disk', first', used', free')
    BY <1>4, DeleteStep
  <1>5. ASSUME NEW p \in LiveDirs, NEW q \in LiveDirs, NEW n \in Names, NEW m \in Names, Move(p, n, q, m)
        PROVE  DirInv(disk', first', used', free')
    BY <1>5, MoveStep
  <1>6. ASSUME NEW p \in LiveDirs, NEW n \in Names, Lookup(p, n)
        PROVE  DirInv(disk', first', used', free')
    BY <1>6, LookupStep
  <1> QED  BY <1>1, <1>2, <1>3, <1>4, <1>5, <1>6 DEF Next

DirTablesSound == DirInv(disk, first, used, free)

\* Every directory is a chain of entries that ends in a free one, in tables of its own, and
\* the directories are a tree, whatever write, delete and move_dir did to the words.
THEOREM AlwaysSound == Spec => []DirTablesSound
  <1>1. Init => DirTablesSound
    BY InitInv DEF DirTablesSound
  <1>2. DirTablesSound /\ [Next]_vars => DirTablesSound'
    BY NextInv DEF DirTablesSound
  <1> QED  BY <1>1, <1>2, PTL DEF Spec


(***************************************************************************)
(* What a run checks, from the invariant.                                  *)
(***************************************************************************)

\* The blocks that the entries lie in are the blocks the walk comes through.
LEMMA ChainIsBlocks ==
    ASSUME DirTablesSound, NEW d \in LiveDirs
    PROVE  Chain(d) = TablesIn(disk, first, used)[d]
  <1>1. d \in DirsOf(first, used) /\ Children(d) = StartOf(first, d)
        /\ Visited(d) = Walk(disk, StartOf(first, d))
    BY ListingHere
  <1>2. /\ Sound(disk, StartOf(first, d), Nowhere)
        /\ TablesIn(disk, first, used)[d] = Blocks(disk, StartOf(first, d))
    BY <1>1, DirParts DEF DirTablesSound
  <1>3. PICK n, L : IsChain(disk, StartOf(first, d), n, L)
    BY <1>2 DEF Sound
  <1>4. BlocksOf(disk, first, d) = BlocksIn(n, L) /\ Walk(disk, StartOf(first, d)) = PlacesIn(n, L)
    BY <1>3, ChainContents
  <1>5. Blocks(disk, StartOf(first, d)) = BlocksIn(n, L)
    BY <1>4 DEF Blocks, PlacesIn, BlocksIn
  <1>6. Chain(d) = BlocksOf(disk, first, d)
    BY <1>1 DEF Chain, BlocksOf, Entries, EntriesOf
  <1> QED  BY <1>2, <1>4, <1>5, <1>6

\* No block is lost, and none is used twice: it is free or a table of one directory.
THEOREM TablesAlwaysPartition == Spec => []TablesPartition
  <1>1. DirTablesSound => TablesPartition
    <2> SUFFICES ASSUME DirTablesSound PROVE TablesPartition
      OBVIOUS
    <2>1. PICK B : B = TablesIn(disk, first, used)
      OBVIOUS
    <2>2. Split(first, used, free, B) /\ LiveDirs = DirsOf(first, used)
      BY <2>1, ListingHere DEF DirTablesSound, DirInv
    <2>3. \A d \in LiveDirs : Chain(d) = B[d]
      BY <2>1, ChainIsBlocks
    <2>4. \A c, d \in LiveDirs : c # d => Chain(c) \cap Chain(d) = {}
      BY <2>2, <2>3 DEF Split
    <2>5. ASSUME NEW b PROVE b \in UNION {Chain(d) : d \in LiveDirs} <=> b \in Blk \ free
      <3>1. b \in UNION {Chain(d) : d \in LiveDirs} <=> \E d \in LiveDirs : b \in B[d]
        BY <2>3
      <3>2. (\E d \in LiveDirs : b \in B[d]) <=> b \in Blk \ free
        BY <2>2 DEF Split
      <3> QED  BY <3>1, <3>2
    <2>6. UNION {Chain(d) : d \in LiveDirs} = Blk \ free
      BY <2>5
    <2> QED  BY <2>4, <2>6 DEF TablesPartition
  <1> QED  BY <1>1, AlwaysSound, PTL

\* The entries of the specification's directories are the invariant's.
LEMMA ListingBar ==
    DirTablesSound => [d \in Inode |-> Listing(d)] = EntriesIn(disk, first, used)
  <1> SUFFICES ASSUME DirTablesSound
               PROVE  [d \in Inode |-> Listing(d)] = EntriesIn(disk, first, used)
    OBVIOUS
  <1>1. [d \in Inode |-> Listing(d)] = [d \in Inode |-> ListingOf(disk, first, used, d)]
    BY ListingHere
  <1> QED  BY <1>1, ListingIs DEF DirTablesSound

\* ".." of every directory names the one that its entry is in, wherever it was moved.
THEOREM ParentsAlwaysLinked == Spec => []ParentLinks
  <1>1. DirTablesSound => ParentLinks
    <2> SUFFICES ASSUME DirTablesSound, NEW d \in LiveDirs
                 PROVE  /\ disk[first[d]][0].inode = d
                        /\ \A x \in Entries(d) : MetaAt(x).type = "DIR" =>
                              /\ InodeAt(x) \in LiveDirs
                              /\ disk[first[InodeAt(x)]][RecLen(".")].inode = d
      BY DEF ParentLinks
    <2>1. PICK R : R = EntriesIn(disk, first, used)
      OBVIOUS
    <2>2. /\ Tree(first, used, R, Itself(disk, first), Parent(disk, first))
          /\ LiveDirs = DirsOf(first, used)
      BY <2>1, ListingHere DEF DirTablesSound, DirInv
    <2>3. d \in Inode
      BY <2>2 DEF Tree, DirsOf
    <2>4. disk[first[d]][0].inode = d
      BY <2>2, <2>3 DEF Tree, Itself
    <2>5. ASSUME NEW x \in Entries(d), MetaAt(x).type = "DIR"
          PROVE  InodeAt(x) \in LiveDirs /\ disk[first[InodeAt(x)]][RecLen(".")].inode = d
      <3>1. R[d] = Listing(d)
        BY <2>1, <2>3, ListingBar
      <3>2. PICK e : e = <<MetaAt(x).name, MetaAt(x).type, InodeAt(x)>>
        OBVIOUS
      <3>3. e \in R[d] /\ e[2] = "DIR" /\ e[3] = InodeAt(x)
        BY <2>5, <3>1, <3>2 DEF Listing
      <3>4. e[3] \in used /\ first[e[3]] # 0 /\ Parent(disk, first)[e[3]] = d
        BY <2>2, <2>3, <3>3 DEF Tree
      <3>5. e[3] \in Inode
        BY <2>2, <3>4 DEF Tree
      <3> QED  BY <2>2, <3>3, <3>4, <3>5 DEF Parent, DirsOf
    <2> QED  BY <2>4, <2>5
  <1> QED  BY <1>1, AlwaysSound, PTL


(***************************************************************************)
(* The tables implement Directory.                                         *)
(***************************************************************************)

\* What the specification asks of a directory's name, of an inode and of a
\* directory, in the tables.
LEMMA GuardsHold ==
    ASSUME DirTablesSound, NEW p \in LiveDirs
    PROVE  /\ p \in Inode /\ D!IsDirectory(p)
           /\ \A m : ~Taken(p, m) => ~D!Taken(p, m)
           /\ \A i \in Inode \ used : ~D!Listed(i) /\ i # Root
  <1>1. PICK R : R = EntriesIn(disk, first, used)
    OBVIOUS
  <1>2. /\ Tree(first, used, R, Itself(disk, first), Parent(disk, first))
        /\ LiveDirs = DirsOf(first, used)
    BY <1>1, ListingHere DEF DirTablesSound, DirInv
  <1>3. p \in Inode
    BY <1>2 DEF Tree, DirsOf
  <1>4. [d \in Inode |-> Listing(d)] = R
    BY <1>1, ListingBar
  <1>5. D!IsDirectory(p)
    <2>1. p = Root \/ \E c \in Inode : \E e \in R[c] : e[2] = "DIR" /\ e[3] = p
      BY <1>2 DEF Tree
    <2> QED  BY <1>4, <2>1 DEF D!IsDirectory
  <1>6. ASSUME NEW m, ~Taken(p, m) PROVE ~D!Taken(p, m)
    <2>1. \A x \in Entries(p) : MetaAt(x).name # m
      BY <1>6 DEF Taken
    <2>2. \A e \in Listing(p) : e[1] # m
      BY <2>1 DEF Listing
    <2>3. [d \in Inode |-> Listing(d)][p] = Listing(p)
      BY <1>3
    <2> QED  BY <2>2, <2>3 DEF D!Taken
  <1>7. ASSUME NEW i \in Inode \ used PROVE ~D!Listed(i) /\ i # Root
    <2>1. \A d \in Inode : \A e \in R[d] : e[3] # i
      BY <1>2 DEF Tree
    <2> QED  BY <1>2, <1>4, <2>1 DEF D!Listed, Tree
  <1> QED  BY <1>3, <1>5, <1>6, <1>7

\* write makes an entry.
LEMMA WriteCreates ==
    ASSUME DirTablesSound, DirTablesSound', NEW p \in LiveDirs, NEW n \in Names,
           NEW type \in {"REG", "DIR"}, Write(p, n, type)
    PROVE  D!Next
  <1>1. PICK R, S : R = EntriesIn(disk, first, used) /\ S = EntriesIn(disk', first', used')
    OBVIOUS
  <1>2. [d \in Inode |-> Listing(d)] = R
    BY <1>1, ListingBar
  <1>3. [d \in Inode |-> Listing(d)]' = S
    <2>1. (DirTablesSound => [d \in Inode |-> Listing(d)] = EntriesIn(disk, first, used))'
      BY ListingBar, PTL
    <2> QED  BY <1>1, <2>1
  <1>4. PICK i \in Inode \ used : S = WithRow(R, p, <<n, type, i>>)
    BY <1>1, WriteStep DEF DirTablesSound
  <1>5. PICK e : e = <<n, type, i>>
    OBVIOUS
  <1>6. e \in D!Entry /\ e[1] = n /\ e[3] = i
    BY <1>5, EntryParts
  <1>7. /\ p \in Inode /\ D!IsDirectory(p) /\ ~D!Taken(p, e[1]) /\ ~D!Listed(e[3]) /\ e[3] # Root
    BY <1>4, <1>6, GuardsHold DEF Write
  <1>8. [d \in Inode |-> Listing(d)]' = [[d \in Inode |-> Listing(d)] EXCEPT ![p] = @ \cup {e}]
    BY <1>2, <1>3, <1>4, <1>5 DEF WithRow
  <1>9. D!Create(p, e)
    BY <1>7, <1>8 DEF D!Create
  <1> QED  BY <1>6, <1>7, <1>9 DEF D!Next

\* delete takes one away.
LEMMA DeleteRemoves ==
    ASSUME DirTablesSound, DirTablesSound', NEW p \in LiveDirs, NEW n \in Names,
           NEW type \in {"REG", "DIR"}, Delete(p, n, type)
    PROVE  D!Next
  <1>1. PICK R, S : R = EntriesIn(disk, first, used) /\ S = EntriesIn(disk', first', used')
    OBVIOUS
  <1>2. [d \in Inode |-> Listing(d)] = R
    BY <1>1, ListingBar
  <1>3. [d \in Inode |-> Listing(d)]' = S
    <2>1. (DirTablesSound => [d \in Inode |-> Listing(d)] = EntriesIn(disk, first, used))'
      BY ListingBar, PTL
    <2> QED  BY <1>1, <2>1
  <1>4. PICK e \in R[p] : R[e[3]] = {} /\ S = WithoutRow(R, p, e)
    BY <1>1, DeleteStep DEF DirTablesSound
  <1>5. p \in Inode /\ e \in D!Entry
    <2>1. R \in [Inode -> SUBSET D!Entry] /\ p \in Inode
      BY <1>1, GuardsHold DEF DirTablesSound, DirInv, Tree
    <2> QED  BY <1>4, <2>1
  <1>6. [d \in Inode |-> Listing(d)]' = [[d \in Inode |-> Listing(d)] EXCEPT ![p] = @ \ {e}]
    BY <1>2, <1>3, <1>4 DEF WithoutRow
  <1>7. D!Removable(p, e)
    BY <1>2, <1>4 DEF D!Removable
  <1>8. D!Remove(p, e)
    BY <1>6, <1>7 DEF D!Remove
  <1> QED  BY <1>5, <1>8 DEF D!Next

\* move_dir moves one.
LEMMA MoveMoves ==
    ASSUME DirTablesSound, DirTablesSound', NEW p \in LiveDirs, NEW q \in LiveDirs, NEW n \in Names,
           NEW m \in Names, Move(p, n, q, m)
    PROVE  D!Next
  <1>1. PICK R, S : R = EntriesIn(disk, first, used) /\ S = EntriesIn(disk', first', used')
    OBVIOUS
  <1>2. [d \in Inode |-> Listing(d)] = R
    BY <1>1, ListingBar
  <1>3. [d \in Inode |-> Listing(d)]' = S
    <2>1. (DirTablesSound => [d \in Inode |-> Listing(d)] = EntriesIn(disk, first, used))'
      BY ListingBar, PTL
    <2> QED  BY <1>1, <2>1
  <1>4. PICK e \in R[p] : /\ e[2] = "DIR" /\ ~D!Within(q, e[3])
                          /\ S = RowMoved(R, p, e, q, <<m, "DIR", e[3]>>)
    BY <1>1, MoveStep DEF DirTablesSound
  <1>5. p \in Inode /\ q \in Inode /\ e \in D!Entry
    <2>1. R \in [Inode -> SUBSET D!Entry] /\ p \in Inode /\ q \in Inode
      BY <1>1, GuardsHold DEF DirTablesSound, DirInv, Tree
    <2> QED  BY <1>4, <2>1
  <1>6. D!IsDirectory(q) /\ ~D!Taken(q, m)
    BY GuardsHold DEF Move, MoveDir
  <1>7. [d \in Inode |-> Listing(d)]'
          = [d \in Inode |-> ([c \in Inode |-> Listing(c)][d] \ IF d = p THEN {e} ELSE {})
                               \cup IF d = q THEN {<<m, "DIR", e[3]>>} ELSE {}]
    BY <1>2, <1>3, <1>4 DEF RowMoved
  <1>8. e \in [d \in Inode |-> Listing(d)][p]
    BY <1>2, <1>4
  <1>9. D!Move(p, e, q, m)
    BY <1>4, <1>6, <1>7, <1>8 DEF D!Move
  <1> QED  BY <1>5, <1>9 DEF D!Next

\* Every name that was written is in its directory until it is deleted or moved, with any
\* number and size of tables, whatever is written, deleted and moved around it.
THEOREM TablesImplementDirectory == Spec => ImplementsDirectory
  <1>1. Init => D!Init
    <2> SUFFICES ASSUME Init PROVE D!Init
      OBVIOUS
    <2>1. DirTablesSound
      BY InitInv DEF DirTablesSound
    <2>2. PICK R : R = EntriesIn(disk, first, used)
      OBVIOUS
    <2>3. [d \in Inode |-> Listing(d)] = R
      BY <2>1, <2>2, ListingBar
    <2>4. ASSUME NEW d \in Inode PROVE R[d] = {}
      <3>1. CASE d # Root
        <4>1. d \notin DirsOf(first, used)
          BY <3>1 DEF Init, DirsOf
        <4> QED  BY <2>2, <4>1 DEF EntriesIn
      <3>2. CASE d = Root
        <4>1. ASSUME NEW h \in R[Root] PROVE FALSE
          <5>1. h[3] \in used /\ h[3] # Root
            BY <2>1, <2>2, <3>2, <4>1, Numbers DEF DirTablesSound, DirInv, Tree
          <5> QED  BY <5>1 DEF Init
        <4> QED  BY <3>2, <4>1
      <3> QED  BY <3>1, <3>2
    <2>5. R = [i \in Inode |-> {}]
      BY <2>2, <2>4 DEF EntriesIn
    <2> QED  BY <2>3, <2>5 DEF D!Init
  <1>2. DirTablesSound /\ DirTablesSound' /\ [Next]_vars => [D!Next]_([d \in Inode |-> Listing(d)])
    <2> SUFFICES ASSUME DirTablesSound, DirTablesSound', [Next]_vars
                 PROVE  D!Next \/ [d \in Inode |-> Listing(d)]' = [d \in Inode |-> Listing(d)]
      OBVIOUS
    <2>0. disk' = disk /\ first' = first /\ used' = used /\ free' = free
             => [d \in Inode |-> Listing(d)]' = [d \in Inode |-> Listing(d)]
      <3>1. [d \in Inode |-> Listing(d)] = EntriesIn(disk, first, used)
        BY ListingBar
      <3>2. [d \in Inode |-> Listing(d)]' = EntriesIn(disk', first', used')
        <4>1. (DirTablesSound => [d \in Inode |-> Listing(d)] = EntriesIn(disk, first, used))'
          BY ListingBar, PTL
        <4> QED  BY <4>1
      <3> QED  BY <3>1, <3>2
    <2>1. CASE UNCHANGED vars
      BY <2>0, <2>1 DEF vars
    <2>2. ASSUME NEW p \in LiveDirs, NEW n \in Names, MakeFolder(p, n) PROVE D!Next
      <3>1. "DIR" \in {"REG", "DIR"} /\ Write(p, n, "DIR")
        BY <2>2 DEF MakeFolder
      <3> QED  BY <3>1, WriteCreates
    <2>3. ASSUME NEW p \in LiveDirs, NEW n \in Names, WriteFile(p, n) PROVE D!Next
      <3>1. "REG" \in {"REG", "DIR"} /\ Write(p, n, "REG")
        BY <2>3 DEF WriteFile
      <3> QED  BY <3>1, WriteCreates
    <2>4. ASSUME NEW p \in LiveDirs, NEW n \in Names, NEW type \in {"REG", "DIR"}, Delete(p, n, type)
          PROVE  D!Next
      BY <2>4, DeleteRemoves
    <2>5. ASSUME NEW p \in LiveDirs, NEW q \in LiveDirs, NEW n \in Names, NEW m \in Names,
                 Move(p, n, q, m)
          PROVE  D!Next
      BY <2>5, MoveMoves
    <2>6. ASSUME NEW p \in LiveDirs, NEW n \in Names, Lookup(p, n)
          PROVE  [d \in Inode |-> Listing(d)]' = [d \in Inode |-> Listing(d)]
      BY <2>0, <2>6, LookupStep
    <2> QED  BY <2>1, <2>2, <2>3, <2>4, <2>5, <2>6 DEF Next
  <1> QED  BY <1>1, <1>2, AlwaysSound, PTL DEF Spec, ImplementsDirectory, D!Spec
=============================================================================
