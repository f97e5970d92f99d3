--------------------------- MODULE NodeTreeProofs --------------------------
(***************************************************************************)
(* Theorems about NodeTree, for any number of direct slots, of pointers in *)
(* a block, and for nodes of any size that the slots have room for.  A     *)
(* loop of the code is a function over its turns: each proof shows that    *)
(* the function is what it is written as, that a turn keeps what is known  *)
(* of the turns so far, and goes up from the first turn to the last.  A    *)
(* level of the tree rests on the level below it, 0 to 3.                  *)
(***************************************************************************)
EXTENDS NodeTree, SequenceTheorems, WellFoundedInduction, TLAPS

-----------------------------------------------------------------------------
(* The arithmetic of levels: how many blocks of one level a number of blocks of *)
(* a lower one needs, and how the parts that a loop takes add up.           *)

\* Quotient and rest determine the number.
LEMMA Quotient ==
    ASSUME NEW t \in Nat \ {0}, NEW q \in Int, NEW r \in 0 .. t - 1
    PROVE  (q * t + r) \div t = q
  <1> DEFINE a == q * t + r
             p == a \div t
             e == a % t
  <1>1. p \in Int /\ e \in 0 .. t - 1 /\ a = p * t + e
    BY q * t \in Int
  <1>2. (p - q) * t = r - e
    BY <1>1
  <1>3. p - q \in Int /\ (p - q > 0 => (p - q) * t >= t) /\ (p - q < 0 => (p - q) * t <= 0 - t)
    BY <1>1
  <1> QED  BY <1>1, <1>2, <1>3

\* Whole blocks count one by one in a quotient.
LEMMA WholeParts ==
    ASSUME NEW t \in Nat \ {0}, NEW q \in Int, NEW r \in Int
    PROVE  (q * t + r) \div t = q + r \div t
  <1>1. r \div t \in Int /\ r % t \in 0 .. t - 1 /\ r = (r \div t) * t + (r % t)
    OBVIOUS
  <1>2. q * t + r = (q + r \div t) * t + (r % t)
    BY <1>1
  <1>3. q + r \div t \in Int
    BY <1>1
  <1> QED BY <1>1, <1>2, <1>3, Quotient

\* div_ceil of whole blocks and a rest.
LEMMA CeilOfParts ==
    ASSUME NEW t \in Nat \ {0}, NEW q \in Nat, NEW r \in Nat
    PROVE  DivCeil(q * t + r, t) = q + DivCeil(r, t)
  <1>1. (q * t + r) + t - 1 = q * t + (r + t - 1) /\ r + t - 1 \in Int /\ q * t \in Int
    OBVIOUS
  <1> QED  BY <1>1, WholeParts DEF DivCeil

\* div_ceil of nothing, of up to one block, and of anything.
LEMMA CeilOfRest ==
    ASSUME NEW t \in Nat \ {0}, NEW r \in Nat
    PROVE  /\ DivCeil(0, t) = 0
           /\ r \in 1 .. t => DivCeil(r, t) = 1
           /\ DivCeil(r, t) \in Nat
           /\ r > 0 => DivCeil(r, t) >= 1
           /\ DivCeil(r, 1) = r
  <1>1. DivCeil(0, t) = 0
    <2>1. 0 * t + (t - 1) = 0 + t - 1 /\ t - 1 \in 0 .. t - 1
      OBVIOUS
    <2> QED  BY <2>1, Quotient DEF DivCeil
  <1>2. ASSUME r \in 1 .. t PROVE DivCeil(r, t) = 1
    <2>1. 1 * t + (r - 1) = r + t - 1 /\ r - 1 \in 0 .. t - 1
      BY <1>2
    <2> QED  BY <2>1, Quotient DEF DivCeil
  <1>3. DivCeil(r, t) \in Nat /\ (r > 0 => DivCeil(r, t) >= 1)
    <2> DEFINE a == r + t - 1
    <2>1. a \div t \in Int /\ a % t \in 0 .. t - 1 /\ a = (a \div t) * t + (a % t) /\ a >= 0 /\ (r > 0 => a >= t)
      OBVIOUS
    <2>2. a \div t < 0 => (a \div t) * t <= 0 - t
      BY <2>1
    <2>3. a \div t <= 0 => (a \div t) * t <= 0
      BY <2>1
    <2> QED  BY <2>1, <2>2, <2>3 DEF DivCeil
  <1>4. DivCeil(r, 1) = r
    BY DEF DivCeil
  <1> QED  BY <1>1, <1>2, <1>3, <1>4

\* A pointer block of one level stands for PTRS of the level below, and for whole
\* ones of every level below.
LEMMA Spans ==
    /\ \A k \in 0 .. 3 : Span(k) \in Nat \ {0}
    /\ \A k \in 1 .. 3 : Span(k) = PTRS * Span(k - 1)
    /\ \A j \in 0 .. 3 : \A k \in 0 .. j : \E u \in Nat : Span(j) = u * Span(k)
  <1>0. PTRS \in Nat \ {0}
    BY BlockMapAssumption
  <1>1. Span(0) = 1 /\ Span(1) = PTRS /\ Span(2) = PTRS * PTRS /\ Span(3) = PTRS * PTRS * PTRS
    BY DEF Span
  <1>2. PTRS * PTRS \in Nat \ {0} /\ PTRS * PTRS * PTRS \in Nat \ {0}
    BY <1>0
  <1>3. \A k \in 0 .. 3 : Span(k) \in Nat \ {0}
    BY <1>0, <1>1, <1>2
  <1>4. \A k \in 1 .. 3 : Span(k) = PTRS * Span(k - 1)
    <2>1. Span(1) = PTRS * Span(0) /\ Span(2) = PTRS * Span(1) /\ Span(3) = PTRS * Span(2)
      BY <1>0, <1>1
    <2> SUFFICES ASSUME NEW k \in 1 .. 3 PROVE Span(k) = PTRS * Span(k - 1)
      OBVIOUS
    <2>2. k = 1 \/ k = 2 \/ k = 3
      OBVIOUS
    <2> QED  BY <2>1, <2>2
  <1>5. ASSUME NEW j \in 0 .. 3, NEW k \in 0 .. j PROVE \E u \in Nat : Span(j) = u * Span(k)
    <2>1. CASE k = j
      BY <1>3, <2>1
    <2>2. CASE k = 0
      BY <1>1, <1>3, <2>2
    <2>3. CASE k = 1 /\ j = 2
      BY <1>0, <1>1, <2>3
    <2>4. CASE k = 1 /\ j = 3
      <3>1. Span(3) = (PTRS * PTRS) * Span(1)
        BY <1>0, <1>1
      <3> QED  BY <1>2, <2>4, <3>1
    <2>5. CASE k = 2 /\ j = 3
      <3>1. Span(3) = PTRS * Span(2)
        BY <1>0, <1>1
      <3> QED  BY <1>0, <2>5, <3>1
    <2> QED  BY <2>1, <2>2, <2>3, <2>4, <2>5
  <1> QED  BY <1>3, <1>4, <1>5

\* What the first i turns over children of a span take of so many blocks.
Part(blocks, i, span) == IF blocks <= i * span THEN blocks ELSE i * span

\* One turn more takes what is left, up to a span.
LEMMA NextPart ==
    ASSUME NEW blocks \in Nat, NEW i \in Nat \ {0}, NEW span \in Nat \ {0}
    PROVE  LET left == blocks - Part(blocks, i - 1, span) IN
           /\ left \in Nat /\ Part(blocks, i, span) \in Nat
           /\ Part(blocks, i, span) = Part(blocks, i - 1, span) + Part(left, 1, span)
           /\ left # 0 => Part(blocks, i - 1, span) = (i - 1) * span
           /\ blocks - Part(blocks, i, span) = IF left <= span THEN 0 ELSE left - span
  <1> DEFINE a == (i - 1) * span
             c == i * span
  <1>1. a \in Nat /\ c \in Nat /\ c = a + span /\ 1 * span = span
    OBVIOUS
  <1> HIDE DEF a, c
  <1>2. Part(blocks, i - 1, span) = IF blocks <= a THEN blocks ELSE a
    BY DEF Part, a
  <1>3. Part(blocks, i, span) = IF blocks <= c THEN blocks ELSE c
    BY DEF Part, c
  <1>4. \A left : Part(left, 1, span) = IF left <= span THEN left ELSE span
    BY <1>1 DEF Part
  <1> QED  BY <1>1, <1>2, <1>3, <1>4 DEF a

\* and the pointer blocks of a lower level add up, as a span is whole ones of them.
LEMMA CeilOfNextPart ==
    ASSUME NEW blocks \in Nat, NEW i \in Nat \ {0}, NEW j \in 0 .. 3, NEW k \in 0 .. j
    PROVE  DivCeil(Part(blocks, i, Span(j)), Span(k))
              = DivCeil(Part(blocks, i - 1, Span(j)), Span(k))
                  + DivCeil(Part(blocks - Part(blocks, i - 1, Span(j)), 1, Span(j)), Span(k))
  <1> DEFINE s      == Span(j)
             t      == Span(k)
             before == Part(blocks, i - 1, s)
             left   == blocks - before
             now    == Part(left, 1, s)
             both   == Part(blocks, i, s)
  <1>0. s \in Nat \ {0} /\ t \in Nat \ {0}
    <2>1. j \in 0 .. 3 /\ k \in 0 .. 3
      OBVIOUS
    <2> QED  BY <2>1, Spans
  <1>1. left \in Nat /\ both = before + now /\ (left # 0 => before = (i - 1) * s)
    BY <1>0, NextPart
  <1>2. before \in Nat /\ now \in Nat /\ (left = 0 => now = 0)
    <2>1. (i - 1) * s \in Nat /\ 1 * s \in Nat
      BY <1>0
    <2> QED  BY <1>0, <1>1, <2>1 DEF Part
  <1>3. PICK u \in Nat : s = u * t
    BY Spans
  <1> HIDE DEF s, t, now, both
  <1>4. CASE left = 0
    <2>1. DivCeil(now, t) = 0 /\ DivCeil(before, t) \in Nat /\ both = before
      <3> HIDE DEF before, left
      <3>1. now = 0 /\ both = before
        BY <1>1, <1>2, <1>4
      <3> QED  BY <1>0, <1>2, <3>1, CeilOfRest
    <2> HIDE DEF before
    <2>2. DivCeil(both, t) = DivCeil(before, t) + DivCeil(now, t)
      BY <2>1
    <2> QED  BY <2>2 DEF before, both, now, s, t, left
  <1>5. CASE left # 0
    <2> DEFINE q == (i - 1) * u
    <2> HIDE DEF before
    <2>1. before = q * t /\ q \in Nat
      BY <1>0, <1>1, <1>3, <1>5
    <2> HIDE DEF q
    <2>2. before = q * t + 0 /\ both = q * t + now
      BY <1>0, <1>1, <1>2, <2>1
    <2>3. DivCeil(before, t) = q + DivCeil(0, t)
      BY <1>0, <2>1, <2>2, CeilOfParts
    <2>4. DivCeil(both, t) = q + DivCeil(now, t)
      BY <1>0, <1>2, <2>1, <2>2, CeilOfParts
    <2>5. DivCeil(now, t) \in Nat /\ DivCeil(0, t) = 0
      BY <1>0, <1>2, CeilOfRest
    <2>6. DivCeil(both, t) = DivCeil(before, t) + DivCeil(now, t)
      BY <2>1, <2>3, <2>4, <2>5
    <2> QED  BY <2>6 DEF before, both, now, s, t, left
  <1> QED  BY <1>4, <1>5

-----------------------------------------------------------------------------
(* map_node_blocks: what a call writes.                                     *)

\* Pointer blocks in a tree of depth d that has n data blocks.
Pointers(n, d) ==
    (IF d >= 1 THEN DivCeil(n, Span(1)) ELSE 0) + (IF d >= 2 THEN DivCeil(n, Span(2)) ELSE 0)
      + (IF d >= 3 THEN DivCeil(n, Span(3)) ELSE 0)

\* A tree has a pointer block of its own, and one at least on every level.
LEMMA PointersOfTree ==
    ASSUME NEW d \in 0 .. 3, NEW n \in Nat
    PROVE  /\ Pointers(n, d) \in Nat /\ Pointers(0, d) = 0 /\ Pointers(n, 0) = 0
           /\ n > 0 => Pointers(n, d) >= d
           /\ d > 0 /\ n \in 1 .. Span(d) => Pointers(n, d) = 1 + Pointers(n, d - 1)
  <1>1. ASSUME NEW k \in 1 .. 3
        PROVE  /\ DivCeil(n, Span(k)) \in Nat /\ (n > 0 => DivCeil(n, Span(k)) >= 1)
               /\ DivCeil(0, Span(k)) = 0 /\ (n \in 1 .. Span(k) => DivCeil(n, Span(k)) = 1)
    <2>1. Span(k) \in Nat \ {0}
      BY Spans
    <2> QED  BY <2>1, CeilOfRest
  <1>2. d = 0 \/ d = 1 \/ d = 2 \/ d = 3
    OBVIOUS
  <1>3. 1 \in 1 .. 3 /\ 2 \in 1 .. 3 /\ 3 \in 1 .. 3
    OBVIOUS
  <1>4. /\ DivCeil(n, Span(1)) \in Nat /\ (n > 0 => DivCeil(n, Span(1)) >= 1)
        /\ DivCeil(0, Span(1)) = 0 /\ (n \in 1 .. Span(1) => DivCeil(n, Span(1)) = 1)
    BY <1>1
  <1>5. /\ DivCeil(n, Span(2)) \in Nat /\ (n > 0 => DivCeil(n, Span(2)) >= 1)
        /\ DivCeil(0, Span(2)) = 0 /\ (n \in 1 .. Span(2) => DivCeil(n, Span(2)) = 1)
    BY <1>1
  <1>6. /\ DivCeil(n, Span(3)) \in Nat /\ (n > 0 => DivCeil(n, Span(3)) >= 1)
        /\ DivCeil(0, Span(3)) = 0 /\ (n \in 1 .. Span(3) => DivCeil(n, Span(3)) = 1)
    BY <1>1
  <1> QED  BY <1>2, <1>4, <1>5, <1>6 DEF Pointers

\* They add up over the children of a pointer block.
LEMMA PointersOfNextPart ==
    ASSUME NEW blocks \in Nat, NEW i \in Nat \ {0}, NEW j \in 0 .. 3
    PROVE  Pointers(Part(blocks, i, Span(j)), j)
              = Pointers(Part(blocks, i - 1, Span(j)), j)
                  + Pointers(Part(blocks - Part(blocks, i - 1, Span(j)), 1, Span(j)), j)
  <1> DEFINE before == Part(blocks, i - 1, Span(j))
             now    == Part(blocks - before, 1, Span(j))
             both   == Part(blocks, i, Span(j))
  <1>1. ASSUME NEW k \in 0 .. j
        PROVE  DivCeil(both, Span(k)) = DivCeil(before, Span(k)) + DivCeil(now, Span(k))
    BY CeilOfNextPart
  <1>2. before \in Nat /\ now \in Nat
    <2>0. Span(j) \in Nat \ {0} /\ blocks \in Nat
      BY Spans
    <2>1. (i - 1) * Span(j) \in Nat /\ 1 * Span(j) \in Nat
      BY <2>0
    <2>2. blocks - before \in Nat
      BY <2>0, NextPart
    <2> QED  BY <2>1, <2>2 DEF Part
  <1> HIDE DEF before, now, both
  <1>3. ASSUME NEW k \in 0 .. j PROVE DivCeil(before, Span(k)) \in Nat /\ DivCeil(now, Span(k)) \in Nat
    <2>1. k \in 0 .. 3
      OBVIOUS
    <2>2. Span(k) \in Nat \ {0}
      BY <2>1, Spans
    <2> QED  BY <1>2, <2>2, CeilOfRest
  <1>4. Pointers(both, j) = Pointers(before, j) + Pointers(now, j)
    <2>1. CASE j = 0
      BY <2>1 DEF Pointers
    <2>2. CASE j = 1
      BY <2>2, <1>1, <1>3 DEF Pointers
    <2>3. CASE j = 2
      BY <2>3, <1>1, <1>3 DEF Pointers
    <2>4. CASE j = 3
      BY <2>4, <1>1, <1>3 DEF Pointers
    <2> QED  BY <2>1, <2>2, <2>3, <2>4
  <1> QED  BY <1>4 DEF before, now, both

\* The pointer block of level k, from the root down, leads to the next one first,
\* and the lowest to the block at.
FirstLeads(on, root, d, at) ==
    \A k \in 1 .. d : /\ root + d - k \in DOMAIN on
                      /\ Len(on[root + d - k]) >= 1
                      /\ on[root + d - k][1] = IF k = 1 THEN at ELSE root + d - k + 1

\* s is where map_node_blocks begins with so many blocks from at on.
Begins(s, blocks, at, d) ==
    /\ s.mapped \in Nat /\ s.next \in Nat /\ blocks \in Nat \ {0} /\ at = s.mapped + 1
    /\ at + Part(blocks, 1, Span(d)) <= s.next

\* A record whose fields are those of the states of map_node_blocks
IsState(s) == s = [disk |-> s.disk, mapped |-> s.mapped, next |-> s.next, ret |-> s.ret]

\* What it has done when it comes back with r: the data blocks from at on and the
\* pointer blocks from s.next on are written, no other.
Maps(d, s, blocks, at, r) ==
    LET m == Part(blocks, 1, Span(d))
        p == Pointers(m, d)
    IN  /\ IsState(r) /\ r.mapped = s.mapped + m /\ r.next = s.next + p
        /\ r.ret = IF d = 0 THEN at ELSE s.next
        /\ DOMAIN r.disk = DOMAIN s.disk \cup (at .. at + m - 1) \cup (s.next .. s.next + p - 1)
        /\ \A x \in DOMAIN s.disk :
              x \notin at .. at + m - 1 /\ x \notin s.next .. s.next + p - 1 => r.disk[x] = s.disk[x]
        /\ \A x \in at .. at + m - 1 : r.disk[x] = <<x - 1>>
        /\ FirstLeads(r.disk, s.next, d, at)
        /\ d = 1 => r.disk[s.next] = [k \in 1 .. m |-> at + k - 1]

\* The loop over the children of a pointer block before its first turn, and a turn.
MapStart(s, blocks) == [s |-> [s EXCEPT !.next = @ + 1], left |-> blocks, buffer |-> <<>>]
MapTurn(t, child, capacity) ==
    IF t.left = 0 THEN t
    ELSE [s |-> child, buffer |-> Append(t.buffer, child.ret),
          left |-> IF t.left <= capacity THEN 0 ELSE t.left - capacity]

\* A data block is written where it should be.
LEMMA DataMaps ==
    ASSUME NEW s, NEW blocks, NEW at, IsState(s), Begins(s, blocks, at, 0)
    PROVE  Maps(0, s, blocks, at, MapData(s, blocks, at))
  <1>1. Part(blocks, 1, Span(0)) = 1
    BY DEF Begins, Part, Span
  <1>2. Pointers(1, 0) = 0
    BY DEF Pointers
  <1> DEFINE on == [x \in DOMAIN s.disk \cup {at} |-> IF x = at THEN <<s.mapped>> ELSE s.disk[x]]
             r  == [disk |-> on, mapped |-> s.mapped + 1, next |-> s.next, ret |-> at]
  <1>3. MapData(s, blocks, at) = r
    BY DEF MapData, Write, IsState, Begins
  <1>4. Maps(0, s, blocks, at, r)
    BY <1>1, <1>2 DEF Maps, Begins, FirstLeads, IsState
  <1> QED  BY <1>3, <1>4

\* A set of naturals that is not empty has a least member.
LEMMA Least ==
    ASSUME NEW Q \in SUBSET Nat, Q # {}
    PROVE  \E d \in Q : \A e \in Q : d <= e
  <1>1. PICK d \in Q : \A e \in Q : <<e, d>> \notin OpToRel(<, Nat)
    BY NatLessThanWellFounded, WFMin
  <1>2. ASSUME NEW e \in Q, e < d PROVE FALSE
    <2>1. <<e, d>> \in Nat \X Nat /\ <<e, d>>[1] < <<e, d>>[2]
      BY <1>2
    <2> QED  BY <1>1, <2>1 DEF OpToRel
  <1> QED  BY <1>2

\* What 0 has, and with each number up to n the next, all numbers up to n have.
LEMMA Upward ==
    ASSUME NEW n \in Nat, NEW Q, 0 \in Q, \A k \in 1 .. n : k - 1 \in Q => k \in Q
    PROVE  0 .. n \subseteq Q
  <1> DEFINE E == {k \in 0 .. n : k \notin Q}
  <1>1. ASSUME E # {} PROVE FALSE
    <2>1. PICK d \in E : \A e \in E : d <= e
      <3>1. E \in SUBSET Nat
        OBVIOUS
      <3> HIDE DEF E
      <3> QED  BY <1>1, <3>1, Least
    <2>2. d \in 1 .. n /\ d \notin Q
      BY <2>1
    <2>3. d - 1 \in 0 .. n /\ d - 1 \notin E
      BY <2>1, <2>2
    <2> QED  BY <2>2, <2>3
  <1> QED  BY <1>1

\* The turns one after the other.
MapTrace(d, turn, s, blocks, at) ==
    /\ turn[0] = MapStart(s, blocks)
    /\ \A i \in 1 .. PTRS :
          turn[i] = MapTurn(turn[i - 1],
                            MapNode(turn[i - 1].s, turn[i - 1].left, at + (i - 1) * Span(d - 1), d - 1),
                            Span(d - 1))

\* The turns of a level are what its loop is written as.
LEMMA MapTurns ==
    ASSUME NEW d \in 1 .. 3, NEW s, NEW blocks, blocks # 0, NEW at
    PROVE  \E turn : /\ MapTrace(d, turn, s, blocks, at)
                     /\ MapNode(s, blocks, at, d) = Write(turn[PTRS].s, s.next, turn[PTRS].buffer)
  <1> DEFINE start == MapStart(s, blocks)
             Turn(t, i) == MapTurn(t, MapNode(t.s, t.left, at + (i - 1) * Span(d - 1), d - 1), Span(d - 1))
             Upto(k, g) == g = [i \in 0 .. k |-> IF i = 0 THEN start ELSE Turn(g[i - 1], i)]
             Q == {k \in Nat : \E g : Upto(k, g)}
  <1>1. \E g : Upto(PTRS, g)
    <2> HIDE DEF Turn, start
    <2>1. 0 \in Q
      <3>1. Upto(0, [i \in 0 .. 0 |-> start])
        OBVIOUS
      <3> QED  BY <3>1
    <2>2. ASSUME NEW k \in 1 .. PTRS, k - 1 \in Q PROVE k \in Q
      <3>1. PICK g : Upto(k - 1, g)
        BY <2>2
      <3> DEFINE h == [i \in 0 .. k |-> IF i < k THEN g[i] ELSE Turn(g[k - 1], k)]
      <3>2. ASSUME NEW i \in 0 .. k PROVE h[i] = IF i = 0 THEN start ELSE Turn(h[i - 1], i)
        BY <3>1
      <3>3. h = [i \in 0 .. k |-> h[i]]
        OBVIOUS
      <3> HIDE DEF h
      <3>4. Upto(k, h)
        BY <3>2, <3>3
      <3> QED  BY <3>4
    <2>3. PTRS \in Q
      <3> HIDE DEF Q
      <3> QED  BY <2>1, <2>2, Upward, BlockMapAssumption
    <2> QED  BY <2>3
  <1>2. ASSUME NEW g, Upto(PTRS, g) PROVE MapTrace(d, g, s, blocks, at)
    <2> HIDE DEF Turn, start
    <2>1. g[0] = start /\ \A i \in 1 .. PTRS : g[i] = Turn(g[i - 1], i)
      BY <1>2, BlockMapAssumption
    <2> QED  BY <2>1 DEF MapTrace, start, Turn
  <1>3. CASE d = 1
    <2> DEFINE Level(g) == [i \in 0 .. PTRS |->
                  IF i = 0 THEN start
                  ELSE MapTurn(g[i - 1], MapData(g[i - 1].s, g[i - 1].left, at + (i - 1) * Span(0)), Span(0))]
               turn == CHOOSE g : g = Level(g)
    <2>1. ASSUME NEW g PROVE Upto(PTRS, g) <=> g = Level(g)
      BY <1>3 DEF MapNode
    <2>2. turn = Level(turn)
      <3> HIDE DEF Level, Upto
      <3> QED  BY <1>1, <2>1
    <2>3. Upto(PTRS, turn)
      <3> HIDE DEF Level, Upto, turn
      <3> QED  BY <2>1, <2>2
    <2>4. MapLevel1(s, blocks, at) = Write(turn[PTRS].s, s.next, turn[PTRS].buffer)
      BY DEF MapLevel1, MapLevel, MapStart, MapTurn
    <2> HIDE DEF turn, Upto
    <2> QED  BY <1>2, <1>3, <2>3, <2>4 DEF MapNode
  <1>4. CASE d = 2
    <2> DEFINE Level(g) == [i \in 0 .. PTRS |->
                  IF i = 0 THEN start
                  ELSE MapTurn(g[i - 1], MapLevel1(g[i - 1].s, g[i - 1].left, at + (i - 1) * Span(1)), Span(1))]
               turn == CHOOSE g : g = Level(g)
    <2>1. ASSUME NEW g PROVE Upto(PTRS, g) <=> g = Level(g)
      BY <1>4 DEF MapNode
    <2>2. turn = Level(turn)
      <3> HIDE DEF Level, Upto
      <3> QED  BY <1>1, <2>1
    <2>3. Upto(PTRS, turn)
      <3> HIDE DEF Level, Upto, turn
      <3> QED  BY <2>1, <2>2
    <2>4. MapLevel2(s, blocks, at) = Write(turn[PTRS].s, s.next, turn[PTRS].buffer)
      BY DEF MapLevel2, MapLevel, MapStart, MapTurn
    <2> HIDE DEF turn, Upto
    <2> QED  BY <1>2, <1>4, <2>3, <2>4 DEF MapNode
  <1>5. CASE d = 3
    <2> DEFINE Level(g) == [i \in 0 .. PTRS |->
                  IF i = 0 THEN start
                  ELSE MapTurn(g[i - 1], MapLevel2(g[i - 1].s, g[i - 1].left, at + (i - 1) * Span(2)), Span(2))]
               turn == CHOOSE g : g = Level(g)
    <2>1. ASSUME NEW g PROVE Upto(PTRS, g) <=> g = Level(g)
      BY <1>5 DEF MapNode
    <2>2. turn = Level(turn)
      <3> HIDE DEF Level, Upto
      <3> QED  BY <1>1, <2>1
    <2>3. Upto(PTRS, turn)
      <3> HIDE DEF Level, Upto, turn
      <3> QED  BY <2>1, <2>2
    <2>4. MapLevel3(s, blocks, at) = Write(turn[PTRS].s, s.next, turn[PTRS].buffer)
      BY DEF MapLevel3, MapLevel, MapStart, MapTurn
    <2> HIDE DEF turn, Upto
    <2> QED  BY <1>2, <1>5, <2>3, <2>4 DEF MapNode
  <1> QED  BY <1>3, <1>4, <1>5

\* What is done of a pointer block after i children.
MapsSoFar(d, i, s, blocks, at, t) ==
    LET q == Part(blocks, i, Span(d - 1))
        p == Pointers(q, d - 1)
    IN  /\ IsState(t.s) /\ t.left = blocks - q
        /\ t.s.mapped = s.mapped + q /\ t.s.next = s.next + 1 + p
        /\ DOMAIN t.s.disk = DOMAIN s.disk \cup (at .. at + q - 1) \cup (s.next + 1 .. s.next + p)
        /\ \A x \in DOMAIN s.disk :
              x \notin at .. at + q - 1 /\ x \notin s.next + 1 .. s.next + p => t.s.disk[x] = s.disk[x]
        /\ \A x \in at .. at + q - 1 : t.s.disk[x] = <<x - 1>>
        /\ t.buffer \in Seq(Int) /\ (i = 0 => t.buffer = <<>>)
        /\ i > 0 => /\ Len(t.buffer) >= 1 /\ t.buffer[1] = IF d = 1 THEN at ELSE s.next + 1
                    /\ FirstLeads(t.s.disk, s.next + 1, d - 1, at)
        /\ d = 1 => t.buffer = [k \in 1 .. q |-> at + k - 1]

\* Before the first child only the pointer block is taken.
LEMMA MapFirstTurn ==
    ASSUME NEW d \in 1 .. 3, NEW s, NEW blocks, NEW at, IsState(s), Begins(s, blocks, at, d)
    PROVE  MapsSoFar(d, 0, s, blocks, at, MapStart(s, blocks))
  <1>1. Span(d - 1) \in Nat \ {0} /\ blocks \in Nat \ {0}
    <2>1. d - 1 \in 0 .. 3
      OBVIOUS
    <2> QED  BY <2>1, Spans DEF Begins
  <1>2. Part(blocks, 0, Span(d - 1)) = 0
    BY <1>1 DEF Part
  <1>3. Pointers(0, d - 1) = 0
    BY PointersOfTree
  <1>4. MapStart(s, blocks) = [s |-> [disk |-> s.disk, mapped |-> s.mapped, next |-> s.next + 1, ret |-> s.ret],
                               left |-> blocks, buffer |-> <<>>]
    BY DEF MapStart, IsState
  <1>5. <<>> = [k \in 1 .. 0 |-> at + k - 1]
    OBVIOUS
  <1>6. at \in Int /\ s.next \in Int /\ s.mapped \in Int
    BY DEF Begins
  <1> DEFINE t == MapStart(s, blocks)
  <1>7. /\ t.s = [disk |-> s.disk, mapped |-> s.mapped, next |-> s.next + 1, ret |-> s.ret]
        /\ t.left = blocks /\ t.buffer = <<>>
    BY <1>4
  <1> HIDE DEF t
  <1>8. /\ t.s.disk = s.disk /\ t.s.mapped = s.mapped /\ t.s.next = s.next + 1
        /\ t.s = [disk |-> t.s.disk, mapped |-> t.s.mapped, next |-> t.s.next, ret |-> t.s.ret]
    BY <1>7
  <1>9. MapsSoFar(d, 0, s, blocks, at, t)
    BY <1>1, <1>2, <1>3, <1>5, <1>6, <1>7, <1>8 DEF MapsSoFar, IsState
  <1> QED  BY <1>9 DEF t

\* The blocks of the children together are no more than the level holds.
LEMMA PartOfLevel ==
    ASSUME NEW d \in 1 .. 3, NEW blocks \in Nat, NEW i \in 0 .. PTRS
    PROVE  /\ Part(blocks, PTRS, Span(d - 1)) = Part(blocks, 1, Span(d))
           /\ Part(blocks, i, Span(d - 1)) \in 0 .. Part(blocks, 1, Span(d))
           /\ i > 0 /\ blocks > 0 => Part(blocks, i, Span(d - 1)) > 0
  <1> DEFINE S == Span(d - 1)
  <1>1. S \in Nat \ {0} /\ Span(d) = PTRS * S
    <2>1. d - 1 \in 0 .. 3
      OBVIOUS
    <2> QED  BY <2>1, Spans
  <1>2. PTRS \in Nat \ {0}
    BY BlockMapAssumption
  <1> HIDE DEF S
  <1>3. i * S \in Nat /\ i * S <= PTRS * S /\ PTRS * S \in Nat /\ (i > 0 => i * S > 0)
    <2>1. PTRS - i \in Nat /\ (PTRS - i) * S >= 0 /\ (PTRS - i) * S = PTRS * S - i * S
      BY <1>1, <1>2
    <2>2. i > 0 => i * S >= S
      <3>1. i > 0 => (i - 1) * S >= 0 /\ (i - 1) * S = i * S - S
        BY <1>1
      <3> QED  BY <1>1, <3>1
    <2> QED  BY <1>1, <1>2, <2>1, <2>2
  <1>4. 1 * Span(d) = PTRS * S
    BY <1>1, <1>3
  <1>5. \A b \in Nat : Part(b, PTRS, S) = Part(b, 1, Span(d))
    BY <1>3, <1>4 DEF Part
  <1>6. /\ Part(blocks, i, S) \in 0 .. Part(blocks, 1, Span(d))
        /\ i > 0 /\ blocks > 0 => Part(blocks, i, S) > 0
    BY <1>3, <1>4 DEF Part
  <1> QED  BY <1>5, <1>6 DEF S

\* A turn with a child left to write calls for a child as it may begin.
LEMMA ChildBegins ==
    ASSUME NEW d \in 1 .. 3, NEW i \in 1 .. PTRS, NEW s, NEW blocks, NEW at, NEW t,
           Begins(s, blocks, at, d), MapsSoFar(d, i - 1, s, blocks, at, t), t.left # 0
    PROVE  Begins(t.s, t.left, at + (i - 1) * Span(d - 1), d - 1)
  <1> DEFINE S == Span(d - 1)
             q == Part(blocks, i - 1, S)
             m == Part(t.left, 1, S)
             p == Pointers(q, d - 1)
  <1>1. S \in Nat \ {0} /\ blocks \in Nat \ {0}
    <2>1. d - 1 \in 0 .. 3
      OBVIOUS
    <2> QED  BY <2>1, Spans DEF Begins
  <1>2. t.left = blocks - q /\ t.s.mapped = s.mapped + q /\ t.s.next = s.next + 1 + p
    BY DEF MapsSoFar
  <1>3. t.left \in Nat /\ Part(blocks, i, S) = q + m /\ q = (i - 1) * S
    <2> DEFINE left == blocks - q
    <2>1. /\ left \in Nat /\ Part(blocks, i, S) = q + Part(left, 1, S)
          /\ (left # 0 => q = (i - 1) * S)
      <3>1. i \in Nat \ {0} /\ blocks \in Nat
        BY <1>1, BlockMapAssumption
      <3> HIDE DEF S
      <3> QED  BY <1>1, <3>1, NextPart
    <2> QED  BY <1>2, <2>1
  <1>4. q \in Nat
    BY <1>1, <1>3
  <1>5. p \in Nat
    <2> HIDE DEF q
    <2> QED  BY <1>4, PointersOfTree
  <1>6. Part(blocks, i, S) <= Part(blocks, 1, Span(d)) /\ Part(blocks, i, S) \in Int /\ Part(blocks, 1, Span(d)) \in Int
    <2>1. Part(blocks, i, S) \in 0 .. Part(blocks, 1, Span(d))
      BY <1>1, PartOfLevel
    <2>2. Part(blocks, 1, Span(d)) \in Int
      <3>1. Span(d) \in Nat
        BY Spans
      <3>2. 1 * Span(d) \in Nat
        BY <3>1
      <3> QED  BY <1>1, <3>2 DEF Part
    <2> QED  BY <2>1, <2>2
  <1>7. m \in Int
    <2>1. 1 * S \in Int /\ t.left \in Int
      BY <1>1, <1>3
    <2> QED  BY <2>1 DEF Part
  <1>8. s.mapped \in Nat /\ s.next \in Nat /\ at = s.mapped + 1 /\ at + Part(blocks, 1, Span(d)) <= s.next
    BY DEF Begins
  <1>9. at + (i - 1) * S = t.s.mapped + 1
    <2> HIDE DEF q, S
    <2> QED  BY <1>2, <1>3, <1>4, <1>8
  <1>10. t.s.mapped + 1 + m <= t.s.next /\ t.s.mapped \in Nat /\ t.s.next \in Nat /\ t.left \in Nat \ {0}
    <2> HIDE DEF q, p, m
    <2> QED  BY <1>2, <1>3, <1>4, <1>5, <1>6, <1>7, <1>8
  <1> QED  BY <1>9, <1>10 DEF Begins

\* A child that is written right is one more that is.
LEMMA MapNextTurn ==
    ASSUME NEW d \in 1 .. 3, NEW i \in 1 .. PTRS, NEW s, NEW blocks, NEW at, NEW t, NEW c,
           Begins(s, blocks, at, d), MapsSoFar(d, i - 1, s, blocks, at, t), t.left # 0,
           Maps(d - 1, t.s, t.left, at + (i - 1) * Span(d - 1), c)
    PROVE  MapsSoFar(d, i, s, blocks, at, MapTurn(t, c, Span(d - 1)))
  <1> DEFINE S  == Span(d - 1)
             q  == Part(blocks, i - 1, S)
             m  == Part(t.left, 1, S)
             q1 == Part(blocks, i, S)
             p  == Pointers(q, d - 1)
             pm == Pointers(m, d - 1)
             p1 == Pointers(q1, d - 1)
             a  == at + (i - 1) * S
             u  == MapTurn(t, c, S)
  <1>1. S \in Nat \ {0} /\ blocks \in Nat \ {0} /\ i \in Nat \ {0}
    <2>1. d - 1 \in 0 .. 3
      OBVIOUS
    <2> QED  BY <2>1, Spans, BlockMapAssumption DEF Begins
  <1>2. /\ t.left = blocks - q /\ t.s.mapped = s.mapped + q /\ t.s.next = s.next + 1 + p
        /\ DOMAIN t.s.disk = DOMAIN s.disk \cup (at .. at + q - 1) \cup (s.next + 1 .. s.next + p)
        /\ \A x \in DOMAIN s.disk :
              x \notin at .. at + q - 1 /\ x \notin s.next + 1 .. s.next + p => t.s.disk[x] = s.disk[x]
        /\ \A x \in at .. at + q - 1 : t.s.disk[x] = <<x - 1>>
        /\ t.buffer \in Seq(Int) /\ (i - 1 = 0 => t.buffer = <<>>)
        /\ i - 1 > 0 => /\ Len(t.buffer) >= 1 /\ t.buffer[1] = IF d = 1 THEN at ELSE s.next + 1
                        /\ FirstLeads(t.s.disk, s.next + 1, d - 1, at)
        /\ d = 1 => t.buffer = [k \in 1 .. q |-> at + k - 1]
    BY DEF MapsSoFar
  <1>3. /\ t.left \in Nat /\ q1 = q + m /\ q = (i - 1) * S
        /\ blocks - q1 = IF t.left <= S THEN 0 ELSE t.left - S
    <2> DEFINE left == blocks - q
    <2>1. /\ left \in Nat /\ Part(blocks, i, S) = q + Part(left, 1, S)
          /\ (left # 0 => q = (i - 1) * S)
          /\ blocks - Part(blocks, i, S) = IF left <= S THEN 0 ELSE left - S
      <3> HIDE DEF S
      <3> QED  BY <1>1, NextPart
    <2> QED  BY <1>2, <2>1
  <1>4. p1 = p + pm
    <2>1. d - 1 \in 0 .. 3 /\ blocks \in Nat
      BY <1>1
    <2> QED  BY <1>1, <1>2, <2>1, PointersOfNextPart
  <1>5. q \in Nat /\ m \in Nat /\ m > 0
    <2>1. 1 * S \in Nat \ {0}
      BY <1>1
    <2>2. t.left \in Nat \ {0}
      BY <1>3
    <2>3. (i - 1) * S \in Nat
      BY <1>1
    <2> HIDE DEF S
    <2> QED  BY <1>3, <2>1, <2>2, <2>3 DEF Part
  <1>6. p \in Nat /\ pm \in Nat /\ pm >= d - 1 /\ (q > 0 => p >= d - 1) /\ (q = 0 => p = 0)
    <2>1. d - 1 \in 0 .. 3
      OBVIOUS
    <2> HIDE DEF q, m
    <2> QED  BY <1>5, <2>1, PointersOfTree
  <1>7. /\ IsState(c) /\ c.mapped = t.s.mapped + m /\ c.next = t.s.next + pm
        /\ c.ret = IF d = 1 THEN a ELSE t.s.next
        /\ DOMAIN c.disk = DOMAIN t.s.disk \cup (a .. a + m - 1) \cup (t.s.next .. t.s.next + pm - 1)
        /\ \A x \in DOMAIN t.s.disk :
              x \notin a .. a + m - 1 /\ x \notin t.s.next .. t.s.next + pm - 1 => c.disk[x] = t.s.disk[x]
        /\ \A x \in a .. a + m - 1 : c.disk[x] = <<x - 1>>
        /\ FirstLeads(c.disk, t.s.next, d - 1, a)
    BY DEF Maps
  <1>8. a = at + q /\ s.mapped \in Nat /\ s.next \in Nat /\ at = s.mapped + 1
    BY <1>3 DEF Begins
  <1>9. at + q1 <= s.next
    <2>1. q1 \in 0 .. Part(blocks, 1, Span(d)) /\ at + Part(blocks, 1, Span(d)) <= s.next
      BY <1>1, PartOfLevel DEF Begins
    <2>2. Part(blocks, 1, Span(d)) \in Int
      <3>1. Span(d) \in Nat
        BY Spans
      <3>2. 1 * Span(d) \in Nat
        BY <3>1
      <3> QED  BY <1>1, <3>2 DEF Part
    <2> HIDE DEF q1
    <2> QED  BY <1>8, <2>1, <2>2
  <1>10. /\ u.s = c /\ u.left = blocks - q1 /\ u.buffer = Append(t.buffer, c.ret)
    BY <1>3 DEF MapTurn
  <1>11. i = 1 <=> q = 0
    <2>1. i > 1 => (i - 1) * S >= i - 1
      <3>1. i > 1 => (S - 1) * (i - 1) >= 0 /\ (S - 1) * (i - 1) = S * (i - 1) - (i - 1)
        <4> HIDE DEF S
        <4> QED BY <1>1
      <3> HIDE DEF S
      <3> QED  BY <1>1, <3>1
    <2> HIDE DEF S
    <2> QED  BY <1>1, <1>3, <2>1
  <1> HIDE DEF S, q, m, q1, p, pm, p1, a, u
  <1>20. /\ t.s.mapped = s.mapped + q /\ t.s.next = s.next + 1 + p
         /\ c.mapped = t.s.mapped + m /\ c.next = t.s.next + pm
         /\ c.ret = IF d = 1 THEN a ELSE t.s.next
    BY <1>2, <1>7
  <1>12. c.mapped = s.mapped + q1 /\ c.next = s.next + 1 + p1 /\ c.ret \in Int
    BY <1>3, <1>4, <1>5, <1>6, <1>8, <1>20
  <1>21. at .. at + q1 - 1 = (at .. at + q - 1) \cup (a .. a + m - 1)
    BY <1>3, <1>5, <1>8
  <1>22. s.next + 1 .. s.next + p1 = (s.next + 1 .. s.next + p) \cup (t.s.next .. t.s.next + pm - 1)
    BY <1>4, <1>6, <1>8, <1>20
  <1>13. DOMAIN c.disk = DOMAIN s.disk \cup (at .. at + q1 - 1) \cup (s.next + 1 .. s.next + p1)
    BY <1>2, <1>7, <1>21, <1>22
  <1>14. \A x \in at .. at + q1 - 1 : c.disk[x] = <<x - 1>>
    <2> SUFFICES ASSUME NEW x \in at .. at + q1 - 1 PROVE c.disk[x] = <<x - 1>>
      OBVIOUS
    <2>1. CASE x \in a .. a + m - 1
      BY <1>7, <2>1
    <2>2. CASE x \notin a .. a + m - 1
      <3>1. x \in at .. at + q - 1
        BY <1>3, <1>5, <1>8, <2>2
      <3>2. x \notin t.s.next .. t.s.next + pm - 1
        BY <1>3, <1>5, <1>6, <1>8, <1>9, <1>20, <3>1
      <3>3. c.disk[x] = t.s.disk[x] /\ t.s.disk[x] = <<x - 1>>
        BY <1>2, <1>7, <2>2, <3>1, <3>2
      <3> QED  BY <3>3
    <2> QED  BY <2>1, <2>2
  <1>15. ASSUME NEW x \in DOMAIN s.disk, x \notin at .. at + q1 - 1, x \notin s.next + 1 .. s.next + p1
         PROVE  c.disk[x] = s.disk[x]
    <2>1. /\ x \notin at .. at + q - 1 /\ x \notin s.next + 1 .. s.next + p
          /\ x \notin a .. a + m - 1 /\ x \notin t.s.next .. t.s.next + pm - 1
      BY <1>15, <1>21, <1>22
    <2> QED  BY <1>2, <1>7, <2>1
  <1>16. c.ret \in Int /\ u.buffer \in Seq(Int) /\ Len(u.buffer) >= 1
    BY <1>2, <1>10, <1>12
  <1>17. u.buffer[1] = IF d = 1 THEN at ELSE s.next + 1
    <2>1. CASE i = 1
      <3>1. q = 0 /\ p = 0
        BY <1>6, <1>11, <2>1
      <3>2. t.buffer = <<>>
        BY <1>2, <2>1
      <3> QED  BY <1>8, <1>10, <1>12, <1>20, <3>1, <3>2
    <2>2. CASE i > 1
      <3>1. Len(t.buffer) >= 1 /\ t.buffer[1] = IF d = 1 THEN at ELSE s.next + 1
        BY <1>1, <1>2, <2>2
      <3> QED  BY <1>2, <1>10, <1>12, <3>1
    <2> QED  BY <1>1, <2>1, <2>2
  <1>18. FirstLeads(c.disk, s.next + 1, d - 1, at)
    <2>1. CASE i = 1
      <3>1. q = 0 /\ p = 0 /\ a = at /\ t.s.next = s.next + 1
        BY <1>2, <1>6, <1>8, <1>11, <2>1
      <3> QED  BY <1>7, <3>1
    <2>2. CASE i > 1
      <3>1. FirstLeads(t.s.disk, s.next + 1, d - 1, at) /\ p >= d - 1
        BY <1>1, <1>2, <1>5, <1>6, <1>11, <2>2
      <3> SUFFICES ASSUME NEW k \in 1 .. d - 1
                   PROVE  /\ s.next + d - k \in DOMAIN c.disk
                          /\ Len(c.disk[s.next + d - k]) >= 1
                          /\ c.disk[s.next + d - k][1] = IF k = 1 THEN at ELSE s.next + d - k + 1
        <4>1. \A k \in 1 .. d - 1 : s.next + 1 + (d - 1) - k = s.next + d - k
          BY <1>8
        <4> QED  BY <4>1 DEF FirstLeads
      <3>2. s.next + d - k \in DOMAIN t.s.disk
        BY <1>2, <1>8, <1>6, <3>1
      <3>3. s.next + d - k \notin a .. a + m - 1 /\ s.next + d - k \notin t.s.next .. t.s.next + pm - 1
        BY <1>3, <1>5, <1>6, <1>8, <1>9, <1>20, <3>1
      <3>4. c.disk[s.next + d - k] = t.s.disk[s.next + d - k] /\ s.next + d - k \in DOMAIN c.disk
        BY <1>7, <3>2, <3>3
      <3>5. s.next + 1 + (d - 1) - k = s.next + d - k
        BY <1>8
      <3>6. /\ Len(t.s.disk[s.next + d - k]) >= 1
            /\ t.s.disk[s.next + d - k][1] = IF k = 1 THEN at ELSE s.next + d - k + 1
        BY <3>1, <3>5 DEF FirstLeads
      <3> QED  BY <3>4, <3>6
    <2> QED  BY <1>1, <2>1, <2>2
  <1>19. d = 1 => u.buffer = [k \in 1 .. q1 |-> at + k - 1]
    <2> SUFFICES ASSUME d = 1 PROVE u.buffer = [k \in 1 .. q1 |-> at + k - 1]
      OBVIOUS
    <2>1. m = 1
      <3>1. S = 1
        BY DEF S, Span
      <3> QED  BY <1>3, <3>1 DEF m, Part
    <2>2. t.buffer = [k \in 1 .. q |-> at + k - 1] /\ c.ret = at + q /\ q1 = q + 1
      BY <1>2, <1>3, <1>7, <1>8, <2>1
    <2>3. Len(t.buffer) = q
      BY <1>2, <1>5, <2>2
    <2>4. Append(t.buffer, c.ret) = [k \in 1 .. q + 1 |-> IF k <= q THEN at + k - 1 ELSE at + q]
      BY <1>2, <1>5, <2>2, <2>3
    <2>5. \A k \in 1 .. q + 1 : (IF k <= q THEN at + k - 1 ELSE at + q) = at + k - 1
      BY <1>5, <1>8
    <2>6. [k \in 1 .. q + 1 |-> IF k <= q THEN at + k - 1 ELSE at + q] = [k \in 1 .. q + 1 |-> at + k - 1]
      BY <2>5
    <2> QED  BY <1>10, <2>2, <2>4, <2>6
  <1> QED  BY <1>1, <1>7, <1>10, <1>12, <1>13, <1>14, <1>15, <1>16, <1>17, <1>18, <1>19
           DEF MapsSoFar, S, q1, p1, u

\* map_node_blocks of depth d writes the tree, from wherever it may begin.
MapsWell(d) ==
    \A s, blocks, at : IsState(s) /\ Begins(s, blocks, at, d) => Maps(d, s, blocks, at, MapNode(s, blocks, at, d))

\* A level is right when the one below is.
LEMMA LevelMaps ==
    ASSUME NEW d \in 1 .. 3, MapsWell(d - 1)
    PROVE  MapsWell(d)
  <1> SUFFICES ASSUME NEW s, NEW blocks, NEW at, IsState(s), Begins(s, blocks, at, d)
               PROVE  Maps(d, s, blocks, at, MapNode(s, blocks, at, d))
    BY DEF MapsWell
  <1>1. blocks \in Nat \ {0} /\ blocks # 0 /\ s.next \in Nat /\ at \in Nat /\ PTRS \in Nat \ {0}
    BY BlockMapAssumption DEF Begins
  <1>2. PICK turn : /\ MapTrace(d, turn, s, blocks, at)
                    /\ MapNode(s, blocks, at, d) = Write(turn[PTRS].s, s.next, turn[PTRS].buffer)
    BY <1>1, MapTurns
  <1> DEFINE Q == {i \in 0 .. PTRS : MapsSoFar(d, i, s, blocks, at, turn[i])}
  <1>3. 0 \in Q
    BY <1>1, <1>2, MapFirstTurn DEF MapTrace
  <1>4. ASSUME NEW i \in 1 .. PTRS, i - 1 \in Q PROVE i \in Q
    <2> DEFINE t == turn[i - 1]
               c == MapNode(t.s, t.left, at + (i - 1) * Span(d - 1), d - 1)
    <2>1. MapsSoFar(d, i - 1, s, blocks, at, t) /\ turn[i] = MapTurn(t, c, Span(d - 1))
      BY <1>2, <1>4 DEF MapTrace
    <2> HIDE DEF c, t
    <2>2. CASE t.left # 0
      <3>1. Begins(t.s, t.left, at + (i - 1) * Span(d - 1), d - 1)
        BY <2>1, <2>2, ChildBegins
      <3>2. IsState(t.s)
        BY <2>1 DEF MapsSoFar
      <3>3. Maps(d - 1, t.s, t.left, at + (i - 1) * Span(d - 1), c)
        BY <3>1, <3>2 DEF MapsWell, c
      <3>4. MapsSoFar(d, i, s, blocks, at, turn[i])
        BY <2>1, <2>2, <3>3, MapNextTurn
      <3> QED  BY <3>4
    <2>3. CASE t.left = 0
      <3> DEFINE S == Span(d - 1)
      <3>1. S \in Nat \ {0}
        <4>1. d - 1 \in 0 .. 3
          OBVIOUS
        <4> QED  BY <4>1, Spans
      <3>2. t.left = blocks - Part(blocks, i - 1, S)
        BY <2>1 DEF MapsSoFar
      <3>3. Part(blocks, i, S) = Part(blocks, i - 1, S)
        <4>1. i \in Nat \ {0} /\ blocks \in Nat
          BY <1>1
        <4> HIDE DEF S
        <4>2. (i - 1) * S \in Nat /\ i * S \in Nat /\ (i - 1) * S <= i * S
          BY <3>1, <4>1
        <4> QED  BY <2>3, <3>2, <4>1, <4>2 DEF Part
      <3>4. turn[i] = t
        BY <2>1, <2>3 DEF MapTurn
      <3>5. i > 0 /\ i - 1 > 0
        <4>1. CASE i = 1
          <5>1. Part(blocks, 0, S) = 0
            <6> HIDE DEF S
            <6> QED  BY <1>1, <3>1 DEF Part
          <5> QED  BY <1>1, <2>3, <3>2, <4>1, <5>1
        <4> QED  BY <4>1
      <3>6. MapsSoFar(d, i, s, blocks, at, t)
        <4> DEFINE q  == Part(blocks, i - 1, S)
                   q1 == Part(blocks, i, S)
                   p  == Pointers(q, d - 1)
                   p1 == Pointers(q1, d - 1)
        <4>1. q1 = q /\ p1 = p
          BY <3>3
        <4>2. /\ IsState(t.s) /\ t.left = blocks - q
              /\ t.s.mapped = s.mapped + q /\ t.s.next = s.next + 1 + p
              /\ DOMAIN t.s.disk = DOMAIN s.disk \cup (at .. at + q - 1) \cup (s.next + 1 .. s.next + p)
              /\ \A x \in DOMAIN s.disk :
                    x \notin at .. at + q - 1 /\ x \notin s.next + 1 .. s.next + p => t.s.disk[x] = s.disk[x]
              /\ \A x \in at .. at + q - 1 : t.s.disk[x] = <<x - 1>>
              /\ t.buffer \in Seq(Int)
              /\ Len(t.buffer) >= 1 /\ t.buffer[1] = IF d = 1 THEN at ELSE s.next + 1
              /\ FirstLeads(t.s.disk, s.next + 1, d - 1, at)
              /\ d = 1 => t.buffer = [k \in 1 .. q |-> at + k - 1]
          BY <2>1, <3>5 DEF MapsSoFar
        <4> HIDE DEF q, p, q1, p1
        <4>3. MapsSoFar(d, i, s, blocks, at, t) <=>
              /\ IsState(t.s) /\ t.left = blocks - q1
              /\ t.s.mapped = s.mapped + q1 /\ t.s.next = s.next + 1 + p1
              /\ DOMAIN t.s.disk = DOMAIN s.disk \cup (at .. at + q1 - 1) \cup (s.next + 1 .. s.next + p1)
              /\ \A x \in DOMAIN s.disk :
                    x \notin at .. at + q1 - 1 /\ x \notin s.next + 1 .. s.next + p1 => t.s.disk[x] = s.disk[x]
              /\ \A x \in at .. at + q1 - 1 : t.s.disk[x] = <<x - 1>>
              /\ t.buffer \in Seq(Int) /\ (i = 0 => t.buffer = <<>>)
              /\ i > 0 => /\ Len(t.buffer) >= 1 /\ t.buffer[1] = IF d = 1 THEN at ELSE s.next + 1
                          /\ FirstLeads(t.s.disk, s.next + 1, d - 1, at)
              /\ d = 1 => t.buffer = [k \in 1 .. q1 |-> at + k - 1]
          BY Zenon DEF MapsSoFar, q1, p1
        <4> HIDE DEF S
        <4>4. (i = 0 => t.buffer = <<>>)
          BY <3>5
        <4> QED  BY <4>1, <4>2, <4>3, <4>4, Zenon
      <3> QED  BY <3>4, <3>6
    <2> QED  BY <2>2, <2>3
  <1>5. MapsSoFar(d, PTRS, s, blocks, at, turn[PTRS])
    <2> HIDE DEF Q
    <2>1. 0 .. PTRS \subseteq Q
      BY <1>1, <1>3, <1>4, Upward
    <2>2. PTRS \in Q
      BY <1>1, <2>1
    <2> QED  BY <2>2 DEF Q
  <1> DEFINE t == turn[PTRS]
             m == Part(blocks, 1, Span(d))
             p == Pointers(m, d - 1)
             all == Pointers(m, d)
             r == Write(t.s, s.next, t.buffer)
  <1>6. /\ IsState(t.s) /\ t.s.mapped = s.mapped + m /\ t.s.next = s.next + 1 + p
        /\ DOMAIN t.s.disk = DOMAIN s.disk \cup (at .. at + m - 1) \cup (s.next + 1 .. s.next + p)
        /\ \A x \in DOMAIN s.disk :
              x \notin at .. at + m - 1 /\ x \notin s.next + 1 .. s.next + p => t.s.disk[x] = s.disk[x]
        /\ \A x \in at .. at + m - 1 : t.s.disk[x] = <<x - 1>>
        /\ Len(t.buffer) >= 1 /\ t.buffer[1] = IF d = 1 THEN at ELSE s.next + 1
        /\ FirstLeads(t.s.disk, s.next + 1, d - 1, at)
        /\ d = 1 => t.buffer = [k \in 1 .. m |-> at + k - 1]
    <2>0. PTRS \in 0 .. PTRS /\ blocks \in Nat
      BY <1>1
    <2>1. Part(blocks, PTRS, Span(d - 1)) = m /\ PTRS > 0
      <3>1. Part(blocks, PTRS, Span(d - 1)) = Part(blocks, 1, Span(d))
        BY <2>0, PartOfLevel
      <3>2. PTRS > 0
        BY <1>1
      <3> QED  BY <3>1, <3>2
    <2> HIDE DEF m
    <2> QED  BY <1>5, <2>1 DEF MapsSoFar
  <1>7. m \in 1 .. Span(d) /\ m \in Nat /\ p \in Nat /\ all = 1 + p /\ at + m <= s.next
    <2>1. Span(d) \in Nat \ {0}
      BY Spans
    <2>2. 1 * Span(d) = Span(d)
      BY <2>1
    <2>3. m \in 1 .. Span(d) /\ m \in Nat
      BY <1>1, <2>1, <2>2 DEF Part
    <2>4. at + m <= s.next
      BY DEF Begins
    <2> HIDE DEF m
    <2>5. m > 0 /\ d \in 0 .. 3 /\ d - 1 \in 0 .. 3 /\ d > 0
      BY <2>3
    <2>6. p \in Nat /\ Pointers(m, d) = 1 + p
      BY <2>3, <2>5, PointersOfTree
    <2> QED  BY <2>3, <2>4, <2>6 DEF all
  <1>8. r = [disk   |-> [x \in DOMAIN t.s.disk \cup {s.next} |-> IF x = s.next THEN t.buffer ELSE t.s.disk[x]],
             mapped |-> t.s.mapped, next |-> t.s.next, ret |-> s.next]
    <2> HIDE DEF t, m, p
    <2>1. t.s = [disk |-> t.s.disk, mapped |-> t.s.mapped, next |-> t.s.next, ret |-> t.s.ret]
      BY <1>6 DEF IsState
    <2> DEFINE on == [x \in DOMAIN t.s.disk \cup {s.next} |-> IF x = s.next THEN t.buffer ELSE t.s.disk[x]]
    <2>2. r = [t.s EXCEPT !.disk = on, !.ret = s.next]
      BY DEF Write
    <2> HIDE DEF on, r
    <2>3. r = [disk |-> on, mapped |-> t.s.mapped, next |-> t.s.next, ret |-> s.next]
      BY <2>1, <2>2
    <2> QED  BY <2>3 DEF on
  <1> HIDE DEF t, m, p, r, all
  <1>9. /\ DOMAIN r.disk = DOMAIN t.s.disk \cup {s.next} /\ r.disk[s.next] = t.buffer
        /\ \A x \in DOMAIN t.s.disk : x # s.next => r.disk[x] = t.s.disk[x]
        /\ r.mapped = t.s.mapped /\ r.next = t.s.next /\ r.ret = s.next /\ IsState(r)
    BY <1>8 DEF IsState
  <1>10. s.next .. s.next + all - 1 = {s.next} \cup (s.next + 1 .. s.next + p)
    BY <1>1, <1>7
  <1>11. \A x \in at .. at + m - 1 : x # s.next
    BY <1>1, <1>7
  <1>12. FirstLeads(r.disk, s.next, d, at)
    <2> SUFFICES ASSUME NEW k \in 1 .. d
                 PROVE  /\ s.next + d - k \in DOMAIN r.disk
                        /\ Len(r.disk[s.next + d - k]) >= 1
                        /\ r.disk[s.next + d - k][1] = IF k = 1 THEN at ELSE s.next + d - k + 1
      BY DEF FirstLeads
    <2>1. CASE k = d
      <3>1. s.next + d - k = s.next
        BY <1>1, <2>1
      <3> QED  BY <1>6, <1>9, <2>1, <3>1
    <2>2. CASE k # d
      <3>1. k \in 1 .. d - 1 /\ s.next + 1 + (d - 1) - k = s.next + d - k /\ s.next + d - k # s.next
        BY <1>1, <2>2
      <3>2. /\ s.next + d - k \in DOMAIN t.s.disk
            /\ Len(t.s.disk[s.next + d - k]) >= 1
            /\ t.s.disk[s.next + d - k][1] = IF k = 1 THEN at ELSE s.next + d - k + 1
        BY <1>6, <3>1 DEF FirstLeads
      <3> QED  BY <1>9, <3>1, <3>2
    <2> QED  BY <2>1, <2>2
  <1>13. \A x \in DOMAIN s.disk :
            x \notin at .. at + m - 1 /\ x \notin s.next .. s.next + all - 1 => r.disk[x] = s.disk[x]
    BY <1>6, <1>9, <1>10
  <1>14. \A x \in at .. at + m - 1 : r.disk[x] = <<x - 1>>
    BY <1>6, <1>9, <1>11
  <1>15. DOMAIN r.disk = DOMAIN s.disk \cup (at .. at + m - 1) \cup (s.next .. s.next + all - 1)
    BY <1>6, <1>9, <1>10
  <1>16. r.mapped = s.mapped + m /\ r.next = s.next + all /\ r.ret = s.next
    <2>1. t.s.mapped = s.mapped + m /\ t.s.next = s.next + 1 + p
      BY <1>6
    <2>2. r.mapped = t.s.mapped /\ r.next = t.s.next /\ r.ret = s.next
      BY <1>9
    <2> QED  BY <1>1, <1>7, <2>1, <2>2
  <1>17. Maps(d, s, blocks, at, r)
    <2>1. d # 0 /\ IsState(r) /\ (d = 1 => r.disk[s.next] = [k \in 1 .. m |-> at + k - 1])
      BY <1>6, <1>9
    <2> QED  BY <1>12, <1>13, <1>14, <1>15, <1>16, <2>1 DEF Maps, m, all
  <1> QED  BY <1>2, <1>17 DEF r, t

\* map_node_blocks writes its tree at every depth.
LEMMA NodesMap == \A d \in 0 .. 3 : MapsWell(d)
  <1>1. MapsWell(0)
    BY DataMaps DEF MapsWell, MapNode
  <1>2. MapsWell(1)
    <2>1. MapsWell(1 - 1)
      BY <1>1
    <2> QED  BY <2>1, LevelMaps
  <1>3. MapsWell(2)
    <2>1. MapsWell(2 - 1)
      BY <1>2
    <2> QED  BY <2>1, LevelMaps
  <1>4. MapsWell(3)
    <2>1. MapsWell(3 - 1)
      BY <1>3
    <2> QED  BY <2>1, LevelMaps
  <1> QED  BY <1>1, <1>2, <1>3, <1>4

-----------------------------------------------------------------------------
(* The slots of the node.                                                   *)

\* Data blocks that the first i slots have room for, and hold of n.
Ends(i)    == IF i <= NDIRECT THEN i ELSE SlotStart(i - NDIRECT) + Span(i - NDIRECT)
Held(n, i) == IF n <= Ends(i) THEN n ELSE Ends(i)

\* Pointer blocks of the first i slots.
Placed(n, i) == IF i <= NDIRECT THEN 0
                ELSE PointersBefore(n, i - NDIRECT) + SlotPointers(n, i - NDIRECT)

\* The block that slot j names.
Top(n, j) == IF j <= NDIRECT THEN j ELSE n + Placed(n, j - 1) + 1

\* A slot has room for a tree of its depth.
LEMMA SlotEnds ==
    /\ Ends(0) = 0 /\ \A i \in 0 .. NDIRECT + 3 : Ends(i) \in Nat
    /\ \A i \in 1 .. NDIRECT + 3 : Ends(i) = Ends(i - 1) + Span(SlotDepth(i)) /\ SlotDepth(i) \in 0 .. 3
    /\ \A d \in Depth : Ends(NDIRECT + d - 1) = SlotStart(d)
    /\ Ends(NDIRECT + 3) = NDIRECT + Span(1) + Span(2) + Span(3)
  <1>1. NDIRECT \in Nat \ {0}
    BY BlockMapAssumption
  <1>2. Span(0) = 1 /\ Span(1) \in Nat /\ Span(2) \in Nat /\ Span(3) \in Nat
    <2>1. Span(0) = 1
      BY DEF Span
    <2> QED  BY <2>1, Spans
  <1>3. /\ SlotStart(1) = NDIRECT /\ SlotStart(2) = NDIRECT + Span(1)
        /\ SlotStart(3) = NDIRECT + Span(1) + Span(2)
    BY DEF SlotStart
  <1>4. \A i \in 1 .. NDIRECT + 3 : i <= NDIRECT \/ i = NDIRECT + 1 \/ i = NDIRECT + 2 \/ i = NDIRECT + 3
    BY <1>1
  <1>5. /\ \A i \in 0 .. NDIRECT : Ends(i) = i
        /\ Ends(NDIRECT + 1) = NDIRECT + Span(1)
        /\ Ends(NDIRECT + 2) = NDIRECT + Span(1) + Span(2)
        /\ Ends(NDIRECT + 3) = NDIRECT + Span(1) + Span(2) + Span(3)
    BY <1>1, <1>2, <1>3 DEF Ends
  <1>6. /\ \A i \in 1 .. NDIRECT : SlotDepth(i) = 0
        /\ SlotDepth(NDIRECT + 1) = 1 /\ SlotDepth(NDIRECT + 2) = 2 /\ SlotDepth(NDIRECT + 3) = 3
    BY <1>1 DEF SlotDepth
  <1>7. ASSUME NEW i \in 1 .. NDIRECT + 3
        PROVE  Ends(i) = Ends(i - 1) + Span(SlotDepth(i)) /\ SlotDepth(i) \in 0 .. 3
    <2>1. CASE i <= NDIRECT
      BY <1>1, <1>2, <1>5, <1>6, <2>1
    <2>2. CASE i = NDIRECT + 1
      BY <1>1, <1>2, <1>5, <1>6, <2>2
    <2>3. CASE i = NDIRECT + 2
      BY <1>1, <1>2, <1>5, <1>6, <2>3
    <2>4. CASE i = NDIRECT + 3
      BY <1>1, <1>2, <1>5, <1>6, <2>4
    <2> QED  BY <1>4, <2>1, <2>2, <2>3, <2>4
  <1>8. ASSUME NEW i \in 0 .. NDIRECT + 3 PROVE Ends(i) \in Nat
    BY <1>1, <1>2, <1>4, <1>5
  <1>9. ASSUME NEW d \in Depth PROVE Ends(NDIRECT + d - 1) = SlotStart(d)
    <2>1. d = 1 \/ d = 2 \/ d = 3
      BY DEF Depth
    <2> QED  BY <1>1, <1>3, <1>5, <2>1
  <1>10. Ends(0) = 0
    BY <1>1, <1>5
  <1> QED  BY <1>5, <1>7, <1>8, <1>9, <1>10

\* BlockMap counts a slot's pointer blocks level by level, as Pointers does.
LEMMA SlotPointersAre ==
    ASSUME NEW n \in Nat, NEW d \in Depth
    PROVE  /\ SlotPointers(n, d) = Pointers(SlotBlocks(n, d), d) /\ SlotPointers(n, d) \in Nat
           /\ SlotBlocks(n, d) \in Nat
  <1>1. d = 1 \/ d = 2 \/ d = 3
    BY DEF Depth
  <1>2. SlotStart(d) \in Nat /\ Span(d) \in Nat
    <2>1. NDIRECT + d - 1 \in 0 .. NDIRECT + 3 /\ d \in 0 .. 3
      BY BlockMapAssumption, <1>1
    <2> QED  BY <2>1, SlotEnds, Spans
  <1>3. SlotBlocks(n, d) \in Nat
    BY <1>2 DEF SlotBlocks
  <1> DEFINE b == SlotBlocks(n, d)
  <1> HIDE DEF b
  <1>4. DivCeil(b, Span(1)) \in Nat /\ DivCeil(b, Span(2)) \in Nat /\ DivCeil(b, Span(3)) \in Nat
    <2>1. Span(1) \in Nat \ {0} /\ Span(2) \in Nat \ {0} /\ Span(3) \in Nat \ {0}
      BY Spans
    <2> QED  BY <1>3, <2>1, CeilOfRest DEF b
  <1>5. SlotPointers(n, d) = (IF 1 <= d THEN DivCeil(b, Span(1)) ELSE 0)
           + (IF 2 <= d THEN DivCeil(b, Span(2)) ELSE 0) + (IF 3 <= d THEN DivCeil(b, Span(3)) ELSE 0)
    BY DEF SlotPointers, LevelPointers, b
  <1>6. Pointers(b, d) = (IF d >= 1 THEN DivCeil(b, Span(1)) ELSE 0)
           + (IF d >= 2 THEN DivCeil(b, Span(2)) ELSE 0) + (IF d >= 3 THEN DivCeil(b, Span(3)) ELSE 0)
    BY DEF Pointers
  <1>7. SlotPointers(n, d) = Pointers(b, d) /\ SlotPointers(n, d) \in Nat
    BY <1>1, <1>4, <1>5, <1>6
  <1> QED  BY <1>3, <1>7 DEF b

\* What one slot more holds, in data blocks and in pointer blocks.
LEMMA NextSlot ==
    ASSUME NEW n \in Nat, NEW i \in 1 .. NDIRECT + 3
    PROVE  LET left == n - Held(n, i - 1)
               m    == Part(left, 1, Span(SlotDepth(i)))
           IN  /\ Held(n, i - 1) \in 0 .. n /\ left \in Nat /\ m \in Nat /\ (left = 0 <=> n <= Ends(i - 1))
               /\ (left # 0 => Held(n, i - 1) = Ends(i - 1) /\ m > 0)
               /\ Held(n, i) = Held(n, i - 1) + m
               /\ Placed(n, i) = Placed(n, i - 1) + Pointers(m, SlotDepth(i))
               /\ Placed(n, i) \in Nat /\ Placed(n, i - 1) \in Nat
               /\ i = NDIRECT + 1 => Placed(n, i - 1) = 0 /\ Ends(i - 1) = NDIRECT
  <1> DEFINE e == Ends(i - 1)
             s == Span(SlotDepth(i))
             h == Held(n, i - 1)
             left == n - h
             m == Part(left, 1, s)
  <1>0. NDIRECT \in Nat \ {0} /\ i - 1 \in 0 .. NDIRECT + 3
    BY BlockMapAssumption
  <1>1. e \in Nat /\ Ends(i) = e + s /\ SlotDepth(i) \in 0 .. 3
    BY <1>0, SlotEnds
  <1>2. s \in Nat \ {0}
    BY <1>1, Spans
  <1>3. h = (IF n <= e THEN n ELSE e) /\ Held(n, i) = IF n <= e + s THEN n ELSE e + s
    BY <1>1 DEF Held
  <1>4. 1 * s = s
    BY <1>2
  <1> HIDE DEF e, s, h
  <1>5. m = IF left <= s THEN left ELSE s
    BY <1>4 DEF Part
  <1>6. /\ h \in 0 .. n /\ left \in Nat /\ m \in Nat /\ (left = 0 <=> n <= e)
        /\ (left # 0 => h = e /\ m > 0) /\ Held(n, i) = h + m
    <2> HIDE DEF m
    <2> QED BY <1>1, <1>2, <1>3, <1>5
  <1>7. \A d \in Depth : i = NDIRECT + d => m = SlotBlocks(n, d)
    <2> SUFFICES ASSUME NEW d \in Depth, i = NDIRECT + d PROVE m = SlotBlocks(n, d)
      OBVIOUS
    <2>1. e = SlotStart(d)
      <3>1. i - 1 = NDIRECT + d - 1
        BY <1>0 DEF Depth
      <3>2. Ends(NDIRECT + d - 1) = SlotStart(d)
        BY SlotEnds
      <3> QED  BY <3>1, <3>2 DEF e
    <2>2. SlotDepth(i) = d
      BY <1>0 DEF SlotDepth, Depth
    <2>3. SlotBlocks(n, d) = IF n <= e THEN 0 ELSE IF n - e > s THEN s ELSE n - e
      BY <2>1, <2>2 DEF SlotBlocks, s
    <2> HIDE DEF m
    <2> QED  BY <1>1, <1>2, <1>3, <1>5, <1>6, <2>3
  <1>8. ASSUME NEW d \in Depth PROVE SlotPointers(n, d) = Pointers(SlotBlocks(n, d), d) /\ SlotPointers(n, d) \in Nat
    BY SlotPointersAre
  <1>9. 1 \in Depth /\ 2 \in Depth /\ 3 \in Depth
    BY DEF Depth
  <1>10. /\ Placed(n, NDIRECT) = 0 /\ Placed(n, NDIRECT + 1) = SlotPointers(n, 1)
         /\ Placed(n, NDIRECT + 2) = SlotPointers(n, 1) + SlotPointers(n, 2)
         /\ Placed(n, NDIRECT + 3) = SlotPointers(n, 1) + SlotPointers(n, 2) + SlotPointers(n, 3)
         /\ \A j \in 0 .. NDIRECT : Placed(n, j) = 0
    BY <1>0, <1>8, <1>9 DEF Placed, PointersBefore
  <1>11. /\ Placed(n, i) = Placed(n, i - 1) + Pointers(m, SlotDepth(i))
         /\ Placed(n, i) \in Nat /\ Placed(n, i - 1) \in Nat
    <2> HIDE DEF m
    <2>1. CASE i <= NDIRECT
      <3>1. SlotDepth(i) = 0 /\ Pointers(m, 0) = 0
        BY <1>0, <2>1 DEF SlotDepth, Pointers
      <3> QED  BY <1>0, <1>10, <2>1, <3>1
    <2>2. ASSUME NEW d \in Depth, i = NDIRECT + d PROVE SlotDepth(i) = d /\ Pointers(m, SlotDepth(i)) = SlotPointers(n, d)
      <3>1. SlotDepth(i) = d
        BY <1>0, <2>2 DEF SlotDepth, Depth
      <3> QED  BY <1>7, <1>8, <2>2, <3>1
    <2>3. CASE i = NDIRECT + 1
      BY <1>0, <1>8, <1>9, <1>10, <2>2, <2>3
    <2>4. CASE i = NDIRECT + 2
      BY <1>0, <1>8, <1>9, <1>10, <2>2, <2>4
    <2>5. CASE i = NDIRECT + 3
      BY <1>0, <1>8, <1>9, <1>10, <2>2, <2>5
    <2>6. i <= NDIRECT \/ i = NDIRECT + 1 \/ i = NDIRECT + 2 \/ i = NDIRECT + 3
      BY <1>0
    <2> QED  BY <2>1, <2>3, <2>4, <2>5, <2>6
  <1>12. i = NDIRECT + 1 => Placed(n, i - 1) = 0 /\ e = NDIRECT
    <2>1. i = NDIRECT + 1 => i - 1 = NDIRECT
      BY <1>0
    <2>2. Ends(NDIRECT) = NDIRECT
      BY <1>0 DEF Ends
    <2> QED  BY <1>10, <2>1, <2>2 DEF e
  <1> HIDE DEF m
  <1>13. /\ h \in 0 .. n /\ left \in Nat /\ m \in Nat /\ (left = 0 <=> n <= e)
         /\ (left # 0 => h = e /\ m > 0)
         /\ Held(n, i) = h + m
         /\ Placed(n, i) = Placed(n, i - 1) + Pointers(m, SlotDepth(i))
         /\ Placed(n, i) \in Nat /\ Placed(n, i - 1) \in Nat
         /\ i = NDIRECT + 1 => Placed(n, i - 1) = 0 /\ e = NDIRECT
    BY <1>6, <1>11, <1>12
  <1> QED  BY <1>13 DEF e, s, h, m

-----------------------------------------------------------------------------
(* allocate_node_blocks.                                                    *)

\* The disk and the slots of a node of n blocks after i slots.
SlotsSoFar(n, i, t) ==
    LET q == Held(n, i)
        p == Placed(n, i)
    IN  /\ IsState(t.s) /\ t.s.mapped = q /\ t.s.next = n + 1 + p
        /\ DOMAIN t.s.disk = (1 .. q) \cup (n + 1 .. n + p)
        /\ \A x \in 1 .. q : t.s.disk[x] = <<x - 1>>
        /\ t.block \in Seq(Int)
        /\ i = 0 \/ n > Ends(i - 1) => Len(t.block) = i
        /\ \A j \in 1 .. i : n > Ends(j - 1) =>
              /\ j <= Len(t.block) /\ t.block[j] = Top(n, j)
              /\ FirstLeads(t.s.disk, Top(n, j), SlotDepth(j), Ends(j - 1) + 1)
        /\ i > NDIRECT /\ n > NDIRECT =>
              t.s.disk[n + 1] = [k \in 1 .. Part(n - NDIRECT, 1, Span(1)) |-> NDIRECT + k]

\* A turn of the loop over the slots, and where it begins.
SlotTurn(t, i) ==
    LET r == MapNode(t.s, Blocks - t.s.mapped, t.s.mapped + 1, SlotDepth(i))
    IN  IF t.s.mapped >= Blocks THEN t ELSE [s |-> r, block |-> Append(t.block, r.ret)]
SlotStartState == [s |-> [disk |-> disk, mapped |-> 0, next |-> PointersFrom, ret |-> 0], block |-> <<>>]

\* The loop over the slots is what it is written as.
LEMMA SlotTurns ==
    MapSlots[0] = SlotStartState /\ \A i \in 1 .. NDIRECT + 3 : MapSlots[i] = SlotTurn(MapSlots[i - 1], i)
  <1> DEFINE N == NDIRECT + 3
             start == SlotStartState
             Turn(t, i) == SlotTurn(t, i)
             Upto(k, g) == g = [i \in 0 .. k |-> IF i = 0 THEN start ELSE Turn(g[i - 1], i)]
             Q == {k \in Nat : \E g : Upto(k, g)}
             after == CHOOSE g : Upto(N, g)
  <1>0. N \in Nat
    BY BlockMapAssumption
  <1>1. MapSlots = after
    BY DEF MapSlots, SlotTurn, SlotStartState
  <1> HIDE DEF Turn, start, N
  <1>2. 0 \in Q
    <2>1. Upto(0, [i \in 0 .. 0 |-> start])
      OBVIOUS
    <2> QED  BY <2>1
  <1>3. ASSUME NEW k \in 1 .. N, k - 1 \in Q PROVE k \in Q
    <2>1. PICK g : Upto(k - 1, g)
      BY <1>3
    <2> DEFINE h == [i \in 0 .. k |-> IF i < k THEN g[i] ELSE Turn(g[k - 1], k)]
    <2>2. ASSUME NEW i \in 0 .. k PROVE h[i] = IF i = 0 THEN start ELSE Turn(h[i - 1], i)
      BY <2>1
    <2>3. h = [i \in 0 .. k |-> h[i]]
      OBVIOUS
    <2> HIDE DEF h
    <2>4. Upto(k, h)
      BY <2>2, <2>3
    <2> QED  BY <2>4
  <1>4. N \in Q
    <2> HIDE DEF Q
    <2> QED  BY <1>0, <1>2, <1>3, Upward
  <1>5. Upto(N, after)
    <2> HIDE DEF Upto
    <2> QED  BY <1>4
  <1> HIDE DEF after
  <1>6. after[0] = start /\ \A i \in 1 .. N : after[i] = Turn(after[i - 1], i)
    BY <1>0, <1>5
  <1> QED  BY <1>1, <1>6 DEF start, Turn, N

\* A slot that is filled right is one more that is.
LEMMA NextSlotMaps ==
    ASSUME NEW n \in Nat, n = Blocks, NEW i \in 1 .. NDIRECT + 3, NEW t, SlotsSoFar(n, i - 1, t)
    PROVE  SlotsSoFar(n, i, SlotTurn(t, i))
  <1> DEFINE e == Ends(i - 1)
             d == SlotDepth(i)
             q == Held(n, i - 1)
             left == n - q
             m == Part(left, 1, Span(d))
             q1 == Held(n, i)
             p == Placed(n, i - 1)
             p1 == Placed(n, i)
             pm == Pointers(m, d)
  <1>0. NDIRECT \in Nat \ {0} /\ i \in Nat \ {0} /\ e \in Nat /\ d \in 0 .. 3 /\ (d = 0 <=> i <= NDIRECT)
    <2>1. NDIRECT \in Nat \ {0} /\ i - 1 \in 0 .. NDIRECT + 3
      BY BlockMapAssumption
    <2>2. d = 0 <=> i <= NDIRECT
      BY <2>1 DEF SlotDepth
    <2> QED  BY <2>1, <2>2, SlotEnds
  <1>1. /\ q \in 0 .. n /\ left \in Nat /\ m \in Nat /\ (left = 0 <=> n <= e)
        /\ (left # 0 => q = e /\ m > 0)
        /\ q1 = q + m /\ p1 = p + pm /\ p1 \in Nat /\ p \in Nat
        /\ i = NDIRECT + 1 => p = 0 /\ e = NDIRECT
    BY NextSlot
  <1>2. /\ IsState(t.s) /\ t.s.mapped = q /\ t.s.next = n + 1 + p
        /\ DOMAIN t.s.disk = (1 .. q) \cup (n + 1 .. n + p)
        /\ \A x \in 1 .. q : t.s.disk[x] = <<x - 1>>
        /\ t.block \in Seq(Int)
        /\ i - 1 = 0 \/ n > Ends(i - 1 - 1) => Len(t.block) = i - 1
        /\ \A j \in 1 .. i - 1 : n > Ends(j - 1) =>
              /\ j <= Len(t.block) /\ t.block[j] = Top(n, j)
              /\ FirstLeads(t.s.disk, Top(n, j), SlotDepth(j), Ends(j - 1) + 1)
        /\ i - 1 > NDIRECT /\ n > NDIRECT =>
              t.s.disk[n + 1] = [k \in 1 .. Part(n - NDIRECT, 1, Span(1)) |-> NDIRECT + k]
    BY DEF SlotsSoFar
  <1>3. m = IF left <= Span(d) THEN left ELSE Span(d)
    <2>1. Span(d) \in Nat /\ 1 * Span(d) = Span(d)
      <3>1. Span(d) \in Nat
        BY <1>0, Spans
      <3> QED  BY <3>1
    <2> QED  BY <2>1 DEF Part
  <1>4. ASSUME NEW j \in 1 .. i PROVE Ends(j - 1) <= e /\ (j < i => Ends(j) <= e) /\ Ends(j - 1) \in Nat /\ Ends(j) \in Nat
    \* the slots' ends grow
    <2> DEFINE Q == {k \in 0 .. i - 1 : Ends(i - 1 - k) <= e}
    <2>1. 0 \in Q
      BY <1>0
    <2>2. ASSUME NEW k \in 1 .. i - 1, k - 1 \in Q PROVE k \in Q
      <3> DEFINE l == i - 1 - (k - 1)
      <3>1. l \in 1 .. NDIRECT + 3 /\ l - 1 \in 0 .. NDIRECT + 3 /\ l \in 0 .. NDIRECT + 3 /\ l - 1 = i - 1 - k
        BY <1>0
      <3> HIDE DEF l
      <3>2. Ends(l) = Ends(l - 1) + Span(SlotDepth(l)) /\ SlotDepth(l) \in 0 .. 3 /\ Ends(l) \in Nat /\ Ends(l - 1) \in Nat
        BY <3>1, SlotEnds
      <3>3. Span(SlotDepth(l)) \in Nat
        BY <3>2, Spans
      <3>4. Ends(l) <= e
        BY <2>2 DEF l
      <3>5. Ends(l - 1) <= e
        <4> HIDE DEF e
        <4> QED  BY <1>0, <3>2, <3>3, <3>4
      <3>6. k \in 0 .. i - 1
        BY <1>0
      <3> QED  BY <3>1, <3>5, <3>6
    <2>3. i - 1 \in Nat
      BY <1>0
    <2>4. 0 .. i - 1 \subseteq Q
      <3> HIDE DEF Q
      <3> QED  BY <2>1, <2>2, <2>3, Upward
    <2>5. i - j \in 0 .. i - 1 /\ i - 1 - (i - j) = j - 1 /\ (j < i => i - 1 - j \in 0 .. i - 1 /\ i - 1 - (i - 1 - j) = j)
      BY <1>0
    <2>6. Ends(i - 1 - (i - j)) <= e /\ (j < i => Ends(i - 1 - (i - 1 - j)) <= e)
      BY <2>4, <2>5
    <2>7. j - 1 \in 0 .. NDIRECT + 3 /\ j \in 0 .. NDIRECT + 3
      BY <1>0
    <2> QED  BY <2>5, <2>6, <2>7, SlotEnds
  <1> DEFINE u == SlotTurn(t, i)
             c == MapNode(t.s, left, q + 1, d)
  <1>5. n \in Nat /\ Blocks = n
    OBVIOUS
  <1>6. u = IF q >= n THEN t ELSE [s |-> c, block |-> Append(t.block, c.ret)]
    BY <1>2, <1>5 DEF SlotTurn
  <1>7. \A x \in DOMAIN t.s.disk : x \notin q + 1 .. q + m /\ x \notin n + 1 + p .. n + 1 + p + pm - 1
    <2>1. pm \in Int /\ q \in Nat /\ q + m <= n
      <3>1. pm \in Nat
        <4> HIDE DEF m, d
        <4> QED  BY <1>0, <1>1, PointersOfTree
      <3>2. m <= left
        <4>1. Span(d) \in Nat
          BY <1>0, Spans
        <4> HIDE DEF left, m
        <4> QED  BY <1>1, <1>3, <4>1
      <3>3. left = n - q
        OBVIOUS
      <3> HIDE DEF q, m, left, pm
      <3> QED  BY <1>1, <1>5, <3>1, <3>2, <3>3
    <2> HIDE DEF q, m, p, pm
    <2>2. ASSUME NEW x \in (1 .. q) \cup (n + 1 .. n + p)
          PROVE  x \notin q + 1 .. q + m /\ x \notin n + 1 + p .. n + 1 + p + pm - 1
      BY <1>1, <1>5, <2>1
    <2> QED  BY <1>2, <2>2
  <1>8. CASE left = 0
    <2>1. q = n /\ m = 0 /\ n <= e
      <3> HIDE DEF q, e
      <3>1. q = n /\ n <= e
        BY <1>1, <1>8
      <3>2. m = 0
        <4>1. Span(d) \in Nat
          BY <1>0, Spans
        <4> HIDE DEF m, left
        <4> QED  BY <1>3, <1>8, <4>1
      <3> QED  BY <3>1, <3>2
    <2>2. pm = 0
      <3> HIDE DEF m, d
      <3> QED  BY <1>0, <2>1, PointersOfTree
    <2>3. q1 = q /\ p1 = p
      <3> HIDE DEF q1, q, p1, p, m, pm
      <3> QED  BY <1>1, <2>1, <2>2
    <2>4. u = t
      <3> HIDE DEF u, q, c
      <3> QED  BY <1>6, <2>1, <1>5
    <2>5. \A j \in 1 .. i : n > Ends(j - 1) => j \in 1 .. i - 1
      BY <1>0, <1>5, <2>1
    <2>6. i > NDIRECT /\ n > NDIRECT => i - 1 > NDIRECT
      <3>1. i = NDIRECT + 1 => ~(n > NDIRECT)
        <4> HIDE DEF e
        <4> QED  BY <1>0, <1>1, <1>5, <2>1
      <3> QED  BY <1>0, <3>1
    <2>7. ~(i = 0 \/ n > Ends(i - 1))
      BY <1>0, <1>5, <2>1
    <2> HIDE DEF u, q, p, q1, p1
    <2> QED  BY <1>2, <2>3, <2>4, <2>5, <2>6, <2>7 DEF SlotsSoFar, q1, p1, u
  <1>9. CASE left # 0
    <2>1. /\ q = e /\ m \in Nat \ {0} /\ n > e /\ left \in Nat \ {0} /\ q + m <= n /\ q \in Nat
          /\ left = n - q
      <3>0. left = n - q
        OBVIOUS
      <3> HIDE DEF q, m, e, left
      <3> QED  BY <1>0, <1>1, <1>3, <1>5, <1>9, <3>0
    <2>2. Begins(t.s, left, q + 1, d)
      <3> HIDE DEF q, m, p, left, d
      <3>1. t.s.mapped = q /\ t.s.next = n + 1 + p
        BY <1>2
      <3>2. q + 1 + Part(left, 1, Span(d)) <= t.s.next
        BY <1>1, <1>5, <2>1, <3>1 DEF m
      <3> QED  BY <1>1, <1>5, <2>1, <3>1, <3>2 DEF Begins
    <2>3. Maps(d, t.s, left, q + 1, c)
      <3> HIDE DEF q, left, d
      <3> QED  BY <1>0, <1>2, <2>2, NodesMap DEF MapsWell, c
    <2>4. /\ IsState(c) /\ c.mapped = t.s.mapped + m /\ c.next = t.s.next + pm
          /\ c.ret = IF d = 0 THEN q + 1 ELSE t.s.next
          /\ DOMAIN c.disk = DOMAIN t.s.disk \cup (q + 1 .. q + 1 + m - 1) \cup (t.s.next .. t.s.next + pm - 1)
          /\ \A x \in DOMAIN t.s.disk :
                x \notin q + 1 .. q + 1 + m - 1 /\ x \notin t.s.next .. t.s.next + pm - 1 => c.disk[x] = t.s.disk[x]
          /\ \A x \in q + 1 .. q + 1 + m - 1 : c.disk[x] = <<x - 1>>
          /\ FirstLeads(c.disk, t.s.next, d, q + 1)
          /\ d = 1 => c.disk[t.s.next] = [k \in 1 .. m |-> q + 1 + k - 1]
      <3> HIDE DEF q, left, d, c
      <3> QED  BY <2>3 DEF Maps
    <2>5. /\ t.s.mapped = q /\ t.s.next = n + 1 + p /\ IsState(t.s)
      BY <1>2
    <2>6. u.s = c /\ u.block = Append(t.block, c.ret)
      <3> HIDE DEF u, q, c, e
      <3> QED  BY <1>0, <1>5, <1>6, <2>1
    <2>7. pm \in Nat
      <3> HIDE DEF m, d
      <3> QED  BY <1>0, <2>1, PointersOfTree
    <2> HIDE DEF q, m, p, q1, p1, pm, left, d, c, u
    <2>8. q + 1 + m - 1 = q + m
      BY <2>1
    <2>9. c.mapped = q1 /\ c.next = n + 1 + p1
      BY <1>1, <1>5, <2>4, <2>5, <2>7, <2>1
    <2>10. DOMAIN c.disk = (1 .. q1) \cup (n + 1 .. n + p1)
      <3>1. 1 .. q1 = (1 .. q) \cup (q + 1 .. q + m)
        BY <1>1, <2>1
      <3>2. n + 1 .. n + p1 = (n + 1 .. n + p) \cup (n + 1 + p .. n + 1 + p + pm - 1)
        BY <1>1, <1>5, <2>7
      <3>3. DOMAIN t.s.disk = (1 .. q) \cup (n + 1 .. n + p)
        BY <1>2
      <3> QED  BY <2>4, <2>5, <2>8, <3>1, <3>2, <3>3
    <2>11. \A x \in DOMAIN t.s.disk : c.disk[x] = t.s.disk[x] /\ x \in DOMAIN c.disk
      BY <1>7, <2>4, <2>5, <2>8
    <2>12. \A x \in 1 .. q1 : c.disk[x] = <<x - 1>>
      <3> SUFFICES ASSUME NEW x \in 1 .. q1 PROVE c.disk[x] = <<x - 1>>
        OBVIOUS
      <3>1. x \in 1 .. q \/ x \in q + 1 .. q + m
        BY <1>1, <2>1
      <3>2. CASE x \in 1 .. q
        BY <1>2, <2>11, <3>2
      <3>3. CASE x \in q + 1 .. q + m
        BY <2>4, <2>8, <3>3
      <3> QED  BY <3>1, <3>2, <3>3
    <2>13. c.ret = Top(n, i) /\ c.ret \in Int
      <3>1. CASE d = 0
        <4>1. q = i - 1 /\ i <= NDIRECT
          <5>1. i <= NDIRECT /\ i - 1 <= NDIRECT
            BY <1>0, <3>1
          <5>2. e = i - 1
            BY <5>1 DEF Ends
          <5> QED  BY <2>1, <5>1, <5>2
        <4> QED  BY <1>0, <2>4, <3>1, <4>1 DEF Top
      <3>2. CASE d # 0
        BY <1>0, <1>1, <1>5, <2>4, <2>5, <3>2 DEF Top, p
      <3> QED  BY <3>1, <3>2
    <2>14. Len(t.block) = i - 1
      <3>1. CASE i = 1
        BY <1>2, <3>1
      <3>2. CASE i # 1
        <4>1. i - 1 \in 1 .. i
          BY <1>0, <3>2
        <4>2. Ends(i - 1 - 1) <= e /\ Ends(i - 1 - 1) \in Nat
          BY <1>4, <4>1
        <4>3. n > Ends(i - 1 - 1)
          <5> HIDE DEF e
          <5> QED  BY <1>0, <1>5, <2>1, <4>2
        <4> QED  BY <1>2, <4>3
      <3> QED  BY <3>1, <3>2
    <2>15. u.block \in Seq(Int) /\ Len(u.block) = i /\ u.block[i] = Top(n, i)
           /\ \A j \in 1 .. i - 1 : u.block[j] = t.block[j]
      <3>1. t.block \in Seq(Int)
        BY <1>2
      <3> QED  BY <1>0, <2>6, <2>13, <2>14, <3>1
    <2>16. ASSUME NEW j \in 1 .. i, n > Ends(j - 1)
           PROVE  /\ j <= Len(u.block) /\ u.block[j] = Top(n, j)
                  /\ FirstLeads(u.s.disk, Top(n, j), SlotDepth(j), Ends(j - 1) + 1)
      <3>1. CASE j = i
        <4>1. FirstLeads(c.disk, Top(n, i), d, Ends(i - 1) + 1)
          <5>1. CASE d = 0
            BY <5>1 DEF FirstLeads
          <5>2. CASE d # 0
            BY <2>1, <2>4, <2>13, <5>2
          <5> QED  BY <5>1, <5>2
        <4> QED  BY <1>0, <2>6, <2>15, <3>1, <4>1 DEF d
      <3>2. CASE j # i
        <4>1. j \in 1 .. i - 1
          BY <1>0, <3>2
        <4>2. /\ j <= Len(t.block) /\ t.block[j] = Top(n, j)
              /\ FirstLeads(t.s.disk, Top(n, j), SlotDepth(j), Ends(j - 1) + 1)
          BY <1>2, <2>16, <4>1
        <4>3. FirstLeads(c.disk, Top(n, j), SlotDepth(j), Ends(j - 1) + 1)
          BY <2>11, <4>2 DEF FirstLeads
        <4> QED  BY <1>0, <2>6, <2>15, <4>1, <4>2, <4>3
      <3> QED  BY <3>1, <3>2
    <2>17. i > NDIRECT /\ n > NDIRECT =>
              u.s.disk[n + 1] = [k \in 1 .. Part(n - NDIRECT, 1, Span(1)) |-> NDIRECT + k]
      <3>1. CASE i = NDIRECT + 1
        <4>1. d = 1 /\ p = 0 /\ q = NDIRECT
          BY <1>0, <1>1, <2>1, <3>1 DEF d, SlotDepth
        <4>2. m = Part(n - NDIRECT, 1, Span(1))
          BY <2>1, <4>1 DEF m
        <4>3. c.disk[n + 1] = [k \in 1 .. m |-> NDIRECT + 1 + k - 1]
          BY <1>5, <2>4, <2>5, <4>1
        <4>4. \A k \in 1 .. m : NDIRECT + 1 + k - 1 = NDIRECT + k
          BY <1>0
        <4>5. [k \in 1 .. m |-> NDIRECT + 1 + k - 1] = [k \in 1 .. m |-> NDIRECT + k]
          BY <4>4
        <4> QED  BY <2>6, <4>2, <4>3, <4>5
      <3>2. CASE i > NDIRECT + 1
        <4>1. PICK j \in 1 .. i - 1 : j = NDIRECT + 1
          BY <1>0, <3>2
        <4>2. n > Ends(j - 1)
          <5>1. Ends(j - 1) <= e /\ Ends(j - 1) \in Nat
            <6>1. j \in 1 .. i
              BY <1>0, <4>1
            <6> QED  BY <1>4, <6>1
          <5> HIDE DEF e
          <5> QED  BY <1>0, <1>5, <2>1, <5>1
        <4>3. FirstLeads(t.s.disk, Top(n, j), SlotDepth(j), Ends(j - 1) + 1)
          BY <1>2, <4>1, <4>2
        <4>4. SlotDepth(j) = 1 /\ Top(n, j) = n + 1
          BY <1>0, <1>5, <4>1 DEF SlotDepth, Top, Placed
        <4>5. n + 1 \in DOMAIN t.s.disk
          <5>1. 1 \in 1 .. 1 /\ n + 1 + 1 - 1 = n + 1
            BY <1>5
          <5> QED  BY <4>3, <4>4, <5>1 DEF FirstLeads
        <4>6. i - 1 > NDIRECT
          BY <1>0, <3>2
        <4> QED  BY <1>2, <2>6, <2>11, <4>5, <4>6
      <3> QED  BY <1>0, <3>1, <3>2
    <2> QED  BY <2>4, <2>6, <2>9, <2>10, <2>12, <2>15, <2>16, <2>17 DEF SlotsSoFar, q1, p1, u
  <1> QED  BY <1>1, <1>8, <1>9

\* A number lies between the blocks it needs and one less.
LEMMA CeilBounds ==
    ASSUME NEW a \in Nat \ {0}, NEW t \in Nat \ {0}
    PROVE  /\ DivCeil(a, t) \in Nat \ {0}
           /\ (DivCeil(a, t) - 1) * t < a /\ a <= DivCeil(a, t) * t
  <1> DEFINE b == a + t - 1
             c == b \div t
             r == b % t
  <1>1. c \in Int /\ r \in 0 .. t - 1 /\ b = c * t + r /\ b \in Nat
    OBVIOUS
  <1>2. c \in Nat \ {0}
    BY CeilOfRest DEF DivCeil
  <1>3. c * t \in Int /\ (c - 1) * t = c * t - t
    BY <1>1
  <1>4. c * t = a + t - 1 - r
    BY <1>1, <1>3
  <1> HIDE DEF c, r
  <1>5. (c - 1) * t < a /\ a <= c * t
    BY <1>1, <1>3, <1>4
  <1>6. DivCeil(a, t) = c
    BY DEF DivCeil, c
  <1> QED  BY <1>2, <1>5, <1>6

\* A node is at most as large as its slots have room for.
LEMMA BlocksOfSize ==
    ASSUME size \in 1 .. MaxSize
    PROVE  /\ Blocks \in Nat \ {0} /\ Blocks <= Ends(NDIRECT + 3) /\ BLOCK_SIZE \in Nat \ {0} /\ BLOCK_SIZE >= PTRS
           /\ size \in Nat \ {0} /\ (Blocks - 1) * BLOCK_SIZE < size /\ size <= Blocks * BLOCK_SIZE
  <1>1. BLOCK_SIZE \in Nat \ {0} /\ BLOCK_SIZE >= PTRS
    BY BlockMapAssumption DEF BLOCK_SIZE
  <1>2. size \in Nat \ {0} /\ MaxSize \in Nat \ {0} /\ size <= MaxSize
    BY NodeTreeAssumption
  <1> DEFINE t == BLOCK_SIZE
             n == DivCeil(size, t)
             l == DivCeil(MaxSize, t)
  <1>3. n \in Nat \ {0} /\ (n - 1) * t < size /\ size <= n * t
    BY <1>1, <1>2, CeilBounds
  <1>4. l \in Nat \ {0} /\ MaxSize <= l * t
    BY <1>1, <1>2, CeilBounds
  <1>5. l <= Ends(NDIRECT + 3)
    BY NodeTreeAssumption, SlotEnds
  <1>6. Blocks = n
    BY DEF Blocks
  <1> HIDE DEF t, n, l
  <1>7. n <= l
    <2> SUFFICES ASSUME n > l PROVE FALSE
      BY <1>3, <1>4
    <2>0. t \in Nat
      BY <1>1 DEF t
    <2>1. (n - 1 - l) * t >= 0 /\ (n - 1 - l) * t = (n - 1) * t - l * t
      BY <1>3, <1>4, <2>0
    <2>2. (n - 1) * t \in Int /\ l * t \in Int
      BY <1>3, <1>4, <2>0
    <2> QED  BY <1>2, <1>3, <1>4, <2>1, <2>2
  <1>8. Ends(NDIRECT + 3) \in Nat
    <2>1. NDIRECT + 3 \in 0 .. NDIRECT + 3
      BY BlockMapAssumption
    <2> QED  BY <2>1, SlotEnds
  <1>9. n <= Ends(NDIRECT + 3)
    BY <1>3, <1>4, <1>5, <1>7, <1>8
  <1> QED  BY <1>1, <1>2, <1>3, <1>6, <1>9 DEF t

\* The node as allocate_node_blocks leaves it.
Written ==
    LET n == Blocks
    IN  /\ DOMAIN disk = (1 .. n) \cup (n + 1 .. n + PointerBlocks(n))
        /\ \A x \in 1 .. n : disk[x] = <<x - 1>>
        /\ \A j \in 1 .. NDIRECT + 3 : n > Ends(j - 1) =>
              block[j] = Top(n, j) /\ FirstLeads(disk, Top(n, j), SlotDepth(j), Ends(j - 1) + 1)
        /\ n > NDIRECT =>
              disk[n + 1] = [k \in 1 .. Part(n - NDIRECT, 1, Span(1)) |-> NDIRECT + k]

\* The loop over the slots begins with an empty disk.
LEMMA NoSlotYet ==
    ASSUME disk = <<>>, Blocks \in Nat
    PROVE  SlotsSoFar(Blocks, 0, SlotStartState)
  <1>1. Held(Blocks, 0) = 0
    BY SlotEnds DEF Held
  <1>2. Placed(Blocks, 0) = 0
    BY BlockMapAssumption DEF Placed
  <1> DEFINE n == Blocks
             t == SlotStartState
  <1>3. t.s = [disk |-> disk, mapped |-> 0, next |-> n + 1, ret |-> 0] /\ t.block = <<>>
    BY DEF SlotStartState, PointersFrom
  <1> HIDE DEF t, n
  <1>4. t.s.mapped = 0 /\ t.s.next = n + 1 /\ IsState(t.s) /\ DOMAIN t.s.disk = {}
    BY <1>3 DEF IsState
  <1>5. 1 .. 0 = {} /\ n + 1 .. n + 0 = {} /\ n + 1 + 0 = n + 1 /\ ~(0 > NDIRECT)
    BY BlockMapAssumption DEF n
  <1>6. SlotsSoFar(n, 0, t)
    BY <1>1, <1>2, <1>3, <1>4, <1>5 DEF SlotsSoFar, n
  <1> QED  BY <1>6 DEF n, t

\* The loop over the slots ends with the whole node written.
LEMMA Allocates ==
    ASSUME size \in 1 .. MaxSize, disk = <<>>, AllocateNodeBlocks
    PROVE  Written'
  <1> DEFINE n == Blocks
             N == NDIRECT + 3
             Q == {i \in 0 .. N : SlotsSoFar(n, i, MapSlots[i])}
  <1>0. n \in Nat \ {0} /\ n <= Ends(N) /\ N \in Nat /\ NDIRECT \in Nat \ {0}
    BY BlocksOfSize, BlockMapAssumption
  <1>1. 0 \in Q
    BY <1>0, NoSlotYet, SlotTurns
  <1>2. ASSUME NEW i \in 1 .. N, i - 1 \in Q PROVE i \in Q
    <2>1. SlotsSoFar(n, i - 1, MapSlots[i - 1]) /\ MapSlots[i] = SlotTurn(MapSlots[i - 1], i)
      BY <1>2, SlotTurns
    <2>2. SlotsSoFar(n, i, MapSlots[i])
      BY <1>0, <2>1, NextSlotMaps
    <2> QED  BY <2>2
  <1>3. N \in Q
    <2> HIDE DEF Q, N
    <2> QED  BY <1>0, <1>1, <1>2, Upward
  <1> DEFINE t == MapSlots[N]
  <1>4. SlotsSoFar(n, N, t)
    BY <1>3
  <1>5. Held(n, N) = n /\ Placed(n, N) = PointerBlocks(n)
    <2>1. Held(n, N) = n
      BY <1>0 DEF Held
    <2>2. N - NDIRECT = 3 /\ ~(N <= NDIRECT)
      BY <1>0
    <2>3. Placed(n, N) = PointersBefore(n, 3) + SlotPointers(n, 3)
      BY <2>2 DEF Placed
    <2> QED  BY <2>1, <2>3 DEF PointersBefore, PointerBlocks
  <1>6. disk' = t.s.disk /\ block' = t.block /\ size' = size /\ Blocks' = n
    BY DEF AllocateNodeBlocks, Blocks
  <1> HIDE DEF t
  <1>7. N > NDIRECT
    BY <1>0
  <1>8. /\ DOMAIN t.s.disk = (1 .. n) \cup (n + 1 .. n + PointerBlocks(n))
        /\ \A x \in 1 .. n : t.s.disk[x] = <<x - 1>>
        /\ \A j \in 1 .. N : n > Ends(j - 1) =>
              t.block[j] = Top(n, j) /\ FirstLeads(t.s.disk, Top(n, j), SlotDepth(j), Ends(j - 1) + 1)
        /\ n > NDIRECT =>
              t.s.disk[n + 1] = [k \in 1 .. Part(n - NDIRECT, 1, Span(1)) |-> NDIRECT + k]
    <2> HIDE DEF n, N
    <2> QED  BY <1>4, <1>5, <1>7 DEF SlotsSoFar
  <1> QED  BY <1>6, <1>8 DEF Written

\* The pointer blocks of the trees before, counted by slot or by depth.
LEMMA PlacedBefore ==
    ASSUME NEW n \in Nat, NEW d \in Depth
    PROVE  /\ Placed(n, NDIRECT + d - 1) = PointersBefore(n, d) /\ SlotDepth(NDIRECT + d) = d
           /\ Top(n, NDIRECT + d) = n + PointersBefore(n, d) + 1
           /\ NDIRECT + d \in 1 .. NDIRECT + 3 /\ Ends(NDIRECT + d - 1) = SlotStart(d)
           /\ SlotStart(d) \in Nat /\ (SlotBlocks(n, d) > 0 <=> n > SlotStart(d))
           /\ PointersBefore(n, d) \in Nat
  <1>0. NDIRECT \in Nat \ {0} /\ (d = 1 \/ d = 2 \/ d = 3)
    BY BlockMapAssumption DEF Depth
  <1>1. SlotPointers(n, 1) \in Nat /\ SlotPointers(n, 2) \in Nat
    <2>1. 1 \in Depth /\ 2 \in Depth
      BY DEF Depth
    <2> QED  BY <2>1, SlotPointersAre
  <1>2. Placed(n, NDIRECT + d - 1) = PointersBefore(n, d) /\ PointersBefore(n, d) \in Nat
    <2>1. CASE d = 1
      BY <1>0, <2>1 DEF Placed, PointersBefore
    <2>2. CASE d = 2
      BY <1>0, <1>1, <2>2 DEF Placed, PointersBefore
    <2>3. CASE d = 3
      BY <1>0, <1>1, <2>3 DEF Placed, PointersBefore
    <2> QED  BY <1>0, <2>1, <2>2, <2>3
  <1>3. SlotDepth(NDIRECT + d) = d /\ NDIRECT + d \in 1 .. NDIRECT + 3
    BY <1>0 DEF SlotDepth
  <1>4. Top(n, NDIRECT + d) = n + PointersBefore(n, d) + 1
    <2>1. ~(NDIRECT + d <= NDIRECT)
      BY <1>0
    <2> QED  BY <1>0, <1>2, <2>1 DEF Top
  <1>5. Ends(NDIRECT + d - 1) = SlotStart(d)
    BY SlotEnds
  <1>6. SlotStart(d) \in Nat
    <2>1. NDIRECT + d - 1 \in 0 .. NDIRECT + 3
      BY <1>0
    <2> QED  BY <1>5, <2>1, SlotEnds
  <1>7. SlotBlocks(n, d) > 0 <=> n > SlotStart(d)
    <2>1. Span(d) \in Nat \ {0}
      <3>1. d \in 0 .. 3
        BY <1>0
      <3> QED  BY <3>1, Spans
    <2> QED  BY <1>6, <2>1 DEF SlotBlocks
  <1> QED  BY <1>2, <1>3, <1>4, <1>5, <1>6, <1>7

\* What is written is the tree that BlockMap counts.
LEMMA WrittenHasItsBlocks ==
    ASSUME Blocks \in Nat, Written
    PROVE  /\ DOMAIN disk = 1 .. Blocks + PointerBlocks(Blocks)
           /\ \A d \in Depth : SlotBlocks(Blocks, d) > 0 =>
                 block[NDIRECT + d] = Blocks + PointersBefore(Blocks, d) + 1
  <1> DEFINE n == Blocks
  <1>1. PointerBlocks(n) \in Nat
    <2>1. 1 \in Depth /\ 2 \in Depth /\ 3 \in Depth
      BY DEF Depth
    <2>2. SlotPointers(n, 1) \in Nat /\ SlotPointers(n, 2) \in Nat /\ SlotPointers(n, 3) \in Nat
      BY <2>1, SlotPointersAre
    <2> QED  BY <2>2 DEF PointerBlocks
  <1>2. DOMAIN disk = 1 .. n + PointerBlocks(n)
    <2>1. DOMAIN disk = (1 .. n) \cup (n + 1 .. n + PointerBlocks(n))
      BY DEF Written
    <2> DEFINE p == PointerBlocks(n)
    <2> HIDE DEF n, p
    <2>2. n \in Nat
      BY DEF n
    <2>3. (1 .. n) \cup (n + 1 .. n + p) = 1 .. n + p
      BY <1>1, <2>2 DEF p
    <2> QED  BY <2>1, <2>3 DEF p
  <1>3. ASSUME NEW d \in Depth, SlotBlocks(n, d) > 0
        PROVE  block[NDIRECT + d] = n + PointersBefore(n, d) + 1
    <2>1. /\ NDIRECT + d \in 1 .. NDIRECT + 3 /\ n > Ends(NDIRECT + d - 1)
          /\ Top(n, NDIRECT + d) = n + PointersBefore(n, d) + 1
      BY <1>3, PlacedBefore
    <2> DEFINE j == NDIRECT + d
    <2>2. block[j] = Top(n, j)
      <3> HIDE DEF j
      <3>1. j \in 1 .. NDIRECT + 3 /\ n > Ends(j - 1)
        BY <2>1, BlockMapAssumption DEF j, Depth
      <3> QED  BY <3>1 DEF Written
    <2> QED  BY <2>1, <2>2
  <1> QED  BY <1>2, <1>3

-----------------------------------------------------------------------------
(* load_inode_blocks.                                                       *)

\* The k-th piece of the buffer and its bytes, counted from 1.
Piece(k) == << <<k - 1>>, IF k < Blocks THEN BLOCK_SIZE ELSE size - (Blocks - 1) * BLOCK_SIZE >>

\* A loop that began at piece a and has read up to piece q.
Got(a, q) == [left |-> Blocks - q, bytes |-> size - q * BLOCK_SIZE, got |-> [k \in 1 .. q - a |-> Piece(a + k)]]

\* A sequence of pieces and the pieces after it are the pieces up to the last.
LEMMA PiecesConcat ==
    ASSUME NEW a \in Nat, NEW b \in Nat, NEW c \in Nat, a <= b, b <= c
    PROVE  [k \in 1 .. b - a |-> Piece(a + k)] \o [k \in 1 .. c - b |-> Piece(b + k)]
              = [k \in 1 .. c - a |-> Piece(a + k)]
  <1> DEFINE S == {Piece(k) : k \in Nat}
             f == [k \in 1 .. b - a |-> Piece(a + k)]
             g == [k \in 1 .. c - b |-> Piece(b + k)]
             h == [k \in 1 .. c - a |-> Piece(a + k)]
  <1>1. b - a \in Nat /\ c - b \in Nat /\ c - a \in Nat /\ (b - a) + (c - b) = c - a
    OBVIOUS
  <1>2. \A k \in Nat : Piece(k) \in S
    OBVIOUS
  <1> HIDE DEF S
  <1>3. f \in Seq(S) /\ Len(f) = b - a
    BY <1>1, <1>2
  <1>4. g \in Seq(S) /\ Len(g) = c - b
    BY <1>1, <1>2
  <1>5. h \in Seq(S) /\ Len(h) = c - a
    BY <1>1, <1>2
  <1>6. \A k \in 1 .. b - a : f[k] = Piece(a + k)
    OBVIOUS
  <1>7. \A k \in 1 .. c - b : g[k] = Piece(b + k)
    OBVIOUS
  <1>8. \A k \in 1 .. c - a : h[k] = Piece(a + k)
    OBVIOUS
  <1> HIDE DEF f, g, h
  <1>9. f \o g \in Seq(S) /\ Len(f \o g) = c - a
    BY <1>1, <1>3, <1>4
  <1>10. ASSUME NEW k \in 1 .. c - a PROVE (f \o g)[k] = h[k]
    <2>1. CASE k <= b - a
      <3>1. (f \o g)[k] = f[k]
        BY <1>1, <1>3, <1>4, <2>1
      <3> QED  BY <1>6, <1>8, <2>1, <3>1
    <2>2. CASE k > b - a
      <3>1. (f \o g)[k] = g[k - (b - a)]
        <4>1. k \in 1 .. Len(f) + Len(g) /\ ~(k <= Len(f)) /\ Len(f) \in Nat
          BY <1>1, <1>3, <1>4, <2>2
        <4>2. (f \o g)[k] = g[k - Len(f)]
          BY <1>3, <1>4, <4>1, ConcatProperties
        <4> QED  BY <1>3, <4>2
      <3>2. k - (b - a) \in 1 .. c - b /\ b + (k - (b - a)) = a + k
        BY <2>2
      <3> QED  BY <1>7, <1>8, <3>1, <3>2
    <2>3. k <= b - a \/ k > b - a
      BY <1>1
    <2> QED  BY <2>1, <2>2, <2>3
  <1>11. f \o g = h
    BY <1>5, <1>9, <1>10
  <1> QED  BY <1>11 DEF f, g, h

\* A data block is the next piece, with the bytes that are left of it.
LEMMA NextPiece ==
    ASSUME size \in 1 .. MaxSize, NEW a \in Nat, NEW q \in Nat, a <= q, q < Blocks, NEW b, Read(b) = <<q>>
    PROVE  Loaded(Got(a, q), LoadData(b, Blocks - q, size - q * BLOCK_SIZE)) = Got(a, q + 1)
  <1> DEFINE n == Blocks
             t == BLOCK_SIZE
             bytes == size - q * t
  <1>1. /\ n \in Nat \ {0} /\ t \in Nat \ {0} /\ size \in Nat \ {0}
        /\ (n - 1) * t < size /\ size <= n * t /\ q < n
    BY BlocksOfSize
  <1>2. LoadData(b, n - q, bytes) = << <<<<q>>, IF bytes >= t THEN t ELSE bytes>> >>
    BY DEF LoadData
  <1>3. (IF bytes >= t THEN t ELSE bytes) = IF q + 1 < n THEN t ELSE size - (n - 1) * t
    <2> HIDE DEF n, t
    <2>1. CASE q + 1 < n
      <3>1. (n - 1 - (q + 1)) * t >= 0
        BY <1>1, <2>1
      <3>2. (n - 1 - (q + 1)) * t = (n - 1) * t - q * t - t
        BY <1>1
      <3>3. (n - 1) * t \in Int /\ q * t \in Int
        BY <1>1
      <3>4. bytes >= t
        BY <1>1, <3>1, <3>2, <3>3
      <3> QED  BY <2>1, <3>4
    <2>2. CASE ~(q + 1 < n)
      <3>1. q = n - 1
        BY <1>1, <2>2
      <3>2. n * t = (n - 1) * t + t /\ (n - 1) * t \in Int
        BY <1>1
      <3>3. bytes = size - (n - 1) * t
        BY <3>1
      <3> HIDE DEF bytes
      <3>4. bytes <= t /\ bytes \in Int
        BY <1>1, <3>2, <3>3
      <3> QED  BY <1>1, <2>2, <3>3, <3>4
    <2> QED  BY <2>1, <2>2
  <1>4. Piece(q + 1) = << <<q>>, IF q + 1 < n THEN t ELSE size - (n - 1) * t >>
    <2>1. q + 1 - 1 = q
      OBVIOUS
    <2> QED  BY <2>1 DEF Piece
  <1>5. LoadData(b, n - q, bytes) = <<Piece(q + 1)>>
    BY <1>2, <1>3, <1>4
  <1>6. <<Piece(q + 1)>> = [k \in 1 .. (q + 1) - q |-> Piece(q + k)]
    <2>1. (q + 1) - q = 1
      OBVIOUS
    <2>2. DOMAIN <<Piece(q + 1)>> = 1 .. 1
      OBVIOUS
    <2>3. <<Piece(q + 1)>> = [k \in 1 .. 1 |-> Piece(q + k)]
      OBVIOUS
    <2> QED  BY <2>1, <2>3
  <1>7. [k \in 1 .. q - a |-> Piece(a + k)] \o <<Piece(q + 1)>> = [k \in 1 .. (q + 1) - a |-> Piece(a + k)]
    <2>1. a <= q /\ q <= q + 1 /\ q + 1 \in Nat
      OBVIOUS
    <2> QED  BY <1>6, <2>1, PiecesConcat
  <1>8. n - q - 1 = n - (q + 1) /\ bytes - 1 * t = size - (q + 1) * t
    <2> HIDE DEF n, t
    <2>1. (q + 1) * t = q * t + t /\ q * t \in Int
      BY <1>1
    <2> QED  BY <1>1, <2>1
  <1>9. Len(<<Piece(q + 1)>>) = 1
    OBVIOUS
  <1> HIDE DEF n, t, bytes
  <1>10. Loaded(Got(a, q), <<Piece(q + 1)>>)
            = [left |-> n - q - 1, bytes |-> bytes - 1 * t,
               got |-> [k \in 1 .. q - a |-> Piece(a + k)] \o <<Piece(q + 1)>>]
    BY <1>9 DEF Loaded, Got, n, t, bytes
  <1> QED  BY <1>5, <1>7, <1>8, <1>10 DEF Got, n, t, bytes

\* A turn of the loop over the pointers of block b, and where a loop begins.
LevelTurn(t, b, i) == IF t.left = 0 THEN t ELSE Loaded(t, LoadData(Pointer(b, i), t.left, t.bytes))
LevelStart(blocks, bytes) == [left |-> blocks, bytes |-> bytes, got |-> <<>>]

\* The turns of the loop over a pointer block are what it is written as.
LEMMA LevelTurns ==
    ASSUME NEW b, NEW blocks, NEW bytes, BLOCK_SIZE \in Nat
    PROVE  \E turn : /\ turn[0] = LevelStart(blocks, bytes)
                     /\ \A i \in 1 .. BLOCK_SIZE : turn[i] = LevelTurn(turn[i - 1], b, i)
                     /\ LoadLevel1(b, blocks, bytes) = turn[BLOCK_SIZE].got
  <1> DEFINE N == BLOCK_SIZE
             start == LevelStart(blocks, bytes)
             Turn(t, i) == LevelTurn(t, b, i)
             Upto(k, g) == g = [i \in 0 .. k |-> IF i = 0 THEN start ELSE Turn(g[i - 1], i)]
             Q == {k \in Nat : \E g : Upto(k, g)}
             turn == CHOOSE g : Upto(N, g)
  <1>1. LoadLevel1(b, blocks, bytes) = turn[N].got
    BY DEF LoadLevel1, LoadLevel, LevelTurn, LevelStart
  <1>0. N \in Nat
    OBVIOUS
  <1> HIDE DEF Turn, start, N
  <1>2. 0 \in Q
    <2>1. Upto(0, [i \in 0 .. 0 |-> start])
      OBVIOUS
    <2> QED  BY <2>1
  <1>3. ASSUME NEW k \in 1 .. N, k - 1 \in Q PROVE k \in Q
    <2>1. PICK g : Upto(k - 1, g)
      BY <1>3
    <2> DEFINE h == [i \in 0 .. k |-> IF i < k THEN g[i] ELSE Turn(g[k - 1], k)]
    <2>2. ASSUME NEW i \in 0 .. k PROVE h[i] = IF i = 0 THEN start ELSE Turn(h[i - 1], i)
      BY <2>1
    <2>3. h = [i \in 0 .. k |-> h[i]]
      OBVIOUS
    <2> HIDE DEF h
    <2>4. Upto(k, h)
      BY <2>2, <2>3
    <2> QED  BY <2>4
  <1>4. N \in Q
    <2> HIDE DEF Q
    <2> QED  BY <1>0, <1>2, <1>3, Upward
  <1>5. Upto(N, turn)
    <2> HIDE DEF Upto
    <2> QED  BY <1>4
  <1> HIDE DEF turn
  <1>6. turn[0] = start /\ \A i \in 1 .. N : turn[i] = Turn(turn[i - 1], i)
    BY <1>0, <1>5
  <1> QED  BY <1>1, <1>6 DEF start, Turn, N

\* A turn of the loop over the slots of load_inode_blocks.
LoadSlotTurn(t, i) ==
    IF t.left <= 0 THEN t ELSE Loaded(t, LoadRec(block[i], t.left, t.bytes, SlotDepth(i)))

\* So are the turns over the slots.
LEMMA LoadSlotTurns ==
    /\ LoadSlots[0] = LevelStart(Blocks, size)
    /\ \A i \in 1 .. NDIRECT + 3 : LoadSlots[i] = LoadSlotTurn(LoadSlots[i - 1], i)
  <1> DEFINE N == NDIRECT + 3
             start == LevelStart(Blocks, size)
             Turn(t, i) == LoadSlotTurn(t, i)
             Upto(k, g) == g = [i \in 0 .. k |-> IF i = 0 THEN start ELSE Turn(g[i - 1], i)]
             Q == {k \in Nat : \E g : Upto(k, g)}
             after == CHOOSE g : Upto(N, g)
  <1>0. N \in Nat
    BY BlockMapAssumption
  <1>1. LoadSlots = after
    BY DEF LoadSlots, LoadSlotTurn, LevelStart
  <1> HIDE DEF Turn, start, N
  <1>2. 0 \in Q
    <2>1. Upto(0, [i \in 0 .. 0 |-> start])
      OBVIOUS
    <2> QED  BY <2>1
  <1>3. ASSUME NEW k \in 1 .. N, k - 1 \in Q PROVE k \in Q
    <2>1. PICK g : Upto(k - 1, g)
      BY <1>3
    <2> DEFINE h == [i \in 0 .. k |-> IF i < k THEN g[i] ELSE Turn(g[k - 1], k)]
    <2>2. ASSUME NEW i \in 0 .. k PROVE h[i] = IF i = 0 THEN start ELSE Turn(h[i - 1], i)
      BY <2>1
    <2>3. h = [i \in 0 .. k |-> h[i]]
      OBVIOUS
    <2> HIDE DEF h
    <2>4. Upto(k, h)
      BY <2>2, <2>3
    <2> QED  BY <2>4
  <1>4. N \in Q
    <2> HIDE DEF Q
    <2> QED  BY <1>0, <1>2, <1>3, Upward
  <1>5. Upto(N, after)
    <2> HIDE DEF Upto
    <2> QED  BY <1>4
  <1> HIDE DEF after
  <1>6. after[0] = start /\ \A i \in 1 .. N : after[i] = Turn(after[i - 1], i)
    BY <1>0, <1>5
  <1> QED  BY <1>1, <1>6 DEF start, Turn, N

\* The tree of the first pointer block is read to its last piece, and no further.
LEMMA LevelLoads ==
    ASSUME size \in 1 .. MaxSize, Written, Blocks > NDIRECT, Blocks <= NDIRECT + PTRS
    PROVE  LoadLevel1(Blocks + 1, Blocks - NDIRECT, size - NDIRECT * BLOCK_SIZE)
              = [k \in 1 .. Blocks - NDIRECT |-> Piece(NDIRECT + k)]
  <1> DEFINE n == Blocks
             c == n - NDIRECT
             b == n + 1
             Upto(i) == NDIRECT + (IF i <= c THEN i ELSE c)
             N == BLOCK_SIZE
  <1>0. /\ NDIRECT \in Nat \ {0} /\ PTRS \in Nat \ {0} /\ n \in Nat \ {0} /\ n > NDIRECT /\ n <= NDIRECT + PTRS
        /\ c \in Nat \ {0} /\ c <= PTRS /\ c <= N /\ N \in Nat \ {0}
    BY BlocksOfSize, BlockMapAssumption
  <1>1. DOMAIN disk = (1 .. n) \cup (n + 1 .. n + PointerBlocks(n)) /\ \A x \in 1 .. n : disk[x] = <<x - 1>>
    BY DEF Written
  <1>2. b \in DOMAIN disk /\ disk[b] = [k \in 1 .. c |-> NDIRECT + k]
    <2>1. Part(c, 1, Span(1)) = c
      <3>1. Span(1) = PTRS /\ 1 * PTRS = PTRS
        BY <1>0 DEF Span
      <3> QED  BY <1>0, <3>1 DEF Part
    <2>2. disk[b] = [k \in 1 .. c |-> NDIRECT + k]
      BY <1>0, <2>1 DEF Written
    <2>3. 1 \in Depth
      BY DEF Depth
    <2>4. /\ Top(n, NDIRECT + 1) = n + 1 /\ SlotDepth(NDIRECT + 1) = 1
          /\ NDIRECT + 1 \in 1 .. NDIRECT + 3 /\ Ends(NDIRECT + 1 - 1) = NDIRECT
      BY <1>0 DEF Top, Placed, SlotDepth, Ends
    <2>5. FirstLeads(disk, Top(n, NDIRECT + 1), 1, NDIRECT + 1)
      <3> DEFINE j == NDIRECT + 1
      <3>1. j \in 1 .. NDIRECT + 3 /\ n > Ends(j - 1) /\ SlotDepth(j) = 1 /\ Ends(j - 1) + 1 = NDIRECT + 1
        BY <1>0, <2>4
      <3>2. FirstLeads(disk, Top(n, j), SlotDepth(j), Ends(j - 1) + 1)
        <4> HIDE DEF j
        <4> QED  BY <3>1 DEF Written
      <3> QED  BY <3>1, <3>2
    <2>6. b \in DOMAIN disk
      <3>1. 1 \in 1 .. 1 /\ n + 1 + 1 - 1 = b
        BY <1>0
      <3> QED  BY <2>4, <2>5, <3>1 DEF FirstLeads
    <2> QED  BY <2>2, <2>6
  <1>3. ASSUME NEW i \in 1 .. c PROVE Read(Pointer(b, i)) = <<NDIRECT + i - 1>>
    <2>1. Read(b) = [k \in 1 .. c |-> NDIRECT + k]
      BY <1>2 DEF Read
    <2>2. Len(Read(b)) = c /\ Read(b)[i] = NDIRECT + i
      BY <1>0, <2>1
    <2>3. Pointer(b, i) = NDIRECT + i
      BY <2>2, <1>0 DEF Pointer
    <2>4. NDIRECT + i \in 1 .. n
      BY <1>0
    <2>5. Read(NDIRECT + i) = disk[NDIRECT + i]
      BY <1>1, <2>4 DEF Read
    <2>6. disk[NDIRECT + i] = <<NDIRECT + i - 1>>
      <3> DEFINE x == NDIRECT + i
      <3>1. x \in 1 .. n
        BY <2>4
      <3>2. \A y \in 1 .. n : disk[y] = <<y - 1>>
        BY <1>1
      <3> HIDE DEF x, n
      <3>3. disk[x] = <<x - 1>>
        BY <3>1, <3>2, Zenon
      <3>4. x - 1 = NDIRECT + i - 1
        BY <1>0 DEF x
      <3> QED  BY <3>3, <3>4 DEF x
    <2> QED  BY <2>3, <2>5, <2>6
  <1>4. PICK turn : /\ turn[0] = LevelStart(c, size - NDIRECT * N)
                    /\ \A i \in 1 .. N : turn[i] = LevelTurn(turn[i - 1], b, i)
                    /\ LoadLevel1(b, c, size - NDIRECT * N) = turn[N].got
    BY <1>0, LevelTurns
  <1> DEFINE Q == {i \in 0 .. N : turn[i] = Got(NDIRECT, Upto(i))}
  <1>5. 0 \in Q
    <2>1. Upto(0) = NDIRECT
      BY <1>0
    <2>2. NDIRECT - NDIRECT = 0 /\ [k \in 1 .. 0 |-> Piece(NDIRECT + k)] = <<>>
      BY <1>0
    <2>3. Got(NDIRECT, NDIRECT) = LevelStart(c, size - NDIRECT * N)
      BY <2>2 DEF Got, LevelStart
    <2> QED  BY <1>0, <1>4, <2>1, <2>3
  <1>6. ASSUME NEW i \in 1 .. N, i - 1 \in Q PROVE i \in Q
    <2> DEFINE q == Upto(i - 1)
               t == Got(NDIRECT, q)
    <2>1. turn[i] = LevelTurn(t, b, i)
      BY <1>4, <1>6
    <2>2. t.left = n - q /\ t.bytes = size - q * N
      BY DEF Got
    <2>3. CASE i <= c
      <3>1. q = NDIRECT + i - 1 /\ Upto(i) = q + 1 /\ q \in Nat /\ NDIRECT <= q /\ q < n
        BY <1>0, <2>3
      <3>2. Read(Pointer(b, i)) = <<q>>
        BY <1>3, <2>3, <3>1
      <3> HIDE DEF q, Upto
      <3>3. t.left # 0
        BY <1>0, <2>2, <3>1
      <3>4. turn[i] = Loaded(t, LoadData(Pointer(b, i), n - q, size - q * N))
        BY <2>1, <2>2, <3>3 DEF LevelTurn
      <3>5. turn[i] = Got(NDIRECT, q + 1)
        BY <1>0, <3>1, <3>2, <3>4, NextPiece
      <3> QED  BY <3>1, <3>5
    <2>4. CASE i > c
      <3>1. q = n /\ Upto(i) = n
        BY <1>0, <2>4
      <3> HIDE DEF q, Upto
      <3>2. t.left = 0
        BY <1>0, <2>2, <3>1
      <3> QED  BY <2>1, <3>1, <3>2 DEF LevelTurn
    <2>5. i <= c \/ i > c
      BY <1>0
    <2> QED  BY <2>3, <2>4, <2>5
  <1>7. N \in Q
    <2> HIDE DEF Q
    <2> QED  BY <1>0, <1>5, <1>6, Upward
  <1>8. turn[N] = Got(NDIRECT, n)
    <2>1. Upto(N) = n
      BY <1>0
    <2> QED  BY <1>7, <2>1
  <1> QED  BY <1>4, <1>8 DEF Got

\* load_inode_blocks leaves the pieces in the buffer, in order.
LEMMA ReadsBack ==
    ASSUME size \in 1 .. MaxSize, Written, Blocks <= NDIRECT + PTRS
    PROVE  LoadSlots[NDIRECT + 3].got = [k \in 1 .. Blocks |-> Piece(k)]
  <1> DEFINE n == Blocks
             N == NDIRECT + 3
             s == BLOCK_SIZE
             First(i) == i <= NDIRECT /\ LoadSlots[i] = Got(0, IF i <= n THEN i ELSE n)
             Whole(i) == /\ i > NDIRECT /\ LoadSlots[i].left = 0
                         /\ LoadSlots[i].got = [k \in 1 .. n |-> Piece(k)]
             Q == {i \in 0 .. N : First(i) \/ Whole(i)}
  <1>0. /\ NDIRECT \in Nat \ {0} /\ PTRS \in Nat \ {0} /\ n \in Nat \ {0} /\ n <= NDIRECT + PTRS /\ N \in Nat
        /\ s \in Nat \ {0} /\ size \in Nat
    BY BlocksOfSize, BlockMapAssumption
  <1>1. DOMAIN disk = (1 .. n) \cup (n + 1 .. n + PointerBlocks(n)) /\ \A x \in 1 .. n : disk[x] = <<x - 1>>
    BY DEF Written
  <1>2. \A j \in 1 .. N : n > Ends(j - 1) => block[j] = Top(n, j)
    BY DEF Written
  <1>3. 0 \in Q
    <2>1. size - 0 * s = size /\ n - 0 = n
      BY <1>0
    <2>2. 0 - 0 = 0 /\ [k \in 1 .. 0 |-> Piece(0 + k)] = <<>>
      OBVIOUS
    <2>3. Got(0, 0) = LevelStart(n, size)
      BY <2>1, <2>2 DEF Got, LevelStart
    <2>4. 0 <= n /\ 0 <= NDIRECT
      BY <1>0
    <2>5. First(0)
      BY <2>3, <2>4, LoadSlotTurns
    <2> QED  BY <1>0, <2>5
  <1>4. Got(0, n).left = 0 /\ Got(0, n).got = [k \in 1 .. n |-> Piece(k)]
    <2>1. n - n = 0 /\ n - 0 = n /\ \A k \in 1 .. n : 0 + k = k
      BY <1>0
    <2>2. [k \in 1 .. n |-> Piece(0 + k)] = [k \in 1 .. n |-> Piece(k)]
      BY <2>1
    <2> QED  BY <2>1, <2>2 DEF Got
  <1>5. ASSUME NEW i \in 1 .. N, i - 1 \in Q PROVE i \in Q
    <2> DEFINE t == LoadSlots[i - 1]
    <2>1. LoadSlots[i] = LoadSlotTurn(t, i)
      BY LoadSlotTurns
    <2>2. CASE i <= NDIRECT /\ i <= n
      <3> DEFINE q == i - 1
      <3>1. q \in Nat /\ q < n /\ q <= n /\ 0 <= q /\ q + 1 = i /\ 0 \in Nat /\ ~(i - 1 > NDIRECT)
        BY <1>0, <2>2
      <3>2. t = Got(0, q)
        BY <1>5, <3>1
      <3>3. t.left = n - q /\ t.bytes = size - q * s
        BY <3>2 DEF Got
      <3>4. SlotDepth(i) = 0 /\ Top(n, i) = i /\ Ends(i - 1) = i - 1
        BY <1>0, <2>2 DEF SlotDepth, Top, Ends
      <3>5. block[i] = i
        BY <1>0, <1>2, <2>2, <3>4
      <3>6. Read(i) = <<q>>
        BY <1>0, <1>1, <2>2 DEF Read
      <3> HIDE DEF t, q
      <3>7. ~(t.left <= 0)
        BY <1>0, <3>1, <3>3
      <3>8. LoadSlots[i] = Loaded(Got(0, q), LoadData(i, n - q, size - q * s))
        BY <2>1, <3>2, <3>3, <3>4, <3>5, <3>7 DEF LoadSlotTurn, LoadRec
      <3>9. LoadSlots[i] = Got(0, q + 1)
        BY <3>1, <3>6, <3>8, NextPiece
      <3> QED  BY <2>2, <3>1, <3>9
    <2>3. CASE i <= NDIRECT /\ i > n
      <3>1. t = Got(0, n)
        BY <1>0, <1>5, <2>3
      <3>2. t.left <= 0
        BY <1>4, <3>1
      <3> HIDE DEF t
      <3>3. LoadSlots[i] = Got(0, n)
        BY <2>1, <3>1, <3>2 DEF LoadSlotTurn
      <3> QED  BY <1>0, <2>3, <3>3
    <2>4. CASE i = NDIRECT + 1 /\ n <= NDIRECT
      <3>1. t = Got(0, n)
        <4>1. i - 1 = NDIRECT /\ ~(i - 1 > NDIRECT)
          BY <1>0, <2>4
        <4>2. (IF i - 1 <= n THEN i - 1 ELSE n) = n
          BY <1>0, <2>4
        <4> QED  BY <1>5, <4>1, <4>2
      <3>2. t.left <= 0
        BY <1>4, <3>1
      <3> HIDE DEF t
      <3>3. LoadSlots[i] = Got(0, n)
        BY <2>1, <3>1, <3>2 DEF LoadSlotTurn
      <3> QED  BY <1>0, <1>4, <2>4, <3>3
    <2>5. CASE i = NDIRECT + 1 /\ n > NDIRECT
      <3> DEFINE q == NDIRECT
                 r == [k \in 1 .. n - q |-> Piece(q + k)]
      <3>1. t = Got(0, q)
        <4>1. i - 1 = NDIRECT /\ ~(i - 1 > NDIRECT)
          BY <1>0, <2>5
        <4>2. (IF i - 1 <= n THEN i - 1 ELSE n) = q
          BY <1>0, <2>5
        <4> QED  BY <1>5, <4>1, <4>2
      <3>2. t.left = n - q /\ t.bytes = size - q * s /\ t.got = [k \in 1 .. q - 0 |-> Piece(0 + k)]
        BY <3>1 DEF Got
      <3>3. SlotDepth(i) = 1 /\ Top(n, i) = n + 1 /\ Ends(i - 1) = NDIRECT
        BY <1>0, <2>5 DEF SlotDepth, Top, Ends, Placed
      <3>4. block[i] = n + 1
        BY <1>0, <1>2, <2>5, <3>3
      <3>5. LoadLevel1(n + 1, n - q, size - q * s) = r
        BY <1>0, <2>5, LevelLoads
      <3>6. LoadRec(block[i], t.left, t.bytes, SlotDepth(i)) = r
        BY <3>2, <3>3, <3>4, <3>5 DEF LoadRec
      <3>7. Len(r) = n - q
        <4>1. n - q \in Nat
          BY <1>0, <2>5
        <4> QED  BY <4>1
      <3>8. t.got \o r = [k \in 1 .. n - 0 |-> Piece(0 + k)]
        <4>1. 0 <= q /\ q <= n /\ q \in Nat /\ n \in Nat /\ 0 \in Nat
          BY <1>0, <2>5
        <4> QED  BY <3>2, <4>1, PiecesConcat
      <3>9. ~(t.left <= 0)
        BY <1>0, <2>5, <3>2
      <3> HIDE DEF t, r
      <3>10. LoadSlots[i] = Loaded(t, r)
        BY <2>1, <3>6, <3>9 DEF LoadSlotTurn
      <3>11. LoadSlots[i].left = (n - q) - (n - q) /\ LoadSlots[i].got = [k \in 1 .. n - 0 |-> Piece(0 + k)]
        <4>1. LoadSlots[i].left = t.left - Len(r) /\ LoadSlots[i].got = t.got \o r
          BY <3>10 DEF Loaded
        <4> QED  BY <3>2, <3>7, <3>8, <4>1
      <3>12. (n - q) - (n - q) = 0
        BY <1>0
      <3>13. [k \in 1 .. n - 0 |-> Piece(0 + k)] = [k \in 1 .. n |-> Piece(k)]
        BY <1>4 DEF Got
      <3> QED  BY <1>0, <2>5, <3>11, <3>12, <3>13
    <2>6. CASE i > NDIRECT + 1
      <3>1. Whole(i - 1)
        BY <1>0, <1>5, <2>6
      <3>2. LoadSlots[i] = t
        BY <2>1, <3>1 DEF LoadSlotTurn
      <3> QED  BY <1>0, <2>6, <3>1, <3>2
    <2>7. \/ i <= NDIRECT /\ i <= n
          \/ i <= NDIRECT /\ i > n
          \/ i = NDIRECT + 1 /\ n <= NDIRECT
          \/ i = NDIRECT + 1 /\ n > NDIRECT
          \/ i > NDIRECT + 1
      BY <1>0
    <2> QED  BY <2>2, <2>3, <2>4, <2>5, <2>6, <2>7
  <1>6. N \in Q
    <2> HIDE DEF Q
    <2> QED  BY <1>0, <1>3, <1>5, Upward
  <1>7. Whole(N)
    BY <1>0, <1>6
  <1> QED  BY <1>7

-----------------------------------------------------------------------------
(* deallocate_block: how often each bit is cleared.                         *)

\* How often a visit to m blocks of a tree of depth d clears the bit of x: the
\* root's path runs root, root + 1, ... down to the data block at.
Times(x, m, d, root, at) ==
    IF x = at THEN m
    ELSE IF x \in root .. root + d - 1 THEN DivCeil(m, Span(root + d - x)) ELSE 0

\* What deallocate_block has done to the counts v when it comes back with r.
Frees(d, v, root, at, blocks, r) ==
    LET m == Part(blocks, 1, Span(d))
    IN  r = [visits |-> [x \in DOMAIN disk |-> v[x] + Times(x, m, d, root, at)], count |-> m]

\* Where it begins.
Starts(d, v, root, at, blocks) ==
    /\ v \in [DOMAIN disk -> Nat] /\ blocks \in Nat \ {0} /\ root \in Nat /\ at \in Nat /\ at < root
    /\ at \in DOMAIN disk /\ FirstLeads(disk, root, d, at)

\* deallocate_block clears the bit of its own block, then those below, turn by turn.
FreeStart(v, b) == [visits |-> Clear(v, b), count |-> 0]
FreeTurn(t, r, blocks) == IF t.count = blocks THEN t ELSE [visits |-> r.visits, count |-> t.count + r.count]
FreeTrace(d, turn, v, b, blocks) ==
    /\ turn[0] = FreeStart(v, b)
    /\ \A i \in 1 .. PTRS :
          turn[i] = FreeTurn(turn[i - 1],
                             DeallocateBlock(turn[i - 1].visits, Pointer(b, 1), blocks - turn[i - 1].count, d - 1),
                             blocks)

\* The turns of a level are what its loop is written as.
LEMMA FreeTurns ==
    ASSUME NEW d \in 1 .. 3, NEW v, NEW b, NEW blocks, blocks # 0
    PROVE  \E turn : /\ FreeTrace(d, turn, v, b, blocks)
                     /\ DeallocateBlock(v, b, blocks, d) = turn[PTRS]
  <1> DEFINE start == FreeStart(v, b)
             Turn(t, i) == FreeTurn(t, DeallocateBlock(t.visits, Pointer(b, 1), blocks - t.count, d - 1), blocks)
             Upto(k, g) == g = [i \in 0 .. k |-> IF i = 0 THEN start ELSE Turn(g[i - 1], i)]
             Q == {k \in Nat : \E g : Upto(k, g)}
  <1>1. \E g : Upto(PTRS, g)
    <2> HIDE DEF Turn, start
    <2>1. 0 \in Q
      <3>1. Upto(0, [i \in 0 .. 0 |-> start])
        OBVIOUS
      <3> QED  BY <3>1
    <2>2. ASSUME NEW k \in 1 .. PTRS, k - 1 \in Q PROVE k \in Q
      <3>1. PICK g : Upto(k - 1, g)
        BY <2>2
      <3> DEFINE h == [i \in 0 .. k |-> IF i < k THEN g[i] ELSE Turn(g[k - 1], k)]
      <3>2. ASSUME NEW i \in 0 .. k PROVE h[i] = IF i = 0 THEN start ELSE Turn(h[i - 1], i)
        BY <3>1
      <3>3. h = [i \in 0 .. k |-> h[i]]
        OBVIOUS
      <3> HIDE DEF h
      <3>4. Upto(k, h)
        BY <3>2, <3>3
      <3> QED  BY <3>4
    <2>3. PTRS \in Q
      <3> HIDE DEF Q
      <3> QED  BY <2>1, <2>2, Upward, BlockMapAssumption
    <2> QED  BY <2>3
  <1>2. ASSUME NEW g, Upto(PTRS, g) PROVE FreeTrace(d, g, v, b, blocks)
    <2> HIDE DEF Turn, start
    <2>1. g[0] = start /\ \A i \in 1 .. PTRS : g[i] = Turn(g[i - 1], i)
      BY <1>2, BlockMapAssumption
    <2> QED  BY <2>1 DEF FreeTrace, start, Turn
  <1>3. CASE d = 1
    <2> DEFINE Level(g) == [i \in 0 .. PTRS |->
                  IF i = 0 THEN start
                  ELSE FreeTurn(g[i - 1], DeallocateData(g[i - 1].visits, Pointer(b, 1), blocks - g[i - 1].count), blocks)]
               turn == CHOOSE g : g = Level(g)
    <2>1. ASSUME NEW g PROVE Upto(PTRS, g) <=> g = Level(g)
      BY <1>3 DEF DeallocateBlock
    <2>2. turn = Level(turn)
      <3> HIDE DEF Level, Upto
      <3> QED  BY <1>1, <2>1
    <2>3. Upto(PTRS, turn)
      <3> HIDE DEF Level, Upto, turn
      <3> QED  BY <2>1, <2>2
    <2>4. DeallocateLevel1(v, b, blocks) = turn[PTRS]
      BY DEF DeallocateLevel1, DeallocateLevel, FreeStart, FreeTurn
    <2> HIDE DEF turn, Upto
    <2> QED  BY <1>2, <1>3, <2>3, <2>4 DEF DeallocateBlock
  <1>4. CASE d = 2
    <2> DEFINE Level(g) == [i \in 0 .. PTRS |->
                  IF i = 0 THEN start
                  ELSE FreeTurn(g[i - 1], DeallocateLevel1(g[i - 1].visits, Pointer(b, 1), blocks - g[i - 1].count), blocks)]
               turn == CHOOSE g : g = Level(g)
    <2>1. ASSUME NEW g PROVE Upto(PTRS, g) <=> g = Level(g)
      BY <1>4 DEF DeallocateBlock
    <2>2. turn = Level(turn)
      <3> HIDE DEF Level, Upto
      <3> QED  BY <1>1, <2>1
    <2>3. Upto(PTRS, turn)
      <3> HIDE DEF Level, Upto, turn
      <3> QED  BY <2>1, <2>2
    <2>4. DeallocateLevel2(v, b, blocks) = turn[PTRS]
      BY DEF DeallocateLevel2, DeallocateLevel, FreeStart, FreeTurn
    <2> HIDE DEF turn, Upto
    <2> QED  BY <1>2, <1>4, <2>3, <2>4 DEF DeallocateBlock
  <1>5. CASE d = 3
    <2> DEFINE Level(g) == [i \in 0 .. PTRS |->
                  IF i = 0 THEN start
                  ELSE FreeTurn(g[i - 1], DeallocateLevel2(g[i - 1].visits, Pointer(b, 1), blocks - g[i - 1].count), blocks)]
               turn == CHOOSE g : g = Level(g)
    <2>1. ASSUME NEW g PROVE Upto(PTRS, g) <=> g = Level(g)
      BY <1>5 DEF DeallocateBlock
    <2>2. turn = Level(turn)
      <3> HIDE DEF Level, Upto
      <3> QED  BY <1>1, <2>1
    <2>3. Upto(PTRS, turn)
      <3> HIDE DEF Level, Upto, turn
      <3> QED  BY <2>1, <2>2
    <2>4. DeallocateLevel3(v, b, blocks) = turn[PTRS]
      BY DEF DeallocateLevel3, DeallocateLevel, FreeStart, FreeTurn
    <2> HIDE DEF turn, Upto
    <2> QED  BY <1>2, <1>5, <2>3, <2>4 DEF DeallocateBlock
  <1> QED  BY <1>3, <1>4, <1>5

\* deallocate_block frees right at depth d.
FreesWell(d) ==
    \A v, root, at, blocks : Starts(d, v, root, at, blocks) =>
        Frees(d, v, root, at, blocks, DeallocateBlock(v, IF d = 0 THEN at ELSE root, blocks, d))

\* A data block's bit is cleared once.
LEMMA DataFrees == FreesWell(0)
  <1> SUFFICES ASSUME NEW v, NEW root, NEW at, NEW blocks, Starts(0, v, root, at, blocks)
               PROVE  Frees(0, v, root, at, blocks, DeallocateBlock(v, at, blocks, 0))
    BY DEF FreesWell
  <1>1. Part(blocks, 1, Span(0)) = 1
    BY DEF Starts, Part, Span
  <1>2. DeallocateBlock(v, at, blocks, 0) = [visits |-> Clear(v, at), count |-> 1]
    BY DEF DeallocateBlock, DeallocateData, Starts
  <1>3. DOMAIN v = DOMAIN disk /\ DOMAIN disk \cup {at} = DOMAIN disk /\ at \in DOMAIN v
    BY DEF Starts
  <1>4. ASSUME NEW x \in DOMAIN disk
        PROVE  (IF x # at THEN v[x] ELSE IF at \in DOMAIN v THEN v[at] + 1 ELSE 1) = v[x] + Times(x, 1, 0, root, at)
    <2>1. v[x] \in Nat /\ ~(x \in root .. root + 0 - 1)
      BY DEF Starts
    <2> QED  BY <1>3, <2>1 DEF Times
  <1>5. Clear(v, at) = [x \in DOMAIN disk |-> v[x] + Times(x, 1, 0, root, at)]
    BY <1>3, <1>4 DEF Clear
  <1> QED  BY <1>1, <1>2, <1>5 DEF Frees

\* A block's child on the path, and the path below it.
LEMMA ChildStarts ==
    ASSUME NEW d \in 1 .. 3, NEW v, NEW root, NEW at, NEW blocks, Starts(d, v, root, at, blocks)
    PROVE  /\ root \in DOMAIN disk /\ FirstLeads(disk, root + 1, d - 1, at)
           /\ Pointer(root, 1) = IF d - 1 = 0 THEN at ELSE root + 1
           /\ at < root + 1 /\ root + 1 \in Nat /\ at # root
  <1>1. root \in Nat /\ at \in Nat /\ at < root /\ FirstLeads(disk, root, d, at)
    BY DEF Starts
  <1>2. /\ root \in DOMAIN disk /\ Len(disk[root]) >= 1
        /\ disk[root][1] = IF d = 1 THEN at ELSE root + 1
    <2>1. d \in 1 .. d /\ root + d - d = root /\ root + d - d + 1 = root + 1
      BY <1>1
    <2> QED  BY <1>1, <2>1 DEF FirstLeads
  <1>3. Pointer(root, 1) = IF d - 1 = 0 THEN at ELSE root + 1
    BY <1>2 DEF Pointer, Read
  <1>4. FirstLeads(disk, root + 1, d - 1, at)
    <2> SUFFICES ASSUME NEW k \in 1 .. d - 1
                 PROVE  /\ root + 1 + (d - 1) - k \in DOMAIN disk
                        /\ Len(disk[root + 1 + (d - 1) - k]) >= 1
                        /\ disk[root + 1 + (d - 1) - k][1] = IF k = 1 THEN at ELSE root + 1 + (d - 1) - k + 1
      BY DEF FirstLeads
    <2>1. k \in 1 .. d /\ root + 1 + (d - 1) - k = root + d - k
      BY <1>1
    <2>2. /\ root + d - k \in DOMAIN disk /\ Len(disk[root + d - k]) >= 1
          /\ disk[root + d - k][1] = IF k = 1 THEN at ELSE root + d - k + 1
      BY <1>1, <2>1 DEF FirstLeads
    <2> QED  BY <2>1, <2>2
  <1> QED  BY <1>1, <1>2, <1>3, <1>4

\* The clearings of a path add up over the turns.
LEMMA TimesOfNextPart ==
    ASSUME NEW blocks \in Nat, NEW i \in Nat \ {0}, NEW j \in 0 .. 3, NEW root \in Nat, NEW at, NEW x
    PROVE  LET q == Part(blocks, i - 1, Span(j))
               m == Part(blocks - q, 1, Span(j))
           IN  /\ Times(x, Part(blocks, i, Span(j)), j, root, at) = Times(x, q, j, root, at) + Times(x, m, j, root, at)
               /\ Times(x, q, j, root, at) \in Nat /\ Times(x, m, j, root, at) \in Nat
  <1> DEFINE q == Part(blocks, i - 1, Span(j))
             m == Part(blocks - q, 1, Span(j))
             all == Part(blocks, i, Span(j))
  <1>1. Span(j) \in Nat \ {0}
    BY Spans
  <1>2. all \in Nat /\ all = q + m /\ blocks - q \in Nat
    BY <1>1, NextPart
  <1>3. q \in Nat /\ m \in Nat
    <2>1. (i - 1) * Span(j) \in Nat /\ 1 * Span(j) \in Nat
      BY <1>1
    <2> QED  BY <1>2, <2>1 DEF Part
  <1>4. ASSUME NEW k \in 0 .. j
        PROVE  /\ DivCeil(all, Span(k)) = DivCeil(q, Span(k)) + DivCeil(m, Span(k))
               /\ DivCeil(q, Span(k)) \in Nat /\ DivCeil(m, Span(k)) \in Nat
    <2>1. Span(k) \in Nat \ {0}
      <3>1. k \in 0 .. 3
        OBVIOUS
      <3> QED  BY <3>1, Spans
    <2>2. DivCeil(q, Span(k)) \in Nat /\ DivCeil(m, Span(k)) \in Nat
      <3> HIDE DEF q, m
      <3> QED  BY <1>3, <2>1, CeilOfRest
    <2> QED  BY <2>2, CeilOfNextPart
  <1> HIDE DEF q, m, all
  <1>5. CASE x = at
    BY <1>2, <1>3, <1>5 DEF Times, q, m, all
  <1>6. CASE x # at /\ x \in root .. root + j - 1
    <2>1. root + j - x \in 0 .. j
      BY <1>6
    <2> QED  BY <1>4, <1>6, <2>1 DEF Times, q, m, all
  <1>7. CASE x # at /\ x \notin root .. root + j - 1
    BY <1>7 DEF Times
  <1> QED  BY <1>5, <1>6, <1>7

\* The counts after i children of the root.
FreesSoFar(d, i, v, root, at, blocks, t) ==
    LET q == Part(blocks, i, Span(d - 1))
    IN  t = [visits |-> [x \in DOMAIN disk |-> v[x] + (IF x = root THEN 1 ELSE 0)
                                                    + Times(x, q, d - 1, root + 1, at)],
             count |-> q]

\* One child more.
LEMMA NextTurnFrees ==
    ASSUME NEW d \in 1 .. 3, FreesWell(d - 1), NEW v, NEW root, NEW at, NEW blocks,
           Starts(d, v, root, at, blocks), NEW i \in 1 .. PTRS, NEW t,
           FreesSoFar(d, i - 1, v, root, at, blocks, t)
    PROVE  FreesSoFar(d, i, v, root, at, blocks,
               FreeTurn(t, DeallocateBlock(t.visits, Pointer(root, 1), blocks - t.count, d - 1), blocks))
  <1> DEFINE j == d - 1
             q == Part(blocks, i - 1, Span(j))
             left == blocks - q
             m == Part(left, 1, Span(j))
             all == Part(blocks, i, Span(j))
             r == DeallocateBlock(t.visits, Pointer(root, 1), left, j)
             Own(x) == IF x = root THEN 1 ELSE 0
  <1>1. /\ v \in [DOMAIN disk -> Nat] /\ blocks \in Nat \ {0} /\ root \in Nat /\ at \in Nat /\ at \in DOMAIN disk
        /\ j \in 0 .. 3 /\ i \in Nat \ {0} /\ root + 1 \in Nat /\ (d - 1 = 0 <=> j = 0)
    BY BlockMapAssumption DEF Starts
  <1>2. Span(j) \in Nat \ {0}
    BY <1>1, Spans
  <1>3. left \in Nat /\ all \in Nat /\ all = q + m
    BY <1>1, <1>2, NextPart
  <1>4. q \in Nat /\ m \in Nat
    <2>1. (i - 1) * Span(j) \in Nat /\ 1 * Span(j) \in Nat
      BY <1>1, <1>2
    <2> HIDE DEF left, j
    <2> QED  BY <1>1, <1>3, <2>1 DEF Part
  <1>5. \A x : /\ Times(x, all, j, root + 1, at) = Times(x, q, j, root + 1, at) + Times(x, m, j, root + 1, at)
               /\ Times(x, q, j, root + 1, at) \in Nat /\ Times(x, m, j, root + 1, at) \in Nat
    BY <1>1, TimesOfNextPart
  <1>6. t.count = q /\ t.visits = [x \in DOMAIN disk |-> v[x] + Own(x) + Times(x, q, j, root + 1, at)]
        /\ t = [visits |-> t.visits, count |-> t.count]
    BY DEF FreesSoFar
  <1> HIDE DEF j, q, left, m, all
  <1>7. t.visits \in [DOMAIN disk -> Nat]
    <2>1. \A x \in DOMAIN disk : v[x] + Own(x) + Times(x, q, j, root + 1, at) \in Nat
      BY <1>1, <1>5
    <2> QED  BY <1>6, <2>1
  <1>8. CASE q = blocks
    <2>1. left = 0
      BY <1>1, <1>8 DEF left
    <2>2. m = 0
      <3>1. left <= 1 * Span(j)
        BY <1>2, <2>1
      <3> QED  BY <2>1, <3>1 DEF m, Part
    <2>3. all = q
      BY <1>3, <1>4, <2>2
    <2>4. FreeTurn(t, r, blocks) = t
      BY <1>6, <1>8 DEF FreeTurn
    <2>5. FreesSoFar(d, i, v, root, at, blocks, t)
      BY <1>6, <2>3 DEF FreesSoFar, all, q, j
    <2>6. r = DeallocateBlock(t.visits, Pointer(root, 1), blocks - t.count, d - 1)
      BY <1>6 DEF left, j
    <2> QED  BY <2>4, <2>5, <2>6
  <1>9. CASE q # blocks
    <2>1. left \in Nat \ {0}
      BY <1>1, <1>3, <1>4, <1>9 DEF left
    <2>2. FirstLeads(disk, root + 1, j, at) /\ at < root + 1 /\ Pointer(root, 1) = IF j = 0 THEN at ELSE root + 1
      BY ChildStarts DEF j
    <2>3. Starts(j, t.visits, root + 1, at, left)
      BY <1>1, <1>7, <2>1, <2>2 DEF Starts
    <2>4. Frees(j, t.visits, root + 1, at, left, r)
      BY <2>2, <2>3 DEF FreesWell, j
    <2>5. r = [visits |-> [x \in DOMAIN disk |-> t.visits[x] + Times(x, m, j, root + 1, at)], count |-> m]
      BY <2>4 DEF Frees, m
    <2> HIDE DEF r
    <2>6. FreeTurn(t, r, blocks) = [visits |-> r.visits, count |-> all]
      BY <1>3, <1>6, <1>9, <2>5 DEF FreeTurn
    <2>7. ASSUME NEW x \in DOMAIN disk
          PROVE  t.visits[x] + Times(x, m, j, root + 1, at) = v[x] + Own(x) + Times(x, all, j, root + 1, at)
      <3>1. t.visits[x] = v[x] + Own(x) + Times(x, q, j, root + 1, at)
        BY <1>6
      <3>2. v[x] \in Nat
        BY <1>1
      <3> QED  BY <1>5, <3>1, <3>2
    <2>8. r.visits = [x \in DOMAIN disk |-> v[x] + Own(x) + Times(x, all, j, root + 1, at)]
      BY <2>5, <2>7
    <2>9. FreesSoFar(d, i, v, root, at, blocks, FreeTurn(t, r, blocks))
      BY <2>6, <2>8 DEF FreesSoFar, all, j
    <2>10. r = DeallocateBlock(t.visits, Pointer(root, 1), blocks - t.count, d - 1)
      BY <1>6 DEF r, left, j
    <2> QED  BY <2>9, <2>10
  <1> QED  BY <1>8, <1>9

\* What the children free, the root's visit clears, and no block more.
LEMMA LevelFrees ==
    ASSUME NEW d \in 1 .. 3, FreesWell(d - 1)
    PROVE  FreesWell(d)
  <1> SUFFICES ASSUME NEW v, NEW root, NEW at, NEW blocks, Starts(d, v, root, at, blocks)
               PROVE  Frees(d, v, root, at, blocks, DeallocateBlock(v, root, blocks, d))
    BY DEF FreesWell
  <1>1. /\ v \in [DOMAIN disk -> Nat] /\ blocks \in Nat \ {0} /\ root \in Nat /\ at \in Nat
        /\ root \in DOMAIN disk /\ at # root /\ PTRS \in Nat \ {0} /\ d - 1 \in 0 .. 3
    <2>1. root \in DOMAIN disk /\ at # root
      BY ChildStarts
    <2> QED  BY <2>1, BlockMapAssumption DEF Starts
  <1>2. PICK turn : FreeTrace(d, turn, v, root, blocks) /\ DeallocateBlock(v, root, blocks, d) = turn[PTRS]
    BY <1>1, FreeTurns
  <1> DEFINE Q == {i \in 0 .. PTRS : FreesSoFar(d, i, v, root, at, blocks, turn[i])}
  <1>3. Span(d - 1) \in Nat \ {0} /\ Span(d) \in Nat \ {0}
    BY <1>1, Spans
  <1>4. 0 \in Q
    <2>1. Part(blocks, 0, Span(d - 1)) = 0
      <3>1. 0 * Span(d - 1) = 0
        BY <1>3
      <3> QED  BY <1>1, <3>1 DEF Part
    <2>2. turn[0] = [visits |-> Clear(v, root), count |-> 0]
      BY <1>2 DEF FreeTrace, FreeStart
    <2>3. ASSUME NEW x \in DOMAIN disk
          PROVE  (IF x # root THEN v[x] ELSE IF root \in DOMAIN v THEN v[root] + 1 ELSE 1)
                    = v[x] + (IF x = root THEN 1 ELSE 0) + Times(x, 0, d - 1, root + 1, at)
      <3>1. Times(x, 0, d - 1, root + 1, at) = 0
        <4>1. CASE x \in root + 1 .. root + 1 + (d - 1) - 1
          <5>1. root + 1 + (d - 1) - x \in 0 .. 3
            BY <1>1, <4>1
          <5>2. DivCeil(0, Span(root + 1 + (d - 1) - x)) = 0
            <6>1. Span(root + 1 + (d - 1) - x) \in Nat \ {0} /\ 0 \in Nat
              BY <5>1, Spans
            <6> QED  BY <6>1, CeilOfRest
          <5> QED  BY <5>2 DEF Times
        <4>2. CASE x \notin root + 1 .. root + 1 + (d - 1) - 1
          BY <4>2 DEF Times
        <4> QED  BY <4>1, <4>2
      <3>2. v[x] \in Nat /\ DOMAIN v = DOMAIN disk
        BY <1>1
      <3> QED  BY <1>1, <3>1, <3>2
    <2>4. Clear(v, root) = [x \in DOMAIN disk |-> v[x] + (IF x = root THEN 1 ELSE 0)
                                                       + Times(x, 0, d - 1, root + 1, at)]
      <3>1. DOMAIN v \cup {root} = DOMAIN disk
        BY <1>1
      <3> QED  BY <2>3, <3>1 DEF Clear
    <2>5. FreesSoFar(d, 0, v, root, at, blocks, turn[0])
      BY <2>1, <2>2, <2>4 DEF FreesSoFar
    <2> QED  BY <1>1, <2>5
  <1>5. ASSUME NEW i \in 1 .. PTRS, i - 1 \in Q PROVE i \in Q
    <2>1. FreesSoFar(d, i - 1, v, root, at, blocks, turn[i - 1])
      BY <1>5
    <2>2. turn[i] = FreeTurn(turn[i - 1],
                             DeallocateBlock(turn[i - 1].visits, Pointer(root, 1), blocks - turn[i - 1].count, d - 1),
                             blocks)
      BY <1>2 DEF FreeTrace
    <2>3. FreesSoFar(d, i, v, root, at, blocks, turn[i])
      BY <2>1, <2>2, NextTurnFrees
    <2> QED  BY <2>3
  <1>6. PTRS \in Q
    <2> HIDE DEF Q
    <2> QED  BY <1>1, <1>4, <1>5, Upward
  <1> DEFINE m == Part(blocks, 1, Span(d))
  <1>7. Part(blocks, PTRS, Span(d - 1)) = m
    <2>1. blocks \in Nat /\ 0 \in 0 .. PTRS
      BY <1>1
    <2> QED  BY <2>1, PartOfLevel
  <1>8. m \in 1 .. Span(d)
    <2>1. 1 * Span(d) = Span(d)
      BY <1>3
    <2> QED  BY <1>1, <1>3, <2>1 DEF Part
  <1>9. turn[PTRS] = [visits |-> [x \in DOMAIN disk |-> v[x] + (IF x = root THEN 1 ELSE 0)
                                                             + Times(x, m, d - 1, root + 1, at)],
                      count |-> m]
    BY <1>6, <1>7 DEF FreesSoFar
  <1> HIDE DEF m
  <1>10. ASSUME NEW x \in DOMAIN disk
         PROVE  v[x] + (IF x = root THEN 1 ELSE 0) + Times(x, m, d - 1, root + 1, at) = v[x] + Times(x, m, d, root, at)
    <2>0. v[x] \in Nat
      BY <1>1
    <2>1. CASE x = at
      BY <1>1, <1>8, <2>0, <2>1 DEF Times
    <2>2. CASE x # at /\ x = root
      <3>1. Times(x, m, d - 1, root + 1, at) = 0
        BY <1>1, <2>2 DEF Times
      <3>2. root + d - x = d /\ x \in root .. root + d - 1
        BY <1>1, <2>2
      <3>3. DivCeil(m, Span(d)) = 1
        BY <1>3, <1>8, CeilOfRest
      <3>4. Times(x, m, d, root, at) = 1
        BY <2>2, <3>2, <3>3 DEF Times
      <3> QED  BY <2>0, <2>2, <3>1, <3>4
    <2>3. CASE x # at /\ x # root
      <3>1. x \in root .. root + d - 1 <=> x \in root + 1 .. root + 1 + (d - 1) - 1
        BY <1>1, <2>3
      <3>2. CASE x \in root .. root + d - 1
        <4>1. root + 1 + (d - 1) - x = root + d - x
          BY <1>1, <3>2
        <4>2. Times(x, m, d - 1, root + 1, at) = Times(x, m, d, root, at)
          BY <2>3, <3>1, <3>2, <4>1 DEF Times
        <4>3. Times(x, m, d, root, at) \in Nat
          <5>1. root + d - x \in 0 .. 3
            BY <1>1, <3>2
          <5>2. Span(root + d - x) \in Nat \ {0} /\ m \in Nat
            BY <1>8, <5>1, Spans
          <5>3. DivCeil(m, Span(root + d - x)) \in Nat
            BY <5>2, CeilOfRest
          <5> QED  BY <2>3, <3>2, <5>3 DEF Times
        <4> QED  BY <2>0, <2>3, <4>2, <4>3
      <3>3. CASE x \notin root .. root + d - 1
        BY <2>0, <2>3, <3>1, <3>3 DEF Times
      <3> QED  BY <3>2, <3>3
    <2> QED  BY <2>1, <2>2, <2>3
  <1>11. turn[PTRS] = [visits |-> [x \in DOMAIN disk |-> v[x] + Times(x, m, d, root, at)], count |-> m]
    BY <1>9, <1>10
  <1> QED  BY <1>2, <1>11 DEF Frees, m

\* deallocate_block frees at every depth what BlockMap says.
LEMMA NodesFree == \A d \in 0 .. 3 : FreesWell(d)
  <1>1. FreesWell(0)
    BY DataFrees
  <1>2. FreesWell(1)
    <2>1. FreesWell(1 - 1)
      BY <1>1
    <2> QED  BY <2>1, LevelFrees
  <1>3. FreesWell(2)
    <2>1. FreesWell(2 - 1)
      BY <1>2
    <2> QED  BY <2>1, LevelFrees
  <1>4. FreesWell(3)
    <2>1. FreesWell(3 - 1)
      BY <1>3
    <2> QED  BY <2>1, LevelFrees
  <1> QED  BY <1>1, <1>2, <1>3, <1>4

-----------------------------------------------------------------------------
(* deallocate_blocks.                                                       *)

\* The root of the tree that slot j names, and the path down from it.
Root(n, j)     == n + Placed(n, j - 1) + 1
SlotPath(n, j) == {Ends(j - 1) + 1} \cup (Root(n, j) .. Root(n, j) + SlotDepth(j) - 1)

\* The blocks of the first i slots.
Reached(n, i) == (1 .. Held(n, i)) \cup (n + 1 .. n + Placed(n, i))

\* The data blocks of slot j, and how often freeing them clears the bit of x.
PartHeld(n, j)     == Part(n - Held(n, j - 1), 1, Span(SlotDepth(j)))
SlotTimes(n, j, x) == Times(x, PartHeld(n, j), SlotDepth(j), Root(n, j), Ends(j - 1) + 1)

\* A slot's path is in its own tree, which no slot before it shares.
LEMMA PathReached ==
    ASSUME NEW n \in Nat, NEW i \in 1 .. NDIRECT + 3
    PROVE  /\ Reached(n, i - 1) \subseteq Reached(n, i)
           /\ Root(n, i) \in Nat /\ Ends(i - 1) + 1 \in Nat /\ SlotDepth(i) \in 0 .. 3
           /\ n > Ends(i - 1) =>
                 /\ SlotPath(n, i) \subseteq Reached(n, i) /\ SlotPath(n, i) \cap Reached(n, i - 1) = {}
                 /\ Ends(i - 1) + 1 \in 1 .. n /\ Ends(i - 1) + 1 < Root(n, i)
                 /\ Top(n, i) = IF SlotDepth(i) = 0 THEN Ends(i - 1) + 1 ELSE Root(n, i)
  <1> DEFINE e == Ends(i - 1)
             d == SlotDepth(i)
             h == Held(n, i - 1)
             p == Placed(n, i - 1)
             m == PartHeld(n, i)
             pm == Pointers(m, d)
             root == Root(n, i)
  <1>0. /\ NDIRECT \in Nat \ {0} /\ e \in Nat /\ d \in 0 .. 3 /\ (d = 0 <=> i <= NDIRECT)
        /\ (i <= NDIRECT => e = i - 1)
    <2>1. NDIRECT \in Nat \ {0} /\ i - 1 \in 0 .. NDIRECT + 3
      BY BlockMapAssumption
    <2>2. d = 0 <=> i <= NDIRECT
      BY <2>1 DEF SlotDepth
    <2>3. i <= NDIRECT => e = i - 1
      BY <2>1 DEF Ends
    <2> QED  BY <2>1, <2>2, <2>3, SlotEnds
  <1>1. /\ h \in 0 .. n /\ m \in Nat /\ (n - h = 0 <=> n <= e) /\ (n - h # 0 => h = e /\ m > 0)
        /\ Held(n, i) = h + m /\ Placed(n, i) = p + pm /\ p \in Nat
    BY NextSlot DEF PartHeld
  <1>2. pm \in Nat /\ (m > 0 => pm >= d)
    <2> HIDE DEF m, d
    <2> QED  BY <1>0, <1>1, PointersOfTree
  <1>3. h + m <= n
    <2>1. Span(d) \in Nat
      BY <1>0, Spans
    <2>2. 1 * Span(d) = Span(d) /\ n - h \in Nat
      BY <1>1, <2>1
    <2>3. m <= n - h
      BY <2>1, <2>2 DEF PartHeld, Part
    <2> HIDE DEF m, h
    <2> QED  BY <1>1, <2>3
  <1>4. root = n + p + 1
    BY DEF Root
  <1>5. Top(n, i) = IF i <= NDIRECT THEN i ELSE root
    BY DEF Top, Root
  <1> HIDE DEF e, d, h, p, m, pm, root
  <1>6. Reached(n, i - 1) = (1 .. h) \cup (n + 1 .. n + p)
    BY DEF Reached, h, p
  <1>7. Reached(n, i) = (1 .. h + m) \cup (n + 1 .. n + p + pm)
    <2>1. n + (p + pm) = n + p + pm
      BY <1>1, <1>2
    <2> QED  BY <1>1, <2>1 DEF Reached
  <1>8. SlotPath(n, i) = {e + 1} \cup (root .. root + d - 1)
    BY DEF SlotPath, e, d, root
  <1>9. Reached(n, i - 1) \subseteq Reached(n, i)
    BY <1>1, <1>2, <1>6, <1>7
  <1>10. root \in Nat /\ e + 1 \in Nat
    BY <1>0, <1>1, <1>4
  <1>11. ASSUME n > e
         PROVE  /\ SlotPath(n, i) \subseteq Reached(n, i) /\ SlotPath(n, i) \cap Reached(n, i - 1) = {}
                /\ e + 1 \in 1 .. n /\ e + 1 < root
                /\ Top(n, i) = IF d = 0 THEN e + 1 ELSE root
    <2>1. h = e /\ m > 0 /\ pm >= d
      BY <1>0, <1>1, <1>2, <1>11
    <2>2. e + 1 \in 1 .. n /\ e + 1 < root
      BY <1>0, <1>1, <1>4, <1>11
    <2>3. Top(n, i) = IF d = 0 THEN e + 1 ELSE root
      BY <1>0, <1>5
    <2>4. e + 1 \in 1 .. h + m /\ e + 1 \notin 1 .. h /\ e + 1 \notin n + 1 .. n + p
      BY <1>0, <1>1, <2>1, <2>2
    <2>5. \A x \in root .. root + d - 1 : x \in n + 1 .. n + p + pm /\ x \notin 1 .. h /\ x \notin n + 1 .. n + p
      BY <1>0, <1>1, <1>2, <1>4, <2>1
    <2>6. SlotPath(n, i) \subseteq Reached(n, i)
      BY <1>7, <1>8, <2>4, <2>5
    <2>7. SlotPath(n, i) \cap Reached(n, i - 1) = {}
      BY <1>6, <1>8, <2>4, <2>5
    <2> QED  BY <2>2, <2>3, <2>6, <2>7
  <1> QED  BY <1>0, <1>9, <1>10, <1>11 DEF e, d, root

\* Only the path is visited.
LEMMA OffPath ==
    ASSUME NEW n \in Nat, NEW j \in 1 .. NDIRECT + 3, NEW x, x \notin SlotPath(n, j)
    PROVE  SlotTimes(n, j, x) = 0
  BY DEF SlotPath, SlotTimes, Times

\* The counts after i slots.
SlotsFreed(n, i, t) ==
    /\ t = [visits |-> t.visits, count |-> Held(n, i)] /\ t.visits \in [DOMAIN disk -> Nat]
    /\ \A j \in 1 .. i : n > Ends(j - 1) =>
          SlotPath(n, j) \subseteq Reached(n, i) /\ \A x \in SlotPath(n, j) : t.visits[x] = SlotTimes(n, j, x)
    /\ \A x \in DOMAIN disk : (\A j \in 1 .. i : n > Ends(j - 1) => x \notin SlotPath(n, j)) => t.visits[x] = 0

\* The loop over the slots of deallocate_blocks: where it begins, and a turn.
FreeSlotStart == [visits |-> [b \in DOMAIN disk |-> 0], count |-> 0]
FreeSlotTurn(t, i) ==
    LET r == DeallocateBlock(t.visits, block[i], Blocks - t.count, SlotDepth(i))
    IN  IF t.count = Blocks THEN t ELSE [visits |-> r.visits, count |-> t.count + r.count]

\* The loop over the slots is what it is written as.
LEMMA FreeSlotTurns ==
    /\ DeallocateSlots[0] = FreeSlotStart
    /\ \A i \in 1 .. NDIRECT + 3 : DeallocateSlots[i] = FreeSlotTurn(DeallocateSlots[i - 1], i)
  <1> DEFINE N == NDIRECT + 3
             start == FreeSlotStart
             Turn(t, i) == FreeSlotTurn(t, i)
             Upto(k, g) == g = [i \in 0 .. k |-> IF i = 0 THEN start ELSE Turn(g[i - 1], i)]
             Q == {k \in Nat : \E g : Upto(k, g)}
             after == CHOOSE g : Upto(N, g)
  <1>0. N \in Nat
    BY BlockMapAssumption
  <1>1. DeallocateSlots = after
    BY DEF DeallocateSlots, FreeSlotTurn, FreeSlotStart
  <1> HIDE DEF Turn, start, N
  <1>2. 0 \in Q
    <2>1. Upto(0, [i \in 0 .. 0 |-> start])
      OBVIOUS
    <2> QED  BY <2>1
  <1>3. ASSUME NEW k \in 1 .. N, k - 1 \in Q PROVE k \in Q
    <2>1. PICK g : Upto(k - 1, g)
      BY <1>3
    <2> DEFINE h == [i \in 0 .. k |-> IF i < k THEN g[i] ELSE Turn(g[k - 1], k)]
    <2>2. ASSUME NEW i \in 0 .. k PROVE h[i] = IF i = 0 THEN start ELSE Turn(h[i - 1], i)
      BY <2>1
    <2>3. h = [i \in 0 .. k |-> h[i]]
      OBVIOUS
    <2> HIDE DEF h
    <2>4. Upto(k, h)
      BY <2>2, <2>3
    <2> QED  BY <2>4
  <1>4. N \in Q
    <2> HIDE DEF Q
    <2> QED  BY <1>0, <1>2, <1>3, Upward
  <1>5. Upto(N, after)
    <2> HIDE DEF Upto
    <2> QED  BY <1>4
  <1> HIDE DEF after
  <1>6. after[0] = start /\ \A i \in 1 .. N : after[i] = Turn(after[i - 1], i)
    BY <1>0, <1>5
  <1> QED  BY <1>1, <1>6 DEF start, Turn, N

\* A slot that is freed right is one more that is.
LEMMA NextSlotFrees ==
    ASSUME NEW n \in Nat, n = Blocks, Written, NEW i \in 1 .. NDIRECT + 3, NEW t, SlotsFreed(n, i - 1, t)
    PROVE  SlotsFreed(n, i, FreeSlotTurn(t, i))
  <1> DEFINE e == Ends(i - 1)
             d == SlotDepth(i)
             h == Held(n, i - 1)
             m == PartHeld(n, i)
             root == Root(n, i)
             u == FreeSlotTurn(t, i)
             r == DeallocateBlock(t.visits, block[i], n - h, d)
  <1>1. /\ h \in 0 .. n /\ n - h \in Nat /\ m \in Nat /\ (n - h = 0 <=> n <= e)
        /\ (n - h # 0 => h = e /\ m > 0) /\ Held(n, i) = h + m
    BY NextSlot DEF PartHeld
  <1>2. e \in Nat /\ i \in Nat \ {0}
    <2>1. i - 1 \in 0 .. NDIRECT + 3 /\ i \in Nat \ {0}
      BY BlockMapAssumption
    <2> QED  BY <2>1, SlotEnds
  <1>3. /\ t = [visits |-> t.visits, count |-> h] /\ t.visits \in [DOMAIN disk -> Nat]
        /\ \A j \in 1 .. i - 1 : n > Ends(j - 1) =>
              SlotPath(n, j) \subseteq Reached(n, i - 1) /\ \A x \in SlotPath(n, j) : t.visits[x] = SlotTimes(n, j, x)
        /\ \A x \in DOMAIN disk :
              (\A j \in 1 .. i - 1 : n > Ends(j - 1) => x \notin SlotPath(n, j)) => t.visits[x] = 0
    BY DEF SlotsFreed
  <1>4. t.count = h
    BY <1>3
  <1>5. u = IF h = n THEN t ELSE [visits |-> r.visits, count |-> h + r.count]
    BY <1>4 DEF FreeSlotTurn
  <1>6. CASE n - h = 0
    <2>1. h = n /\ n <= e /\ m = 0
      <3>1. Span(d) \in Nat
        <4>1. d \in 0 .. 3
          BY PathReached
        <4> QED  BY <4>1, Spans
      <3>2. m = 0
        <4>1. 1 * Span(d) = Span(d) /\ n - h <= Span(d)
          BY <1>6, <3>1
        <4> QED  BY <1>6, <4>1 DEF PartHeld, Part
      <3> HIDE DEF h, e, m
      <3> QED  BY <1>1, <1>6, <3>2
    <2>2. u = t /\ Held(n, i) = h
      <3> HIDE DEF u, h, m, r
      <3> QED  BY <1>1, <1>5, <2>1
    <2>3. ASSUME NEW j \in 1 .. i, n > Ends(j - 1) PROVE j \in 1 .. i - 1
      BY <1>2, <2>1, <2>3
    <2>4. Reached(n, i - 1) \subseteq Reached(n, i)
      BY PathReached
    <2>5. \A j \in 1 .. i : n > Ends(j - 1) =>
             SlotPath(n, j) \subseteq Reached(n, i) /\ \A x \in SlotPath(n, j) : t.visits[x] = SlotTimes(n, j, x)
      BY <1>3, <2>3, <2>4
    <2>6. \A x \in DOMAIN disk :
             (\A j \in 1 .. i : n > Ends(j - 1) => x \notin SlotPath(n, j)) => t.visits[x] = 0
      <3>1. \A j \in 1 .. i - 1 : j \in 1 .. i
        BY <1>2
      <3> QED  BY <1>3, <3>1
    <2> HIDE DEF u, h
    <2>7. SlotsFreed(n, i, t)
      BY <1>3, <2>2, <2>5, <2>6 DEF SlotsFreed
    <2> QED  BY <2>2, <2>7 DEF u
  <1>7. CASE n - h # 0
    <2>1. h = e /\ m > 0 /\ n > e /\ h # n
      <3> HIDE DEF h, e, m
      <3> QED  BY <1>1, <1>2, <1>7
    <2>2. /\ SlotPath(n, i) \subseteq Reached(n, i) /\ SlotPath(n, i) \cap Reached(n, i - 1) = {}
          /\ e + 1 \in 1 .. n /\ e + 1 < root /\ Top(n, i) = (IF d = 0 THEN e + 1 ELSE root)
          /\ root \in Nat /\ e + 1 \in Nat /\ d \in 0 .. 3 /\ Reached(n, i - 1) \subseteq Reached(n, i)
      BY <2>1, PathReached
    <2>3. block[i] = Top(n, i) /\ FirstLeads(disk, Top(n, i), d, e + 1) /\ e + 1 \in DOMAIN disk
      <3>1. block[i] = Top(n, i) /\ FirstLeads(disk, Top(n, i), d, e + 1)
        BY <2>1 DEF Written
      <3>2. 1 .. n \subseteq DOMAIN disk
        BY DEF Written
      <3> QED  BY <2>2, <3>1, <3>2
    <2>4. FirstLeads(disk, root, d, e + 1)
      <3>1. CASE d = 0
        BY <3>1 DEF FirstLeads
      <3>2. CASE d # 0
        BY <2>2, <2>3, <3>2
      <3> QED  BY <3>1, <3>2
    <2>5. Starts(d, t.visits, root, e + 1, n - h)
      <3> HIDE DEF d, root, e, h
      <3> QED  BY <1>1, <1>3, <1>7, <2>2, <2>3, <2>4 DEF Starts
    <2>6. Frees(d, t.visits, root, e + 1, n - h, r)
      <3>1. FreesWell(d)
        BY <2>2, NodesFree
      <3>2. block[i] = IF d = 0 THEN e + 1 ELSE root
        BY <2>2, <2>3
      <3> HIDE DEF d, root, e, h
      <3> QED  BY <2>5, <3>1, <3>2 DEF FreesWell, r
    <2>7. r = [visits |-> [x \in DOMAIN disk |-> t.visits[x] + SlotTimes(n, i, x)], count |-> m]
      BY <2>6 DEF Frees, SlotTimes, PartHeld
    <2>8. u = [visits |-> r.visits, count |-> Held(n, i)]
      <3> HIDE DEF u, h, m, r
      <3> QED  BY <1>1, <1>5, <2>1, <2>7
    <2>9. \A x \in DOMAIN disk : u.visits[x] = t.visits[x] + SlotTimes(n, i, x)
      <3> HIDE DEF u, r, m
      <3> QED  BY <2>7, <2>8
    <2>10. SlotPath(n, i) \subseteq DOMAIN disk
      <3> SUFFICES ASSUME NEW x \in root .. root + d - 1 PROVE x \in DOMAIN disk
        BY <2>3 DEF SlotPath
      <3> DEFINE k == root + d - x
      <3>1. k \in 1 .. d /\ root + d - k = x
        <4> HIDE DEF root, d
        <4> QED  BY <2>2
      <3> QED  BY <2>4, <3>1 DEF FirstLeads
    <2>11. \A x : SlotTimes(n, i, x) \in Nat
      <3> SUFFICES ASSUME NEW x PROVE SlotTimes(n, i, x) \in Nat
        OBVIOUS
      <3> HIDE DEF m, d, root, e
      <3>1. SlotTimes(n, i, x) = Times(x, m, d, root, e + 1)
        BY DEF SlotTimes, m, d, root, e
      <3>2. CASE x \in root .. root + d - 1
        <4>1. root + d - x \in 0 .. 3
          BY <2>2, <3>2
        <4>2. Span(root + d - x) \in Nat \ {0}
          BY <4>1, Spans
        <4>3. DivCeil(m, Span(root + d - x)) \in Nat
          BY <1>1, <4>2, CeilOfRest
        <4> QED  BY <1>1, <3>1, <3>2, <4>3 DEF Times
      <3>3. CASE x \notin root .. root + d - 1
        BY <1>1, <3>1, <3>3 DEF Times
      <3> QED  BY <3>2, <3>3
    <2>12. u.visits \in [DOMAIN disk -> Nat]
      <3>1. \A x \in DOMAIN disk : t.visits[x] + SlotTimes(n, i, x) \in Nat
        BY <1>3, <2>11
      <3> HIDE DEF u, r, m
      <3> QED  BY <2>7, <2>8, <3>1
    <2> HIDE DEF u, r, h, e, m
    <2>13. ASSUME NEW j \in 1 .. i, n > Ends(j - 1)
           PROVE  SlotPath(n, j) \subseteq Reached(n, i) /\ \A x \in SlotPath(n, j) : u.visits[x] = SlotTimes(n, j, x)
      <3>1. CASE j = i
        <4> SUFFICES ASSUME NEW x \in SlotPath(n, i) PROVE u.visits[x] = SlotTimes(n, i, x)
          BY <2>2, <3>1
        <4>1. \A l \in 1 .. i - 1 : n > Ends(l - 1) => x \notin SlotPath(n, l)
          BY <1>3, <2>2
        <4>2. t.visits[x] = 0 /\ x \in DOMAIN disk
          BY <1>3, <2>10, <4>1
        <4> QED  BY <2>9, <2>11, <4>2
      <3>2. CASE j # i
        <4>0. j \in 1 .. i - 1
          BY <1>2, <3>2
        <4>1. SlotPath(n, j) \subseteq Reached(n, i - 1) /\ \A x \in SlotPath(n, j) : t.visits[x] = SlotTimes(n, j, x)
          BY <1>3, <2>13, <4>0
        <4>2. ASSUME NEW x \in SlotPath(n, j) PROVE u.visits[x] = SlotTimes(n, j, x)
          <5>1. x \notin SlotPath(n, i)
            BY <2>2, <4>1
          <5>2. SlotTimes(n, i, x) = 0
            BY <5>1, OffPath
          <5>3. CASE x \in DOMAIN disk
            <6>1. t.visits[x] \in Nat
              BY <1>3, <5>3
            <6> QED  BY <2>9, <4>1, <5>2, <5>3, <6>1
          <5>4. x \in DOMAIN disk
            <6>1. x \in Reached(n, i - 1)
              BY <4>1
            <6>2. j \in 1 .. NDIRECT + 3
              BY BlockMapAssumption
            <6>3. Ends(j - 1) + 1 \in 1 .. n /\ Ends(j - 1) + 1 < Root(n, j) /\ Root(n, j) \in Nat
                  /\ Top(n, j) = (IF SlotDepth(j) = 0 THEN Ends(j - 1) + 1 ELSE Root(n, j)) /\ SlotDepth(j) \in 0 .. 3
              BY <2>13, <6>2, PathReached
            <6>4. CASE x = Ends(j - 1) + 1
              <7>1. 1 .. n \subseteq DOMAIN disk
                BY DEF Written
              <7> QED  BY <6>3, <6>4, <7>1
            <6>5. CASE x \in Root(n, j) .. Root(n, j) + SlotDepth(j) - 1
              <7>1. FirstLeads(disk, Top(n, j), SlotDepth(j), Ends(j - 1) + 1)
                BY <2>13, <6>2 DEF Written
              <7>2. SlotDepth(j) # 0
                BY <6>3, <6>5
              <7>3. Top(n, j) = Root(n, j)
                BY <6>3, <7>2
              <7> DEFINE k == Root(n, j) + SlotDepth(j) - x
              <7>4. k \in 1 .. SlotDepth(j) /\ Root(n, j) + SlotDepth(j) - k = x
                BY <6>3, <6>5
              <7> QED  BY <7>1, <7>3, <7>4 DEF FirstLeads
            <6> QED  BY <6>4, <6>5 DEF SlotPath
          <5> QED  BY <5>3, <5>4
        <4> QED  BY <2>2, <4>1, <4>2
      <3> QED  BY <3>1, <3>2
    <2>14. ASSUME NEW x \in DOMAIN disk, \A j \in 1 .. i : n > Ends(j - 1) => x \notin SlotPath(n, j)
           PROVE  u.visits[x] = 0
      <3>1. \A j \in 1 .. i - 1 : j \in 1 .. i
        BY <1>2
      <3>2. t.visits[x] = 0
        BY <1>3, <2>14, <3>1
      <3>3. i \in 1 .. i
        BY <1>2
      <3>4. x \notin SlotPath(n, i)
        BY <2>1, <2>14, <3>3 DEF e
      <3> QED  BY <2>9, <3>2, <3>4, OffPath
    <2>15. u = [visits |-> u.visits, count |-> Held(n, i)]
      BY <2>8
    <2>16. SlotsFreed(n, i, u)
      BY <2>12, <2>13, <2>14, <2>15 DEF SlotsFreed
    <2> QED  BY <2>16 DEF u
  <1> QED  BY <1>6, <1>7

\* The data blocks of a tree's slot are those BlockMap gives it.
LEMMA HeldByTree ==
    ASSUME NEW n \in Nat, NEW d \in Depth
    PROVE  PartHeld(n, NDIRECT + d) = SlotBlocks(n, d)
  <1> DEFINE i == NDIRECT + d
             e == SlotStart(d)
             s == Span(d)
  <1>0. i - 1 = NDIRECT + d - 1
    BY BlockMapAssumption DEF Depth
  <1>1. Ends(i - 1) = e /\ SlotDepth(i) = d /\ e \in Nat
    BY <1>0, PlacedBefore
  <1>2. s \in Nat \ {0} /\ 1 * s = s
    <2>1. d \in 0 .. 3
      BY DEF Depth
    <2>2. s \in Nat \ {0}
      BY <2>1, Spans
    <2> QED  BY <2>2
  <1>3. Held(n, i - 1) = IF n <= e THEN n ELSE e
    BY <1>1 DEF Held
  <1>4. PartHeld(n, i) = Part(n - Held(n, i - 1), 1, s)
    BY <1>1 DEF PartHeld
  <1>5. SlotBlocks(n, d) = IF n <= e THEN 0 ELSE IF n - e > s THEN s ELSE n - e
    BY DEF SlotBlocks
  <1> HIDE DEF i, e, s
  <1>6. PartHeld(n, i) = SlotBlocks(n, d)
    BY <1>1, <1>2, <1>3, <1>4, <1>5 DEF Part
  <1> QED  BY <1>6 DEF i

\* The counts when all slots are freed.
Freed == SlotsFreed(Blocks, NDIRECT + 3, [visits |-> visits, count |-> Held(Blocks, NDIRECT + 3)])

\* The loop over the slots ends with the counts of all of them.
LEMMA SlotsFree ==
    ASSUME Written, Blocks \in Nat
    PROVE  SlotsFreed(Blocks, NDIRECT + 3, DeallocateSlots[NDIRECT + 3])
  <1> DEFINE n == Blocks
             N == NDIRECT + 3
             Q == {i \in 0 .. N : SlotsFreed(n, i, DeallocateSlots[i])}
  <1>0. N \in Nat
    BY BlockMapAssumption
  <1>1. 0 \in Q
    <2> DEFINE t == FreeSlotStart
    <2>1. Held(n, 0) = 0
      BY SlotEnds DEF Held
    <2>2. t.visits = [b \in DOMAIN disk |-> 0] /\ t = [visits |-> t.visits, count |-> 0]
      BY DEF FreeSlotStart
    <2> HIDE DEF t, n
    <2>3. SlotsFreed(n, 0, t)
      BY <2>1, <2>2 DEF SlotsFreed
    <2> QED  BY <1>0, <2>3, FreeSlotTurns DEF t
  <1>2. ASSUME NEW i \in 1 .. N, i - 1 \in Q PROVE i \in Q
    <2>1. SlotsFreed(n, i - 1, DeallocateSlots[i - 1]) /\ DeallocateSlots[i] = FreeSlotTurn(DeallocateSlots[i - 1], i)
      BY <1>2, FreeSlotTurns
    <2>2. SlotsFreed(n, i, DeallocateSlots[i])
      BY <2>1, NextSlotFrees
    <2> QED  BY <2>2
  <1>3. N \in Q
    <2> HIDE DEF Q, N
    <2> QED  BY <1>0, <1>1, <1>2, Upward
  <1> QED  BY <1>3

\* Where deallocate_block passes, by depth and level, and how often.
LEMMA PathOfTree ==
    ASSUME Written, Freed, Blocks \in Nat, NEW d \in Depth, SlotBlocks(Blocks, d) > 0
    PROVE  /\ SlotPath(Blocks, NDIRECT + d) = {SlotStart(d) + 1} \cup
                 {Blocks + PointersBefore(Blocks, d) + 1 + d - k : k \in 1 .. d}
           /\ visits[SlotStart(d) + 1] = PathVisits(Blocks, d, 0)
           /\ \A k \in 1 .. d :
                 visits[Blocks + PointersBefore(Blocks, d) + 1 + d - k] = PathVisits(Blocks, d, k)
           /\ SlotStart(d) + 1 > NDIRECT
  <1> DEFINE n == Blocks
             i == NDIRECT + d
             root == n + PointersBefore(n, d) + 1
             m == SlotBlocks(n, d)
             at == SlotStart(d) + 1
  <1>0. NDIRECT \in Nat \ {0} /\ i - 1 = NDIRECT + d - 1 /\ d \in 1 .. 3
    BY BlockMapAssumption DEF Depth
  <1>1. /\ Placed(n, i - 1) = PointersBefore(n, d) /\ SlotDepth(i) = d /\ i \in 1 .. NDIRECT + 3
        /\ Ends(i - 1) = SlotStart(d) /\ n > SlotStart(d) /\ PointersBefore(n, d) \in Nat /\ SlotStart(d) \in Nat
    BY <1>0, PlacedBefore
  <1>2. Root(n, i) = root
    BY <1>1 DEF Root
  <1>3. SlotPath(n, i) = {at} \cup (root .. root + d - 1)
    BY <1>1, <1>2 DEF SlotPath
  <1>4. PartHeld(n, i) = m /\ m \in Nat
    BY HeldByTree, SlotPointersAre
  <1>5. \A x : SlotTimes(n, i, x) = Times(x, m, d, root, at)
    BY <1>1, <1>2, <1>4 DEF SlotTimes
  <1>6. \A x \in SlotPath(n, i) : visits[x] = SlotTimes(n, i, x)
    <2>1. n > Ends(i - 1) /\ i \in 1 .. NDIRECT + 3
      BY <1>1
    <2> DEFINE t == [visits |-> visits, count |-> Held(n, NDIRECT + 3)]
    <2>2. SlotsFreed(n, NDIRECT + 3, t) /\ t.visits = visits
      BY DEF Freed
    <2> HIDE DEF i, t
    <2> QED  BY <2>1, <2>2 DEF SlotsFreed
  <1>7. at < root /\ root \in Nat /\ at \in Nat
    BY <1>1
  <1>8. \A k \in 1 .. d : root + d - k \in root .. root + d - 1 /\ root + d - (root + d - k) = k /\ root + d - k # at
    <2> HIDE DEF root, at
    <2> QED  BY <1>0, <1>7
  <1>9. root .. root + d - 1 = {root + d - k : k \in 1 .. d}
    <2>1. \A x \in root .. root + d - 1 : root + d - x \in 1 .. d /\ root + d - (root + d - x) = x
      <3> HIDE DEF root
      <3> QED  BY <1>0, <1>7
    <2> HIDE DEF root
    <2>2. ASSUME NEW x \in root .. root + d - 1 PROVE \E k \in 1 .. d : x = root + d - k
      <3>1. root + d - x \in 1 .. d /\ x = root + d - (root + d - x)
        BY <2>1
      <3> QED  BY <3>1
    <2> QED  BY <1>8, <2>2
  <1>10. visits[at] = PathVisits(n, d, 0)
    <2>1. DivCeil(m, Span(0)) = m
      <3>1. Span(0) = 1 /\ 1 \in Nat \ {0}
        BY DEF Span
      <3> QED  BY <1>4, <3>1, CeilOfRest
    <2>2. visits[at] = m
      <3>1. at \in SlotPath(n, i)
        BY <1>3
      <3>2. visits[at] = Times(at, m, d, root, at)
        BY <1>5, <1>6, <3>1
      <3> QED  BY <3>2 DEF Times
    <2> QED  BY <2>1, <2>2 DEF PathVisits
  <1>11. ASSUME NEW k \in 1 .. d PROVE visits[root + d - k] = PathVisits(n, d, k)
    <2> DEFINE x == root + d - k
    <2>1. x \in root .. root + d - 1 /\ root + d - x = k /\ x # at
      BY <1>8
    <2> HIDE DEF x, root, at
    <2>2. visits[x] = Times(x, m, d, root, at)
      BY <1>3, <1>5, <1>6, <2>1
    <2>3. visits[x] = DivCeil(m, Span(k))
      BY <2>1, <2>2 DEF Times
    <2> QED  BY <2>3 DEF x, PathVisits
  <1>12. at > NDIRECT
    <2>1. SlotStart(d) >= NDIRECT
      <3>1. Span(1) \in Nat /\ Span(2) \in Nat
        BY Spans
      <3> QED  BY <1>0, <3>1 DEF SlotStart
    <2> QED  BY <1>0, <1>1, <2>1
  <1>13. \A k \in 1 .. d : root + d - k = Blocks + PointersBefore(Blocks, d) + 1 + d - k
    BY <1>0, <1>1
  <1> QED  BY <1>3, <1>9, <1>10, <1>11, <1>12, <1>13

\* The data block of a direct slot is visited once.
LEMMA DirectVisits ==
    ASSUME Written, Freed, Blocks \in Nat, NEW b \in 1 .. NDIRECT, b <= Blocks
    PROVE  visits[b] = 1
  <1> DEFINE n == Blocks
  <1>0. NDIRECT \in Nat \ {0} /\ b \in 1 .. NDIRECT + 3 /\ b - 1 \in 0 .. NDIRECT
    BY BlockMapAssumption
  <1>1. Ends(b - 1) = b - 1 /\ SlotDepth(b) = 0 /\ n > Ends(b - 1)
    BY <1>0 DEF Ends, SlotDepth
  <1>2. Held(n, b - 1) = b - 1
    BY <1>1 DEF Held
  <1>3. PartHeld(n, b) = 1
    <2>1. Span(0) = 1 /\ n - (b - 1) >= 1 /\ 1 * 1 = 1
      BY DEF Span
    <2> QED  BY <1>1, <1>2, <2>1 DEF PartHeld, Part
  <1>4. b \in SlotPath(n, b) /\ SlotTimes(n, b, b) = 1
    <2>1. Ends(b - 1) + 1 = b
      BY <1>1
    <2> QED  BY <1>3, <2>1 DEF SlotPath, SlotTimes, Times
  <1> DEFINE t == [visits |-> visits, count |-> Held(n, NDIRECT + 3)]
  <1>5. SlotsFreed(n, NDIRECT + 3, t) /\ t.visits = visits
    BY DEF Freed
  <1> HIDE DEF t, n
  <1> QED  BY <1>0, <1>1, <1>4, <1>5 DEF SlotsFreed

-----------------------------------------------------------------------------
(* The theorems.                                                            *)

\* A freed node's counts are those of BlockMap.
LEMMA FreedVisits ==
    ASSUME size \in 1 .. MaxSize, Written, Freed
    PROVE  /\ DOMAIN visits = DOMAIN disk
           /\ \A b \in DOMAIN disk :
                LET onPath == {dk \in Depth \X (0 .. 3) :
                        /\ dk[2] <= dk[1] /\ SlotBlocks(Blocks, dk[1]) > 0
                        /\ b = IF dk[2] = 0 THEN SlotStart(dk[1]) + 1
                               ELSE Blocks + PointersBefore(Blocks, dk[1]) + 1 + dk[1] - dk[2]}
                IN  IF b <= NDIRECT THEN visits[b] = 1
                    ELSE IF onPath = {} THEN visits[b] = 0
                    ELSE \A dk \in onPath : visits[b] = PathVisits(Blocks, dk[1], dk[2])
  <1> DEFINE n == Blocks
             N == NDIRECT + 3
             t == [visits |-> visits, count |-> Held(n, N)]
             Of(d, k) == IF k = 0 THEN SlotStart(d) + 1 ELSE n + PointersBefore(n, d) + 1 + d - k
  <1>0. n \in Nat \ {0} /\ NDIRECT \in Nat \ {0} /\ N \in Nat
    BY BlocksOfSize, BlockMapAssumption
  <1>1. SlotsFreed(n, N, t) /\ t.visits = visits
    BY DEF Freed
  <1>2. DOMAIN visits = DOMAIN disk
    <2> HIDE DEF t, n, N
    <2> QED  BY <1>1 DEF SlotsFreed
  <1>3. \A x \in DOMAIN disk : (\A j \in 1 .. N : n > Ends(j - 1) => x \notin SlotPath(n, j)) => visits[x] = 0
    <2> HIDE DEF t, n, N
    <2> QED  BY <1>1 DEF SlotsFreed
  <1>4. DOMAIN disk = 1 .. n + PointerBlocks(n)
    BY <1>0, WrittenHasItsBlocks
  <1>5. ASSUME NEW b \in DOMAIN disk, b <= NDIRECT PROVE visits[b] = 1
    <2>1. b <= n
      <3>1. CASE n > NDIRECT
        BY <1>0, <1>4, <1>5, <3>1
      <3>2. CASE n <= NDIRECT
        <4>1. ASSUME NEW d \in Depth PROVE SlotPointers(n, d) = 0
          <5>1. SlotBlocks(n, d) = 0
            <6>1. Span(1) \in Nat /\ Span(2) \in Nat
              BY Spans
            <6>2. SlotStart(d) >= NDIRECT
              BY <1>0, <6>1 DEF SlotStart, Depth
            <6>3. SlotStart(d) \in Nat
              BY PlacedBefore
            <6>4. n <= SlotStart(d)
              BY <1>0, <3>2, <6>2, <6>3
            <6> QED  BY <6>4 DEF SlotBlocks
          <5>2. SlotPointers(n, d) = Pointers(0, d)
            BY <1>0, <5>1, SlotPointersAre
          <5>3. d \in 0 .. 3 /\ 0 \in Nat
            BY DEF Depth
          <5> QED  BY <5>2, <5>3, PointersOfTree
        <4>2. PointerBlocks(n) = 0
          <5>1. 1 \in Depth /\ 2 \in Depth /\ 3 \in Depth
            BY DEF Depth
          <5>2. SlotPointers(n, 1) = 0 /\ SlotPointers(n, 2) = 0 /\ SlotPointers(n, 3) = 0
            BY <4>1, <5>1
          <5> QED  BY <5>2 DEF PointerBlocks
        <4> QED  BY <1>0, <1>4, <1>5, <4>2
      <3> QED  BY <1>0, <3>1, <3>2
    <2>2. b \in 1 .. NDIRECT
      BY <1>0, <1>4, <1>5
    <2> QED  BY <1>0, <2>1, <2>2, DirectVisits
  <1>6. ASSUME NEW d \in Depth, SlotBlocks(n, d) > 0
        PROVE  /\ SlotPath(n, NDIRECT + d) = {Of(d, 0)} \cup {Of(d, k) : k \in 1 .. d}
               /\ \A k \in 0 .. d : visits[Of(d, k)] = PathVisits(n, d, k)
    <2>1. \A k \in 1 .. d : Of(d, k) = n + PointersBefore(n, d) + 1 + d - k
      OBVIOUS
    <2>2. {Of(d, k) : k \in 1 .. d} = {n + PointersBefore(n, d) + 1 + d - k : k \in 1 .. d}
      BY <2>1
    <2>3. Of(d, 0) = SlotStart(d) + 1
      OBVIOUS
    <2>4. /\ SlotPath(n, NDIRECT + d) = {SlotStart(d) + 1} \cup {n + PointersBefore(n, d) + 1 + d - k : k \in 1 .. d}
          /\ visits[SlotStart(d) + 1] = PathVisits(n, d, 0)
          /\ \A k \in 1 .. d : visits[n + PointersBefore(n, d) + 1 + d - k] = PathVisits(n, d, k)
      BY <1>0, <1>6, PathOfTree
    <2> HIDE DEF n
    <2>5. ASSUME NEW k \in 0 .. d PROVE visits[Of(d, k)] = PathVisits(n, d, k)
      <3>1. CASE k = 0
        BY <2>3, <2>4, <3>1
      <3>2. CASE k # 0
        <4>1. k \in 1 .. d
          BY <3>2 DEF Depth
        <4> HIDE DEF Of
        <4> QED  BY <2>1, <2>4, <4>1
      <3> QED  BY <3>1, <3>2
    <2> HIDE DEF Of
    <2> QED  BY <2>2, <2>3, <2>4, <2>5
  <1>7. ASSUME NEW b \in DOMAIN disk, b > NDIRECT,
               \A d \in Depth : SlotBlocks(n, d) > 0 => \A k \in 0 .. d : b # Of(d, k)
        PROVE  visits[b] = 0
    <2> SUFFICES ASSUME NEW j \in 1 .. N, n > Ends(j - 1) PROVE b \notin SlotPath(n, j)
      BY <1>3
    <2>1. CASE j <= NDIRECT
      <3>1. SlotPath(n, j) = {j}
        <4>1. Ends(j - 1) = j - 1 /\ SlotDepth(j) = 0
          BY <1>0, <2>1 DEF Ends, SlotDepth
        <4>2. Ends(j - 1) + 1 = j
          BY <4>1
        <4>3. Root(n, j) .. Root(n, j) + SlotDepth(j) - 1 = {}
          <5>1. Root(n, j) \in Nat
            BY <1>0, PathReached
          <5> QED  BY <4>1, <5>1
        <4> QED  BY <4>2, <4>3 DEF SlotPath
      <3>2. b # j
        BY <1>0, <1>7, <2>1
      <3> QED  BY <3>1, <3>2
    <2>2. CASE j > NDIRECT
      <3>1. PICK d \in Depth : j = NDIRECT + d
        <4>1. j - NDIRECT \in Depth /\ j = NDIRECT + (j - NDIRECT)
          BY <1>0, <2>2 DEF Depth
        <4> QED  BY <4>1
      <3>2. SlotBlocks(n, d) > 0
        <4>1. NDIRECT + d - 1 = j - 1
          BY <1>0, <3>1 DEF Depth
        <4>2. Ends(j - 1) = SlotStart(d) /\ (SlotBlocks(n, d) > 0 <=> n > SlotStart(d))
          BY <1>0, <4>1, PlacedBefore
        <4> QED  BY <4>2
      <3>3. \A k \in 0 .. d : b # Of(d, k)
        BY <1>7, <3>2
      <3>4. 0 \in 0 .. d /\ 1 .. d \subseteq 0 .. d
        BY DEF Depth
      <3>5. SlotPath(n, NDIRECT + d) = {Of(d, 0)} \cup {Of(d, k) : k \in 1 .. d}
        BY <1>6, <3>2
      <3> HIDE DEF Of
      <3> QED  BY <3>1, <3>3, <3>4, <3>5
    <2> QED  BY <1>0, <2>1, <2>2
  <1> DEFINE OnPath(b) == {dk \in Depth \X (0 .. 3) :
                  dk[2] <= dk[1] /\ SlotBlocks(n, dk[1]) > 0 /\ b = Of(dk[1], dk[2])}
  <1>8. ASSUME NEW b \in DOMAIN disk
        PROVE  IF b <= NDIRECT THEN visits[b] = 1
               ELSE IF OnPath(b) = {} THEN visits[b] = 0
               ELSE \A dk \in OnPath(b) : visits[b] = PathVisits(n, dk[1], dk[2])
    <2> HIDE DEF Of, n
    <2>1. CASE b <= NDIRECT
      BY <1>5, <2>1
    <2>2. CASE b > NDIRECT /\ OnPath(b) = {}
      <3>1. ASSUME NEW d \in Depth, SlotBlocks(n, d) > 0, NEW k \in 0 .. d, b = Of(d, k) PROVE FALSE
        <4>1. k \in 0 .. 3 /\ k <= d
          BY DEF Depth
        <4>2. <<d, k>> \in OnPath(b)
          BY <3>1, <4>1
        <4> QED  BY <2>2, <4>2
      <3> HIDE DEF OnPath
      <3>2. visits[b] = 0
        BY <1>7, <2>2, <3>1
      <3>3. ~(b <= NDIRECT)
        BY <1>0, <1>4, <2>2
      <3> QED  BY <2>2, <3>2, <3>3
    <2>3. CASE b > NDIRECT /\ OnPath(b) # {}
      <3>1. ASSUME NEW dk \in OnPath(b) PROVE visits[b] = PathVisits(n, dk[1], dk[2])
        <4>1. dk[1] \in Depth /\ dk[2] \in 0 .. dk[1] /\ SlotBlocks(n, dk[1]) > 0 /\ b = Of(dk[1], dk[2])
          BY DEF Depth
        <4> HIDE DEF OnPath
        <4> QED  BY <1>6, <4>1
      <3>2. ~(b <= NDIRECT)
        BY <1>0, <1>4, <2>3
      <3> HIDE DEF OnPath
      <3> QED  BY <2>3, <3>1, <3>2
    <2>4. b <= NDIRECT \/ b > NDIRECT
      BY <1>0, <1>4
    <2> HIDE DEF OnPath
    <2> QED  BY <2>1, <2>2, <2>3, <2>4
  <1> QED  BY <1>2, <1>8

\* The inductive invariant: each phase leaves the node as its loop does.
NodeInv ==
    /\ size \in 1 .. MaxSize
    /\ phase \in {"new", "written", "read", "deleted"}
    /\ phase = "new" => disk = <<>>
    /\ phase # "new" => Written
    /\ phase \in {"read", "deleted"} /\ Blocks <= NDIRECT + PTRS => out = [k \in 1 .. Blocks |-> Piece(k)]
    /\ phase = "deleted" => Freed

\* It holds of a node that has no blocks yet.
LEMMA InitNodeInv == Init => NodeInv
  BY DEF Init, NodeInv

\* No step breaks it.
LEMMA NextNodeInv == NodeInv /\ [Next]_vars => NodeInv'
  <1> SUFFICES ASSUME NodeInv, [Next]_vars PROVE NodeInv'
    OBVIOUS
  <1>1. CASE AllocateNodeBlocks
    <2>1. phase = "new" /\ phase' = "written" /\ size' = size
      BY <1>1 DEF AllocateNodeBlocks
    <2>2. Written'
      BY <1>1, <2>1, Allocates DEF NodeInv
    <2> QED  BY <2>1, <2>2 DEF NodeInv
  <1>2. CASE LoadInodeBlocks
    <2>1. /\ phase = "written" /\ phase' = "read" /\ size' = size /\ disk' = disk /\ block' = block
          /\ out' = LoadSlots[NDIRECT + 3].got /\ size \in 1 .. MaxSize /\ Written
      BY <1>2 DEF LoadInodeBlocks, NodeInv
    <2>2. Written'
      BY <2>1 DEF Written, Blocks
    <2>3. Blocks' = Blocks /\ (\A k : Piece(k)' = Piece(k))
      BY <2>1 DEF Blocks, Piece
    <2>4. Blocks <= NDIRECT + PTRS => out' = [k \in 1 .. Blocks |-> Piece(k)]
      BY <2>1, ReadsBack
    <2>5. (Blocks <= NDIRECT + PTRS => out = [k \in 1 .. Blocks |-> Piece(k)])'
      BY <2>3, <2>4
    <2> QED  BY <2>1, <2>2, <2>5 DEF NodeInv
  <1>3. CASE DeallocateBlocks
    <2>1. /\ phase = "read" /\ phase' = "deleted" /\ size' = size /\ disk' = disk /\ block' = block /\ out' = out
          /\ visits' = DeallocateSlots[NDIRECT + 3].visits /\ size \in 1 .. MaxSize /\ Written
          /\ (Blocks <= NDIRECT + PTRS => out = [k \in 1 .. Blocks |-> Piece(k)])
      BY <1>3 DEF DeallocateBlocks, NodeInv
    <2>2. Written'
      BY <2>1 DEF Written, Blocks
    <2>3. Blocks' = Blocks /\ (\A k : Piece(k)' = Piece(k))
      BY <2>1 DEF Blocks, Piece
    <2>4. (Blocks <= NDIRECT + PTRS => out = [k \in 1 .. Blocks |-> Piece(k)])'
      BY <2>1, <2>3
    <2>5. SlotsFreed(Blocks, NDIRECT + 3, DeallocateSlots[NDIRECT + 3])
      <3>1. Blocks \in Nat
        BY <2>1, BlocksOfSize
      <3> QED  BY <2>1, <3>1, SlotsFree
    <2> DEFINE t == DeallocateSlots[NDIRECT + 3]
    <2>6. t = [visits |-> visits', count |-> Held(Blocks, NDIRECT + 3)]
      <3>1. SlotsFreed(Blocks, NDIRECT + 3, t) /\ visits' = t.visits
        BY <2>1, <2>5
      <3> HIDE DEF t
      <3> QED  BY <3>1 DEF SlotsFreed
    <2>7. SlotsFreed(Blocks, NDIRECT + 3, [visits |-> visits', count |-> Held(Blocks, NDIRECT + 3)])
      BY <2>5, <2>6
    <2>8. Freed'
      BY <2>1, <2>3, <2>7 DEF Freed, SlotsFreed
    <2> QED  BY <2>1, <2>2, <2>4, <2>8 DEF NodeInv
  <1>4. CASE UNCHANGED vars
    <2>1. Blocks' = Blocks /\ (\A k : Piece(k)' = Piece(k)) /\ (Written' <=> Written) /\ (Freed' <=> Freed)
      BY <1>4 DEF vars, Blocks, Piece, Written, Freed, SlotsFreed
    <2> QED  BY <1>4, <2>1 DEF NodeInv, vars
  <1> QED  BY <1>1, <1>2, <1>3, <1>4 DEF Next

\* What the loops leave is what the three invariants ask for.
LEMMA NodeInvImplies == NodeInv => TreeHasItsBlocks /\ LoadsWhatWasWritten /\ VisitsLeftmostPath
  <1> SUFFICES ASSUME NodeInv PROVE TreeHasItsBlocks /\ LoadsWhatWasWritten /\ VisitsLeftmostPath
    OBVIOUS
  <1>1. Blocks \in Nat \ {0}
    BY BlocksOfSize DEF NodeInv
  <1>2. TreeHasItsBlocks
    <2> SUFFICES ASSUME phase # "new"
                 PROVE  /\ DOMAIN disk = 1 .. Blocks + PointerBlocks(Blocks)
                        /\ \A d \in Depth : SlotBlocks(Blocks, d) > 0 =>
                              block[NDIRECT + d] = Blocks + PointersBefore(Blocks, d) + 1
      BY DEF TreeHasItsBlocks
    <2>1. Written
      BY DEF NodeInv
    <2> QED  BY <1>1, <2>1, WrittenHasItsBlocks
  <1>3. LoadsWhatWasWritten
    <2> SUFFICES ASSUME phase \in {"read", "deleted"} /\ Blocks <= NDIRECT + PTRS
                 PROVE  /\ Len(out) = Blocks
                        /\ \A k \in 1 .. Len(out) :
                              /\ out[k][1] = <<k - 1>>
                              /\ out[k][2] = IF k < Blocks THEN BLOCK_SIZE ELSE size - (Blocks - 1) * BLOCK_SIZE
      BY DEF LoadsWhatWasWritten
    <2>1. out = [k \in 1 .. Blocks |-> Piece(k)]
      BY DEF NodeInv
    <2>2. Len(out) = Blocks /\ \A k \in 1 .. Blocks : out[k] = Piece(k)
      BY <1>1, <2>1
    <2> QED  BY <2>2 DEF Piece
  <1>4. VisitsLeftmostPath
    <2> SUFFICES ASSUME phase = "deleted" PROVE VisitsLeftmostPath
      BY DEF VisitsLeftmostPath
    <2>1. size \in 1 .. MaxSize /\ Written /\ Freed
      BY DEF NodeInv
    <2> QED  BY <2>1, FreedVisits DEF VisitsLeftmostPath
  <1> QED  BY <1>2, <1>3, <1>4

\* The state stays inside the inductive invariant.
LEMMA NodeInvHolds == Spec => []NodeInv
  BY InitNodeInv, NextNodeInv, PTL DEF Spec

\* Every node of every size has the blocks that Ext2Alloc takes from BlockMap:
\* map_node_blocks, whatever the number of direct slots and of pointers.
THEOREM TreesAreCounted == Spec => []TreeHasItsBlocks
  BY NodeInvHolds, NodeInvImplies, PTL

\* A node that needs one pointer block at most is read back as it was written.
THEOREM ReadsWhatWasWritten == Spec => []LoadsWhatWasWritten
  BY NodeInvHolds, NodeInvImplies, PTL

\* deallocate_block visits the leftmost paths only, as often as BlockMap counts.
THEOREM FreesOnlyLeftmostPath == Spec => []VisitsLeftmostPath
  BY NodeInvHolds, NodeInvImplies, PTL
=============================================================================
