--------------------------- MODULE KeyboardProofs ---------------------------
(* Theorems about Keyboard, for any keys, screen and sizes of the buffers.  *)
EXTENDS Keyboard, WellFoundedInduction, TLAPS

\* The text call counts what it has copied, and what it has counted is there.
TextInv ==
    /\ allocated \in Nat /\ typed = [k \in 1 .. allocated |-> typed[k]]
    /\ text = [k \in 0 .. TextSize - 1 |-> text[k]]
    /\ allocated + KEYBOARD_BUFFER_SIZE <= TextSize =>
          \A k \in 1 .. allocated : text[k - 1] = typed[k]

\* A function on 1 .. n is a sequence of length n.
LEMMA IsSequence ==
    ASSUME NEW n \in Nat, NEW A, NEW f, f = [k \in 1 .. n |-> f[k]], \A k \in 1 .. n : f[k] \in A
    PROVE  f \in Seq(A) /\ Len(f) = n
  <1>1. f \in [1 .. n -> A]
    OBVIOUS
  <1> QED  BY <1>1

\* Two sequences joined, position by position.
LEMMA Concatenated ==
    ASSUME NEW m \in Nat, NEW n \in Nat, NEW f, NEW g,
           f = [k \in 1 .. m |-> f[k]], g = [k \in 1 .. n |-> g[k]]
    PROVE  f \o g = [k \in 1 .. m + n |-> IF k <= m THEN f[k] ELSE g[k - m]]
  <1> DEFINE A == {f[k] : k \in 1 .. m} \cup {g[k] : k \in 1 .. n}
  <1>1. f \in Seq(A) /\ Len(f) = m
    BY IsSequence
  <1>2. g \in Seq(A) /\ Len(g) = n
    BY IsSequence
  <1> HIDE DEF A
  <1> QED  BY <1>1, <1>2

\* A set of naturals that is not empty has a least member.
LEMMA Least ==
    ASSUME NEW D \in SUBSET Nat, D # {}
    PROVE  \E d \in D : \A e \in D : d <= e
  <1>1. PICK d \in D : \A e \in D : <<e, d>> \notin OpToRel(<, Nat)
    BY NatLessThanWellFounded, WFMin
  <1>2. ASSUME NEW e \in D, e < d PROVE FALSE
    <2>1. <<e, d>> \in Nat \X Nat /\ <<e, d>>[1] < <<e, d>>[2]
      BY <1>2
    <2> QED  BY <1>1, <2>1 DEF OpToRel
  <1> QED  BY <1>2

\* The first position of some is one of them.
LEMMA FirstOfSome ==
    ASSUME NEW n \in Nat, NEW I \in SUBSET (1 .. n), I # {}
    PROVE  Min(I) \in I
  <1>1. I \in SUBSET Nat
    OBVIOUS
  <1>2. \E i \in I : \A j \in I : i <= j
    BY <1>1, Least
  <1> QED  BY <1>2 DEF Min

\* What agrees at the start and keeps to agree from step to step agrees in the end.
LEMMA LoopsAgree ==
    ASSUME NEW n \in Nat, NEW f, NEW g, f[0] = g[0],
           \A k \in 1 .. n : f[k - 1] = g[k - 1] => f[k] = g[k]
    PROVE  f[n] = g[n]
  <1> SUFFICES ASSUME f[n] # g[n] PROVE FALSE
    OBVIOUS
  <1> DEFINE D == {k \in 0 .. n : f[k] # g[k]}
  <1>1. D \in SUBSET Nat /\ n \in D
    OBVIOUS
  <1>2. PICK d \in D : \A e \in D : d <= e
    BY <1>1, Least
  <1>3. d \in 1 .. n /\ d - 1 \in 0 .. n /\ d - 1 \notin D
    BY <1>1, <1>2
  <1> QED  BY <1>2, <1>3

\* What is in the buffer before its terminator.
LEMMA ContentsOfBuffer ==
    \E n \in 0 .. KEYBOARD_BUFFER_SIZE : Contents = [k \in 1 .. n |-> keyboard_buffer[k - 1]]
  <1> DEFINE s == [k \in 1 .. KEYBOARD_BUFFER_SIZE |-> keyboard_buffer[k - 1]]
             I == {i \in 1 .. Len(s) : s[i] = NUL}
             n == SelectInSeq(s, LAMBDA c : c = NUL)
  <1>1. Len(s) = KEYBOARD_BUFFER_SIZE /\ KEYBOARD_BUFFER_SIZE \in Nat
    BY KeyboardAssumption
  <1>2. n = IF I # {} THEN Min(I) ELSE 0
    BY DEF SelectInSeq
  <1>3. Contents = IF n = 0 THEN s ELSE SubSeq(s, 1, n - 1)
    BY DEF Contents, ContentsOf
  <1>4. n = 0 \/ n \in 1 .. KEYBOARD_BUFFER_SIZE
    <2>1. I \in SUBSET (1 .. KEYBOARD_BUFFER_SIZE)
      BY <1>1
    <2> HIDE DEF I, n
    <2> QED  BY <1>1, <1>2, <2>1, FirstOfSome
  <1> HIDE DEF n
  <1>5. CASE n = 0
    BY <1>1, <1>3, <1>5
  <1>6. CASE n \in 1 .. KEYBOARD_BUFFER_SIZE
    <2>1. n - 1 \in 0 .. KEYBOARD_BUFFER_SIZE /\ n # 0
      BY <1>1, <1>6
    <2>2. SubSeq(s, 1, n - 1) = [k \in 1 .. n - 1 |-> keyboard_buffer[k - 1]]
      BY <1>1, <1>6
    <2> QED  BY <1>3, <2>1, <2>2
  <1> QED  BY <1>4, <1>5, <1>6

\* Every step keeps what call 9 has counted.
LEMMA TextInductive ==
    ASSUME TextInv, [Next]_vars
    PROVE  TextInv'
  <1>1. CASE ReadText
    BY <1>1 DEF ReadText, TextInv
  <1>2. CASE LineOfText
    <2> PICK n \in 0 .. KEYBOARD_BUFFER_SIZE : Contents = [k \in 1 .. n |-> keyboard_buffer[k - 1]]
      BY ContentsOfBuffer
    <2>1. Len(Contents) = n
      OBVIOUS
    <2>2. allocated' = allocated + n /\ typed' = typed \o Contents
      BY <1>2, <2>1 DEF LineOfText
    <2>3. typed' = [k \in 1 .. allocated + n |->
                       IF k <= allocated THEN typed[k] ELSE keyboard_buffer[k - allocated - 1]]
      <3>1. Contents = [k \in 1 .. n |-> Contents[k]]
        OBVIOUS
      <3>2. typed \o Contents = [k \in 1 .. allocated + n |->
                                   IF k <= allocated THEN typed[k] ELSE Contents[k - allocated]]
        BY <3>1, Concatenated DEF TextInv
      <3> QED  BY <2>2, <3>2 DEF TextInv
    <2>4. text' = [k \in 0 .. TextSize - 1 |-> text'[k]]
      BY <1>2 DEF LineOfText, TextInv
    <2>5. ASSUME allocated' + KEYBOARD_BUFFER_SIZE <= TextSize, NEW k \in 1 .. allocated'
          PROVE  text'[k - 1] = typed'[k]
      <3>1. allocated + KEYBOARD_BUFFER_SIZE <= TextSize /\ k \in 1 .. allocated + n
        BY <2>2, <2>5, KeyboardAssumption DEF TextInv
      <3>2. TextSize - allocated >= KEYBOARD_BUFFER_SIZE /\ k - 1 \in 0 .. TextSize - 1
        BY <3>1, KeyboardAssumption DEF TextInv
      <3>3. text'[k - 1] = IF k - 1 >= allocated /\ k - 1 < allocated + KEYBOARD_BUFFER_SIZE
                           THEN keyboard_buffer[k - 1 - allocated] ELSE text[k - 1]
        BY <1>2, <3>2 DEF LineOfText, CopyAt, TextInv
      <3>4. \A j \in 1 .. allocated : text[j - 1] = typed[j]
        BY <3>1 DEF TextInv
      <3>5. typed'[k] = IF k <= allocated THEN typed[k] ELSE keyboard_buffer[k - allocated - 1]
        BY <2>3, <3>1
      <3>6. allocated \in Nat /\ k \in Nat
        BY <3>1 DEF TextInv
      <3>7. CASE k <= allocated
        BY <3>1, <3>3, <3>4, <3>5, <3>6, <3>7
      <3>8. CASE k > allocated
        <4>1. k - 1 >= allocated /\ k - 1 < allocated + KEYBOARD_BUFFER_SIZE
          BY <3>1, <3>6, <3>8, KeyboardAssumption
        <4>2. text'[k - 1] = keyboard_buffer[k - 1 - allocated]
          BY <3>3, <4>1
        <4>3. typed'[k] = keyboard_buffer[k - allocated - 1]
          BY <3>5, <3>6, <3>8
        <4> QED  BY <3>6, <4>2, <4>3
      <3> QED  BY <3>6, <3>7, <3>8
    <2>6. allocated' \in Nat
      BY <2>2 DEF TextInv
    <2>7. typed' = [k \in 1 .. allocated' |-> typed'[k]]
      BY <2>2, <2>3
    <2> QED  BY <2>4, <2>5, <2>6, <2>7 DEF TextInv
  <1>3. CASE UNCHANGED <<allocated, text, typed>>
    BY <1>3 DEF TextInv
  <1>4. Next => \/ ReadText \/ LineOfText \/ UNCHANGED <<allocated, text, typed>>
    BY DEF Next, Key, Program, Ignored, LeftArrow, RightArrow, Abort, BackspaceKey, EnterKey, Modify,
           PrintPrompt, ClearScreen, ReadLine, LineRead, TextActivate, TextMode, Type, call
  <1> QED  BY <1>1, <1>2, <1>3, <1>4 DEF vars, call

\* However the keys and the two steps of the text call interleave, what the call
\* hands over is what was typed, as long as a keyboard buffer of room was left.
THEOREM TextIsComplete == Spec => []TextIsWhatWasTyped
  <1>1. Init => TextInv
    BY DEF Init, TextInv
  <1>2. TextInv => TextIsWhatWasTyped
    <2>1. TextInv => Len(typed) = allocated
      BY DEF TextInv
    <2> QED  BY <2>1 DEF TextInv, TextIsWhatWasTyped
  <1> QED  BY <1>1, <1>2, TextInductive, PTL DEF Spec


(***************************************************************************)
(* A line that is edited, and the screen that shows it.                    *)
(***************************************************************************)

\* In the code both sizes are 256, and a line ends before.
LineFits == MaxLine < KEYBOARD_BUFFER_SIZE /\ MaxLine < BYTE

\* rows and columns are counted along the screen
LEMMA PositionOf ==
    ASSUME NEW x \in Nat
    PROVE  x \div COLUMN \in Nat /\ x % COLUMN \in 0 .. COLUMN - 1
           /\ (x \div COLUMN) * COLUMN + (x % COLUMN) = x
  BY KeyboardAssumption

\* A cell is in one row and one column.
LEMMA OnePosition ==
    ASSUME NEW r \in Int, NEW q \in Int, NEW c \in 0 .. COLUMN - 1, NEW e \in 0 .. COLUMN - 1,
           r * COLUMN + c = q * COLUMN + e
    PROVE  r = q /\ c = e
  <1>1. (r - q) * COLUMN = e - c
    BY KeyboardAssumption
  <1>2. r - q \in Int /\ e - c < COLUMN /\ e - c > -COLUMN
    BY KeyboardAssumption
  <1>3. ASSUME NEW k \in Int, k > 0 PROVE k * COLUMN >= COLUMN
    BY <1>3, KeyboardAssumption
  <1>4. ASSUME NEW k \in Int, k < 0 PROVE k * COLUMN <= -COLUMN
    BY <1>4, KeyboardAssumption
  <1>5. r - q = 0
    BY <1>1, <1>2, <1>3, <1>4, KeyboardAssumption
  <1> QED  BY <1>5, KeyboardAssumption

\* A cell of the screen is in a row of the screen.
LEMMA RowOnScreen ==
    ASSUME NEW r \in Int, NEW c \in 0 .. COLUMN - 1,
           r * COLUMN + c >= 0, r * COLUMN + c < ROW * COLUMN
    PROVE  r \in 0 .. ROW - 1
  <1>1. ASSUME r < 0 PROVE FALSE
    <2>1. r * COLUMN <= -COLUMN
      BY <1>1, KeyboardAssumption
    <2> QED  BY <2>1, KeyboardAssumption
  <1>2. ASSUME r >= ROW PROVE FALSE
    <2>1. r * COLUMN >= ROW * COLUMN
      BY <1>2, KeyboardAssumption
    <2> QED  BY <2>1, KeyboardAssumption
  <1> QED  BY <1>1, <1>2, KeyboardAssumption

\* one step along the screen, and one back
LEMMA StepOn ==
    ASSUME NEW r \in Int, NEW c \in 0 .. COLUMN - 1
    PROVE  /\ c # COLUMN - 1 => c + 1 \in 0 .. COLUMN - 1 /\ r * COLUMN + (c + 1) = r * COLUMN + c + 1
           /\ c = COLUMN - 1 => (r + 1) * COLUMN + 0 = r * COLUMN + c + 1
           /\ c # 0 => c - 1 \in 0 .. COLUMN - 1 /\ r * COLUMN + (c - 1) = r * COLUMN + c - 1
           /\ c = 0 => (r - 1) * COLUMN + (COLUMN - 1) = r * COLUMN + c - 1
           /\ 0 \in 0 .. COLUMN - 1 /\ COLUMN - 1 \in 0 .. COLUMN - 1
  BY KeyboardAssumption


\* the display whose cursor is at the x-th cell
Showing(f, x, start) ==
    [screen |-> f, row |-> x \div COLUMN, col |-> x % COLUMN, start_row |-> start]

\* A character that does not end the screen is drawn, and the cursor goes on.
LEMMA PutCharIs ==
    ASSUME NEW f, NEW x \in Nat, NEW start, NEW c, c # Newline, x + 1 < ROW * COLUMN
    PROVE  PutChar(Showing(f, x, start), c)
             = Showing([k \in Cell |-> IF k = x THEN c ELSE f[k]], x + 1, start)
  <1> DEFINE r == x \div COLUMN
             q == x % COLUMN
             g == [k \in Cell |-> IF k = x THEN c ELSE f[k]]
             d == [screen |-> f, row |-> r, col |-> q, start_row |-> start]
             drawn == [screen |-> g, row |-> r, col |-> q, start_row |-> start]
  <1>1. r \in Nat /\ q \in 0 .. COLUMN - 1 /\ r * COLUMN + q = x
    BY PositionOf
  <1>2. x + 1 \in Nat /\ (x + 1) \div COLUMN \in Nat /\ (x + 1) % COLUMN \in 0 .. COLUMN - 1
        /\ ((x + 1) \div COLUMN) * COLUMN + ((x + 1) % COLUMN) = x + 1
    BY PositionOf
  <1>3. Draw(f, r, q, c) = g
    BY <1>1 DEF Draw
  <1> HIDE DEF r, q, g
  <1>4. [d EXCEPT !.screen = Draw(@, d.row, d.col, c)] = drawn
    BY <1>3
  <1>5. CASE q # COLUMN - 1
    <2>1. PutChar(d, c) = [drawn EXCEPT !.col = @ + 1]
      BY <1>4, <1>5 DEF PutChar
    <2>2. r * COLUMN + (q + 1) = x + 1 /\ q + 1 \in 0 .. COLUMN - 1
      BY <1>1, <1>5, StepOn
    <2>3. (x + 1) \div COLUMN = r /\ (x + 1) % COLUMN = q + 1
      BY <1>1, <1>2, <2>2, OnePosition
    <2> QED  BY <2>1, <2>3 DEF Showing, r, q, g
  <1>6. CASE q = COLUMN - 1
    <2>1. (r + 1) * COLUMN + 0 = x + 1 /\ 0 \in 0 .. COLUMN - 1
      BY <1>1, <1>6, StepOn
    <2>2. (x + 1) \div COLUMN = r + 1 /\ (x + 1) % COLUMN = 0
      BY <1>1, <1>2, <2>1, OnePosition
    <2>3. r + 1 # ROW
      BY <2>1, KeyboardAssumption
    <2>4. PutChar(d, c) = [drawn EXCEPT !.row = @ + 1, !.col = 0]
      BY <1>4, <1>6, <2>3 DEF PutChar
    <2> QED  BY <2>2, <2>4 DEF Showing, r, q, g
  <1> QED  BY <1>5, <1>6

\* the screen after the n characters of s are written from its x-th cell on
Written(f, x, n, s) ==
    [k \in Cell |-> IF k >= x /\ k < x + n THEN s[k - x + 1] ELSE f[k]]

\* What is without a terminator or the end of a line is drawn cell by cell.
LEMMA PutsLine ==
    ASSUME NEW f, f = [k \in Cell |-> f[k]], NEW x \in Nat, NEW start, NEW n \in Nat, NEW s,
           s = [k \in 1 .. n |-> s[k]], \A k \in 1 .. n : s[k] # NUL /\ s[k] # Newline,
           x + n < ROW * COLUMN
    PROVE  Puts(Showing(f, x, start), s)
             = Showing(Written(f, x, n, s), x + n, start)
  <1> DEFINE drawn(m) == [k \in Cell |-> IF k >= x /\ k < x + m THEN s[k - x + 1] ELSE f[k]]
             d == Showing(f, x, start)
             W == [k \in 0 .. n |-> Showing(drawn(k), x + k, start)]
             F(put) == [k \in 0 .. Len(s) |->
                          IF k = 0 THEN d
                          ELSE IF \E j \in 1 .. k : s[j] = NUL THEN put[k - 1]
                          ELSE PutChar(put[k - 1], s[k])]
             r == CHOOSE put : put = F(put)
  <1>1. Len(s) = n
    OBVIOUS
  <1>2. Puts(d, s) = r[n]
    BY <1>1 DEF Puts
  <1>3. W[0] = d
    <2>1. drawn(0) = f
      <3>1. \A k \in Cell : ~ (k >= x /\ k < x + 0)
        BY KeyboardAssumption DEF Cell
      <3> QED  BY <3>1
    <2>2. x + 0 = x
      OBVIOUS
    <2> HIDE DEF drawn
    <2> QED  BY <2>1, <2>2
  <1>4. ASSUME NEW k \in 1 .. n PROVE W[k] = PutChar(W[k - 1], s[k])
    <2> DEFINE h == drawn(k - 1)
               y == x + (k - 1)
    <2>1. W[k - 1] = Showing(h, y, start)
      OBVIOUS
    <2>2. y \in Nat /\ y + 1 < ROW * COLUMN /\ s[k] # Newline /\ y + 1 = x + k
      BY KeyboardAssumption
    <2>3. [c \in Cell |-> IF c = y THEN s[k] ELSE h[c]] = drawn(k)
      <3>1. ASSUME NEW c \in Cell
            PROVE  (IF c = y THEN s[k] ELSE h[c]) = drawn(k)[c]
        <4>1. c \in Int /\ (c >= x /\ c < x + k <=> c = y \/ (c >= x /\ c < x + (k - 1)))
              /\ (c = y => c - x + 1 = k)
          <5>1. c \in Int
            BY DEF Cell
          <5> QED  BY <5>1
        <4>2. h[c] = IF c >= x /\ c < x + (k - 1) THEN s[c - x + 1] ELSE f[c]
          OBVIOUS
        <4>3. drawn(k)[c] = IF c >= x /\ c < x + k THEN s[c - x + 1] ELSE f[c]
          OBVIOUS
        <4> HIDE DEF y, h, drawn
        <4> QED  BY <4>1, <4>2, <4>3
      <3>2. drawn(k) = [c \in Cell |-> drawn(k)[c]]
        OBVIOUS
      <3> HIDE DEF y, h, drawn
      <3> QED  BY <3>1, <3>2
    <2>5. W[k] = Showing(drawn(k), x + k, start)
      OBVIOUS
    <2> HIDE DEF y, h, W, drawn
    <2>4. PutChar(Showing(h, y, start), s[k])
            = Showing([c \in Cell |-> IF c = y THEN s[k] ELSE h[c]], y + 1, start)
      BY <2>2, PutCharIs
    <2> QED  BY <2>1, <2>2, <2>3, <2>4, <2>5
  <1>5. W = F(W)
    <2>1. ASSUME NEW k \in 0 .. n PROVE W[k] = F(W)[k]
      <3>1. ~ \E j \in 1 .. k : s[j] = NUL
        OBVIOUS
      <3> HIDE DEF W
      <3>2. CASE k = 0
        BY <1>1, <1>3, <3>2
      <3>3. CASE k # 0
        BY <1>1, <1>4, <3>1, <3>3
      <3> QED  BY <3>2, <3>3
    <2>2. F(W) = [k \in 0 .. n |-> F(W)[k]]
      BY <1>1
    <2>3. W = [k \in 0 .. n |-> W[k]]
      OBVIOUS
    <2> HIDE DEF W, F
    <2> QED  BY <2>1, <2>2, <2>3
  <1>6. r = F(r)
    <2> HIDE DEF W, F
    <2> QED  BY <1>5
  <1>7. r[n] = W[n]
    <2>1. ASSUME NEW put, put = F(put)
          PROVE  put[0] = d /\ \A k \in 1 .. n : put[k] = PutChar(put[k - 1], s[k])
      <3>1. ASSUME NEW k \in 0 .. n
            PROVE  put[k] = IF k = 0 THEN d
                            ELSE IF \E j \in 1 .. k : s[j] = NUL THEN put[k - 1]
                            ELSE PutChar(put[k - 1], s[k])
        BY <1>1, <2>1
      <3> HIDE DEF F
      <3>2. ASSUME NEW k \in 1 .. n PROVE put[k] = PutChar(put[k - 1], s[k])
        <4>1. k \in 0 .. n /\ k # 0 /\ ~ \E j \in 1 .. k : s[j] = NUL
          OBVIOUS
        <4> QED  BY <3>1, <4>1
      <3>3. 0 \in 0 .. n
        OBVIOUS
      <3> QED  BY <3>1, <3>2, <3>3
    <2> HIDE DEF W, F, r
    <2>2. \A k \in 1 .. n : r[k - 1] = W[k - 1] => r[k] = W[k]
      BY <1>5, <1>6, <2>1
    <2>3. r[0] = W[0]
      BY <1>5, <1>6, <2>1
    <2> QED  BY <2>2, <2>3, LoopsAgree
  <1>8. W[n] = Showing(drawn(n), x + n, start)
    OBVIOUS
  <1>9. drawn(n) = Written(f, x, n, s)
    BY DEF Written
  <1> HIDE DEF W, r, drawn
  <1> QED  BY <1>2, <1>7, <1>8, <1>9


\* f is a function on S
IsOver(f, S) == f = [x \in S |-> f[x]]

\* puts of one character puts that character.
LEMMA PutsOne ==
    ASSUME NEW d, NEW c, c # NUL
    PROVE  Puts(d, <<c>>) = PutChar(d, c)
  <1> DEFINE F(put) == [k \in 0 .. Len(<<c>>) |->
                          IF k = 0 THEN d
                          ELSE IF \E j \in 1 .. k : <<c>>[j] = NUL THEN put[k - 1]
                          ELSE PutChar(put[k - 1], <<c>>[k])]
             W == [k \in 0 .. 1 |-> IF k = 0 THEN d ELSE PutChar(d, c)]
             r == CHOOSE put : put = F(put)
  <1>1. Len(<<c>>) = 1 /\ <<c>>[1] = c
    OBVIOUS
  <1>2. ASSUME NEW put, put = F(put) PROVE put[1] = PutChar(d, c)
    <2>1. 0 \in 0 .. 1 /\ 1 \in 0 .. 1 /\ ~ \E j \in 1 .. 1 : <<c>>[j] = NUL
      BY <1>1
    <2>2. put[0] = d
      BY <1>1, <1>2, <2>1
    <2>3. put[1] = PutChar(put[0], <<c>>[1])
      BY <1>1, <1>2, <2>1
    <2> QED  BY <1>1, <2>2, <2>3
  <1>3. W = F(W)
    <2>1. ~ \E j \in 1 .. 1 : <<c>>[j] = NUL
      BY <1>1
    <2>2. ASSUME NEW k \in 0 .. 1 PROVE W[k] = F(W)[k]
      BY <1>1, <2>1
    <2>3. F(W) = [k \in 0 .. 1 |-> F(W)[k]] /\ W = [k \in 0 .. 1 |-> W[k]]
      BY <1>1
    <2> HIDE DEF W, F
    <2> QED  BY <2>2, <2>3
  <1>4. r = F(r)
    <2> HIDE DEF W, F
    <2> QED  BY <1>3
  <1>5. Puts(d, <<c>>) = r[1]
    BY <1>1 DEF Puts
  <1> HIDE DEF F, W, r
  <1> QED  BY <1>2, <1>4, <1>5

\* Whatever is put on the screen, the cursor stays on it.
LEMMA PutCharStays ==
    ASSUME NEW f, f = [k \in Cell |-> f[k]], NEW r \in 0 .. ROW - 1, NEW q \in 0 .. COLUMN - 1,
           NEW start, NEW c, NEW d, d = [screen |-> f, row |-> r, col |-> q, start_row |-> start]
    PROVE  /\ PutChar(d, c).row \in 0 .. ROW - 1 /\ PutChar(d, c).col \in 0 .. COLUMN - 1
           /\ PutChar(d, c).screen = [k \in Cell |-> PutChar(d, c).screen[k]]
  <1> DEFINE g == IF c = Newline THEN f ELSE Draw(f, r, q, c)
             drawn == [screen |-> g, row |-> r, col |-> q, start_row |-> start]
             wrapped == [drawn EXCEPT !.row = @ + 1, !.col = 0]
  <1>1. g = [k \in Cell |-> g[k]]
    BY DEF Draw
  <1> HIDE DEF g
  <1>2. (IF c = Newline THEN d ELSE [d EXCEPT !.screen = Draw(@, d.row, d.col, c)]) = drawn
    BY DEF g
  <1>3. wrapped.screen = g /\ wrapped.row = r + 1 /\ wrapped.col = 0
    OBVIOUS
  <1>4. CASE c # Newline /\ q # COLUMN - 1
    <2>1. PutChar(d, c) = [drawn EXCEPT !.col = @ + 1]
      BY <1>2, <1>4 DEF PutChar
    <2>2. q + 1 \in 0 .. COLUMN - 1
      BY <1>4, KeyboardAssumption
    <2> QED  BY <1>1, <2>1, <2>2
  <1>5. CASE ~(c # Newline /\ q # COLUMN - 1) /\ r + 1 = ROW
    <2>1. PutChar(d, c) = ScrollUp(wrapped)
      BY <1>2, <1>3, <1>5 DEF PutChar
    <2>2. /\ ScrollUp(wrapped).row = r /\ ScrollUp(wrapped).col = 0
          /\ ScrollUp(wrapped).screen
               = [k \in Cell |-> IF k + COLUMN \in Cell THEN g[k + COLUMN] ELSE Blank]
      BY <1>3 DEF ScrollUp
    <2> QED  BY <2>1, <2>2, KeyboardAssumption
  <1>6. CASE ~(c # Newline /\ q # COLUMN - 1) /\ r + 1 # ROW
    <2>1. PutChar(d, c) = wrapped
      BY <1>2, <1>3, <1>6 DEF PutChar
    <2> HIDE DEF wrapped
    <2> QED  BY <1>1, <1>3, <1>6, <2>1, KeyboardAssumption
  <1> QED  BY <1>4, <1>5, <1>6

\* What is read of a buffer whose first characters are followed by a terminator, or
\* by nothing.
LEMMA ContentsAre ==
    ASSUME NEW b, NEW n \in 0 .. KEYBOARD_BUFFER_SIZE, \A k \in 0 .. n - 1 : b[k] # NUL,
           n < KEYBOARD_BUFFER_SIZE => b[n] = NUL
    PROVE  ContentsOf(b) = [k \in 1 .. n |-> b[k - 1]]
  <1> DEFINE s == [k \in 1 .. KEYBOARD_BUFFER_SIZE |-> b[k - 1]]
             I == {i \in 1 .. Len(s) : s[i] = NUL}
             p == SelectInSeq(s, LAMBDA c : c = NUL)
  <1>1. Len(s) = KEYBOARD_BUFFER_SIZE /\ KEYBOARD_BUFFER_SIZE \in Nat /\ n \in Nat
    BY KeyboardAssumption
  <1>2. p = IF I # {} THEN Min(I) ELSE 0
    BY DEF SelectInSeq
  <1>3. ContentsOf(b) = IF p = 0 THEN s ELSE SubSeq(s, 1, p - 1)
    BY DEF ContentsOf
  <1>4. \A i \in 1 .. n : i \notin I
    <2> TAKE i \in 1 .. n
    <2>1. s[i] = b[i - 1] /\ i - 1 \in 0 .. n - 1
      BY <1>1
    <2> QED  BY <2>1
  <1>5. CASE n = KEYBOARD_BUFFER_SIZE
    <2>1. I = {}
      BY <1>1, <1>4, <1>5
    <2>2. p = 0
      BY <1>2, <2>1
    <2> HIDE DEF p
    <2> QED  BY <1>3, <1>5, <2>2
  <1>6. CASE n < KEYBOARD_BUFFER_SIZE
    <2>1. n + 1 \in I
      <3>1. s[n + 1] = b[n]
        BY <1>1, <1>6
      <3> QED  BY <1>1, <1>6, <3>1
    <2>2. \A i \in I : n + 1 <= i /\ i \in Nat
      <3> TAKE i \in I
      <3>1. i \in 1 .. KEYBOARD_BUFFER_SIZE /\ i \notin 1 .. n
        BY <1>1, <1>4
      <3> QED  BY <1>1, <3>1
    <2>3. Min(I) = n + 1
      <3> HIDE DEF I
      <3> QED  BY <1>1, <2>1, <2>2 DEF Min
    <2>4. p = n + 1 /\ p # 0 /\ p - 1 = n
      <3> HIDE DEF I, p
      <3> QED  BY <1>1, <1>2, <2>1, <2>3
    <2>5. SubSeq(s, 1, n) = [k \in 1 .. n |-> b[k - 1]]
      BY <1>1, <1>6
    <2> HIDE DEF p, s
    <2> QED  BY <1>3, <2>4, <2>5
  <1> QED  BY <1>1, <1>5, <1>6


(***************************************************************************)
(* The invariant.                                                          *)
(***************************************************************************)

\* where the cursor is, and where the line begins
Cursor == row * COLUMN + col
Begin  == start_row * COLUMN + start_col

\* what is typed is no terminator and no end of a line
Holds(b, n) == \A k \in Index : IF k < n THEN b[k] \in Chars ELSE b[k] = NUL

OnScreen ==
    /\ row \in 0 .. ROW - 1 /\ col \in 0 .. COLUMN - 1
    /\ screen = [k \in Cell |-> screen[k]]
    /\ keyboard_buffer = [k \in Index |-> keyboard_buffer[k]]
    /\ keyboard_input_on \in BOOLEAN
    /\ capslock \in BOOLEAN /\ shift_left \in BOOLEAN /\ shift_right \in BOOLEAN

\* While a line is edited it lies on the screen from where it began, and the cursor
\* in it or behind it.
EditInv ==
    /\ OnScreen
    /\ keyboard_input_on =>
          /\ pc \in {"line", "armed", "waiting"}
          /\ start_row \in Nat /\ start_col \in 0 .. COLUMN - 1
          /\ buffer_index \in 0 .. MaxLine
          /\ Begin <= Cursor /\ Cursor <= Begin + buffer_index
          /\ Begin + buffer_index < ROW * COLUMN
          /\ Holds(keyboard_buffer, buffer_index)
          /\ ScreenShowsLine

\* the sequence l of length m with c behind its i-th element, and without the i-th
With(l, m, i, c)  == [k \in 1 .. m + 1 |-> IF k <= i THEN l[k] ELSE IF k = i + 1 THEN c ELSE l[k - 1]]
Without(l, m, i)  == [k \in 1 .. m - 1 |-> IF k < i THEN l[k] ELSE l[k + 1]]

\* A line with a character put in, position by position.
LEMMA Inserted ==
    ASSUME NEW m \in Nat, NEW i \in 0 .. m, NEW l, IsOver(l, 1 .. m), NEW c
    PROVE  SubSeq(l, 1, i) \o <<c>> \o SubSeq(l, i + 1, Len(l)) = With(l, m, i, c)
  <1> DEFINE before == [k \in 1 .. i |-> l[k]]
             after  == [k \in 1 .. m - i |-> l[k + i]]
             new    == [k \in 1 .. 1 |-> c]
  <1>0. i \in Nat /\ m - i \in Nat /\ i <= m
    OBVIOUS
  <1>1. l = [k \in 1 .. m |-> l[k]] /\ Len(l) = m
    BY IsSequence DEF IsOver
  <1>2. SubSeq(l, 1, i) = before
    BY <1>1
  <1>3. SubSeq(l, i + 1, Len(l)) = after
    BY <1>1
  <1>4. <<c>> = new
    OBVIOUS
  <1>5. before \o new = [k \in 1 .. i + 1 |-> IF k <= i THEN before[k] ELSE new[k - i]]
    <2>1. before = [k \in 1 .. i |-> before[k]] /\ new = [k \in 1 .. 1 |-> new[k]]
      OBVIOUS
    <2> HIDE DEF before, new
    <2> QED  BY <1>0, <2>1, Concatenated
  <1> DEFINE first == [k \in 1 .. i + 1 |-> IF k <= i THEN l[k] ELSE c]
  <1>6. before \o new = first
    <2>1. ASSUME NEW k \in 1 .. i + 1
          PROVE  (IF k <= i THEN before[k] ELSE new[k - i]) = first[k]
      <3>1. k <= i => k \in 1 .. i
        BY <1>0
      <3>2. ~(k <= i) => k - i = 1
        BY <1>0
      <3>3. new[1] = c
        OBVIOUS
      <3>4. first[k] = IF k <= i THEN l[k] ELSE c
        OBVIOUS
      <3>5. k <= i => before[k] = l[k]
        BY <3>1
      <3> HIDE DEF before, new, first
      <3> QED  BY <3>2, <3>3, <3>4, <3>5
    <2> HIDE DEF before, new
    <2> QED  BY <1>5, <2>1
  <1>7. first \o after = [k \in 1 .. (i + 1) + (m - i) |->
                             IF k <= i + 1 THEN first[k] ELSE after[k - (i + 1)]]
    <2>1. first = [k \in 1 .. i + 1 |-> first[k]] /\ after = [k \in 1 .. m - i |-> after[k]]
      OBVIOUS
    <2>2. i + 1 \in Nat
      BY <1>0
    <2> HIDE DEF first, after
    <2> QED  BY <1>0, <2>1, <2>2, Concatenated
  <1>8. \A k \in 1 .. m + 1 : (IF k <= i + 1 THEN first[k] ELSE after[k - (i + 1)])
                               = IF k <= i THEN l[k] ELSE IF k = i + 1 THEN c ELSE l[k - 1]
    <2> TAKE k \in 1 .. m + 1
    <2>1. CASE k <= i + 1
      BY <1>0, <2>1
    <2>2. CASE k > i + 1
      <3>1. k - (i + 1) \in 1 .. m - i /\ k - (i + 1) + i = k - 1
        BY <1>0, <2>2
      <3>2. after[k - (i + 1)] = l[k - 1]
        BY <3>1
      <3> HIDE DEF after, first
      <3> QED  BY <1>0, <2>2, <3>2
    <2> QED  BY <1>0, <2>1, <2>2
  <1>9. (i + 1) + (m - i) = m + 1
    BY <1>0
  <1> HIDE DEF first, after, before, new
  <1> QED  BY <1>2, <1>3, <1>4, <1>6, <1>7, <1>8, <1>9 DEF With

\* A line with a character taken out, position by position.
LEMMA Removed ==
    ASSUME NEW m \in Nat, NEW i \in 1 .. m, NEW l, IsOver(l, 1 .. m)
    PROVE  SubSeq(l, 1, i - 1) \o SubSeq(l, i + 1, Len(l)) = Without(l, m, i)
  <1> DEFINE before == [k \in 1 .. i - 1 |-> l[k]]
             after  == [k \in 1 .. m - i |-> l[k + i]]
  <1>0. i - 1 \in Nat /\ m - i \in Nat /\ i \in Nat /\ i <= m
    OBVIOUS
  <1>1. l = [k \in 1 .. m |-> l[k]] /\ Len(l) = m
    BY IsSequence DEF IsOver
  <1>2. SubSeq(l, 1, i - 1) = before
    BY <1>1
  <1>3. SubSeq(l, i + 1, Len(l)) = after
    BY <1>1
  <1>4. before \o after = [k \in 1 .. (i - 1) + (m - i) |->
                             IF k <= i - 1 THEN before[k] ELSE after[k - (i - 1)]]
    <2> DEFINE p == i - 1
               q == m - i
    <2>1. before = [k \in 1 .. p |-> before[k]] /\ after = [k \in 1 .. q |-> after[k]]
      OBVIOUS
    <2>2. p \in Nat /\ q \in Nat
      BY <1>0
    <2> HIDE DEF before, after, p, q
    <2>3. before \o after = [k \in 1 .. p + q |-> IF k <= p THEN before[k] ELSE after[k - p]]
      BY <2>1, <2>2, Concatenated
    <2> QED  BY <2>3 DEF p, q
  <1>5. \A k \in 1 .. m - 1 : (IF k <= i - 1 THEN before[k] ELSE after[k - (i - 1)])
                               = IF k < i THEN l[k] ELSE l[k + 1]
    <2> TAKE k \in 1 .. m - 1
    <2>1. CASE k < i
      BY <1>0, <2>1
    <2>2. CASE k >= i
      <3>1. k - (i - 1) \in 1 .. m - i /\ k - (i - 1) + i = k + 1
        BY <1>0, <2>2
      <3>2. after[k - (i - 1)] = l[k + 1]
        BY <3>1
      <3> HIDE DEF after, before
      <3> QED  BY <1>0, <2>2, <3>2
    <2> QED  BY <1>0, <2>1, <2>2
  <1>6. (i - 1) + (m - i) = m - 1
    BY <1>0
  <1> HIDE DEF after, before
  <1> QED  BY <1>2, <1>3, <1>4, <1>5, <1>6 DEF Without

\* The index into the line that the code finds from the screen is where the cursor is
\* in the line, on whatever row.
LEMMA IndexIs ==
    ASSUME NEW r \in Int, NEW q \in Int, NEW s \in Int, NEW p \in Int, NEW n \in Nat, n < BYTE,
           s * COLUMN + p <= r * COLUMN + q, r * COLUMN + q <= s * COLUMN + p + n
    PROVE  (q - p + (r - s) * COLUMN) % BYTE = (r * COLUMN + q) - (s * COLUMN + p)
  <1> DEFINE x == r * COLUMN + q
             y == s * COLUMN + p
  <1>1. q - p + (r - s) * COLUMN = x - y /\ x \in Int /\ y \in Int
    BY KeyboardAssumption
  <1> HIDE DEF x, y
  <1>2. x - y \in 0 .. n
    BY <1>1 DEF x, y
  <1>3. \A z \in 0 .. n : z % BYTE = z
    BY KeyboardAssumption
  <1> QED  BY <1>1, <1>2, <1>3 DEF x, y

\* The display at a cell, with its row and column.
LEMMA ShowingIs ==
    ASSUME NEW f, NEW start, NEW r \in Nat, NEW q \in 0 .. COLUMN - 1, NEW x \in Nat,
           r * COLUMN + q = x
    PROVE  Showing(f, x, start) = [screen |-> f, row |-> r, col |-> q, start_row |-> start]
  <1>1. x \div COLUMN \in Nat /\ x % COLUMN \in 0 .. COLUMN - 1
        /\ (x \div COLUMN) * COLUMN + (x % COLUMN) = x
    BY PositionOf
  <1>2. x \div COLUMN = r /\ x % COLUMN = q
    BY <1>1, OnePosition
  <1> QED  BY <1>2 DEF Showing

\* Neither the prompt nor a newline is NUL.
LEMMA NamesDiffer == Prompt # NUL /\ Newline # NUL
  <1>1. Prompt[1] = "prompt" /\ Newline[1] = "newline" /\ NUL[1] = "nul"
    BY DEF Prompt, Newline, NUL
  <1> QED  BY <1>1

\* A character that is typed is neither NUL nor a newline.
LEMMA CharsArePlain == \A c \in Chars : c # NUL /\ c # Newline
  <1> SUFFICES ASSUME NEW c \in Chars PROVE c # NUL /\ c # Newline
    OBVIOUS
  <1>1. c[1] \in Letters
    BY DEF Chars
  <1>2. NUL[1] = "nul" /\ Newline[1] = "newline"
    BY DEF NUL, Newline
  <1>3. "nul" \notin Letters /\ "newline" \notin Letters
    BY KeyboardAssumption
  <1> QED  BY <1>1, <1>2, <1>3

\* the screen after n characters of buffer b, from its i-th on, are written from the
\* x-th cell on
Drawn(f, x, n, b, i) ==
    [k \in Cell |-> IF k >= x /\ k < x + n THEN b[k - x + i] ELSE f[k]]

\* the n characters of b from its i-th on are there
Typed(b, i, n) == \A k \in Index : k >= i /\ k < i + n => b[k] \in Chars

\* What is drawn of the line from its i-th character on.
LEMMA RestDrawn ==
    ASSUME NEW f, IsOver(f, Cell), NEW x \in Nat, NEW start,
           NEW b, NEW i \in Nat, NEW n \in Nat, i + n <= KEYBOARD_BUFFER_SIZE, x + n < ROW * COLUMN,
           Typed(b, i, n)
    PROVE  Puts(Showing(f, x, start), Rest(b, i, n))
             = Showing(Drawn(f, x, n, b, i), x + n, start)
  <1> DEFINE s == [j \in 1 .. n |-> b[i + j - 1]]
  <1>1. \A j \in 1 .. n : i + j - 1 \in Index /\ i + j - 1 >= i /\ i + j - 1 < i + n
    BY KeyboardAssumption DEF Index
  <1>2. Rest(b, i, n) = s
    <2>1. Rest(b, i, n) = [j \in 1 .. n |-> IF i + j - 1 \in Index THEN b[i + j - 1] ELSE NUL]
      BY DEF Rest
    <2> QED  BY <1>1, <2>1
  <1>3. \A c \in Chars : c # NUL /\ c # Newline
    BY CharsArePlain
  <1>4. \A j \in 1 .. n : s[j] # NUL /\ s[j] # Newline
    BY <1>1, <1>3 DEF Typed
  <1>5. s = [j \in 1 .. n |-> s[j]]
    OBVIOUS
  <1>6. ASSUME NEW k \in Cell, k >= x, k < x + n PROVE s[k - x + 1] = b[k - x + i]
    <2>1. k \in Int
      BY DEF Cell
    <2>2. k - x + 1 \in 1 .. n /\ i + (k - x + 1) - 1 = k - x + i
      BY <1>6, <2>1
    <2> QED  BY <2>2
  <1> HIDE DEF s
  <1>7. Puts(Showing(f, x, start), s) = Showing(Written(f, x, n, s), x + n, start)
    BY <1>4, <1>5, PutsLine DEF IsOver
  <1>8. Written(f, x, n, s) = Drawn(f, x, n, b, i)
    BY <1>6 DEF Written, Drawn
  <1> QED  BY <1>2, <1>7, <1>8

\* What the invariant says of the numbers.
LEMMA Numbers ==
    ASSUME LineFits, EditInv, keyboard_input_on
    PROVE  /\ row \in Nat /\ col \in 0 .. COLUMN - 1 /\ start_row \in Nat /\ start_col \in 0 .. COLUMN - 1
           /\ buffer_index \in 0 .. MaxLine /\ MaxLine \in Nat /\ buffer_index < BYTE
           /\ buffer_index < KEYBOARD_BUFFER_SIZE /\ ROW * COLUMN \in Nat
           /\ Cursor \in Nat /\ Begin \in Nat /\ Cursor < ROW * COLUMN
           /\ Cursor - Begin \in 0 .. buffer_index
           /\ CurrentIndex = Cursor - Begin
  <1>1. /\ row \in Nat /\ col \in 0 .. COLUMN - 1 /\ start_row \in Nat /\ start_col \in 0 .. COLUMN - 1
        /\ buffer_index \in 0 .. MaxLine /\ MaxLine \in Nat
    BY KeyboardAssumption DEF EditInv, OnScreen
  <1>2. ROW * COLUMN \in Nat /\ Cursor \in Nat /\ Begin \in Nat
    BY <1>1, KeyboardAssumption DEF Cursor, Begin
  <1>3. buffer_index < BYTE /\ buffer_index < KEYBOARD_BUFFER_SIZE
    BY <1>1, KeyboardAssumption DEF LineFits
  <1>4. Begin <= Cursor /\ Cursor <= Begin + buffer_index /\ Begin + buffer_index < ROW * COLUMN
    BY DEF EditInv
  <1>5. CurrentIndex = Cursor - Begin
    <2>1. start_row * COLUMN + start_col <= row * COLUMN + col
          /\ row * COLUMN + col <= start_row * COLUMN + start_col + buffer_index
      BY <1>4 DEF Cursor, Begin
    <2>2. row \in Int /\ col \in Int /\ start_row \in Int /\ start_col \in Int /\ buffer_index \in Nat
      BY <1>1
    <2>3. (col - start_col + (row - start_row) * COLUMN) % BYTE
            = (row * COLUMN + col) - (start_row * COLUMN + start_col)
      BY <1>3, <2>1, <2>2, IndexIs
    <2> QED  BY <2>3 DEF CurrentIndex, Cursor, Begin
  <1>6. Cursor - Begin \in 0 .. buffer_index /\ Cursor < ROW * COLUMN
    BY <1>1, <1>2, <1>4
  <1> QED  BY <1>1, <1>2, <1>3, <1>5, <1>6



(***************************************************************************)
(* The keys.                                                               *)
(***************************************************************************)

Line == [k \in 1 .. buffer_index |-> keyboard_buffer[k - 1]]

\* What the line editor reads of the line around the cursor.
LEMMA Around ==
    ASSUME keyboard_input_on, NEW i
    PROVE  E!Before(i) = SubSeq(Line, 1, i) /\ E!From(i) = SubSeq(Line, i + 1, Len(Line))
  BY DEF E!Before, E!From, Line

\* The index the code finds from rows and columns is that of the cursor in the line.
LEMMA IndexAfter ==
    ASSUME LineFits, EditInv', keyboard_input_on'
    PROVE  CurrentIndex' = Cursor' - Begin'
  <1> DEFINE n == buffer_index'
  <1>1. row' \in Int /\ col' \in Int /\ start_row' \in Int /\ start_col' \in Int /\ n \in Nat /\ n < BYTE
    BY KeyboardAssumption DEF EditInv, OnScreen, LineFits
  <1>2. start_row' * COLUMN + start_col' <= row' * COLUMN + col'
        /\ row' * COLUMN + col' <= start_row' * COLUMN + start_col' + n
    BY DEF EditInv, Begin, Cursor
  <1> HIDE DEF n
  <1>3. (col' - start_col' + (row' - start_row') * COLUMN) % BYTE
          = (row' * COLUMN + col') - (start_row' * COLUMN + start_col')
    BY <1>1, <1>2, IndexIs
  <1> QED  BY <1>3 DEF CurrentIndex, Cursor, Begin

\* A character is inserted at the cursor and the rest of the line drawn again.
LEMMA TypeStep ==
    ASSUME LineFits, EditInv, NEW key \in Letters, buffer_index < MaxLine, Room, Type(key)
    PROVE  EditInv' /\ E!Next
  <1> DEFINE i == CurrentIndex
             m == buffer_index
             c == <<key, capslock # (shift_left \/ shift_right)>>
             b == [k \in Index |-> IF k = i THEN c
                                   ELSE IF k > i /\ k <= m THEN keyboard_buffer[k - 1]
                                   ELSE keyboard_buffer[k]]
             n == (m + 1) % BYTE
             put == Puts(Display, Rest(b, i, n - i))
  <1>1. /\ keyboard_input_on /\ keyboard_buffer' = b /\ buffer_index' = n
        /\ screen' = put.screen /\ start_row' = put.start_row
        /\ col' = IF col = COLUMN - 1 THEN 0 ELSE col + 1
        /\ row' = IF col = COLUMN - 1 THEN row + 1 ELSE row
        /\ start_col' = start_col /\ pc' = pc /\ keyboard_input_on' = keyboard_input_on
        /\ capslock' = capslock /\ shift_left' = shift_left /\ shift_right' = shift_right
    BY DEF Type, Listening, state, mods, call
  <1>2. /\ row \in Nat /\ col \in 0 .. COLUMN - 1 /\ start_row \in Nat /\ start_col \in 0 .. COLUMN - 1
        /\ m \in 0 .. MaxLine /\ MaxLine \in Nat /\ ROW * COLUMN \in Nat
        /\ Cursor \in Nat /\ Begin \in Nat
        /\ i = Cursor - Begin /\ i \in 0 .. m /\ m < KEYBOARD_BUFFER_SIZE
    BY <1>1, Numbers
  <1>3. m + 1 \in 0 .. MaxLine /\ MaxLine < BYTE /\ MaxLine < KEYBOARD_BUFFER_SIZE
    BY <1>2 DEF LineFits
  <1>4. n = m + 1
    <2>1. \A x \in 0 .. MaxLine : x % BYTE = x
      BY <1>2, <1>3, KeyboardAssumption
    <2> QED  BY <1>3, <2>1
  <1>5. Begin + m + 1 < ROW * COLUMN
    BY DEF Room, Begin
  <1>6. c \in Chars
    BY DEF Chars, EditInv, OnScreen
  <1>7. /\ \A k \in Index : k \in Nat /\ k < KEYBOARD_BUFFER_SIZE
        /\ \A k \in Nat : k < KEYBOARD_BUFFER_SIZE => k \in Index
    BY KeyboardAssumption DEF Index
  <1>8. Holds(b, n)
    <2>1. \A k \in Index : IF k < m THEN keyboard_buffer[k] \in Chars ELSE keyboard_buffer[k] = NUL
      BY <1>1 DEF EditInv, Holds
    <2>2. ASSUME NEW k \in Index PROVE IF k < n THEN b[k] \in Chars ELSE b[k] = NUL
      <3>1. CASE k = i
        BY <1>2, <1>4, <1>6, <1>7, <3>1
      <3>2. CASE k < i
        BY <1>2, <1>4, <1>7, <2>1, <3>2
      <3>3. CASE k > i /\ k <= m
        <4>1. k - 1 \in Nat /\ k - 1 < m
          BY <1>2, <1>7, <3>3
        <4>2. b[k] = keyboard_buffer[k - 1]
          BY <1>2, <1>7, <3>3
        <4>3. k < n
          BY <1>2, <1>4, <1>7, <3>3
        <4>4. k - 1 \in Index
          BY <1>2, <1>7, <4>1, KeyboardAssumption
        <4>5. keyboard_buffer[k - 1] \in Chars
          BY <2>1, <4>1, <4>4
        <4> HIDE DEF b, n
        <4> QED  BY <4>2, <4>3, <4>5
      <3>4. CASE k > m
        BY <1>2, <1>4, <1>7, <2>1, <3>4
      <3> HIDE DEF b, c, n, i, m
      <3>5. k \in Int /\ i \in Int /\ m \in Int
        BY <1>2, <1>7
      <3>6. k = i \/ k < i \/ (k > i /\ k <= m) \/ k > m
        BY <3>5
      <3> QED  BY <3>1, <3>2, <3>3, <3>4, <3>6, Zenon
    <2> QED  BY <2>2 DEF Holds
  <1>9. b = [k \in Index |-> b[k]]
    OBVIOUS
  <1>10. /\ \A k \in Index : k < i => b[k] = keyboard_buffer[k]
         /\ i \in Index /\ b[i] = c
         /\ \A k \in Index : k > i /\ k <= m => k - 1 \in Index /\ b[k] = keyboard_buffer[k - 1]
    <2>1. i \in Nat /\ i < KEYBOARD_BUFFER_SIZE
      BY <1>2, KeyboardAssumption
    <2>2. ASSUME NEW k \in Index, k > i, k <= m PROVE k - 1 \in Index
      <3>1. k - 1 \in Nat /\ k - 1 < KEYBOARD_BUFFER_SIZE
        BY <1>2, <1>7, <2>2, KeyboardAssumption
      <3> QED  BY <1>7, <3>1
    <2> QED  BY <1>2, <1>7, <2>1, <2>2
  <1> HIDE DEF b, c, n, i
  <1>11. put = Showing(Drawn(screen, Cursor, n - i, b, i), Cursor + (n - i), start_row)
    <2>1. Display = Showing(screen, Cursor, start_row)
      BY <1>2, ShowingIs DEF Display, Cursor
    <2>2. IsOver(screen, Cell)
      BY DEF EditInv, OnScreen, IsOver
    <2>3. i \in Nat /\ n - i \in Nat /\ i + (n - i) <= KEYBOARD_BUFFER_SIZE
          /\ Cursor + (n - i) < ROW * COLUMN
      BY <1>2, <1>3, <1>4, <1>5, KeyboardAssumption
    <2>4. \A k \in Index : k >= i /\ k < i + (n - i) => b[k] \in Chars
      <3> SUFFICES ASSUME NEW k \in Index, k < i + (n - i) PROVE b[k] \in Chars
        OBVIOUS
      <3>1. k < n
        BY <1>2, <1>4, <1>7
      <3> QED  BY <1>8, <3>1 DEF Holds
    <2> DEFINE w == n - i
    <2>5. w \in Nat /\ i + w <= KEYBOARD_BUFFER_SIZE /\ Cursor + w < ROW * COLUMN
          /\ Typed(b, i, w)
      BY <2>3, <2>4 DEF Typed
    <2> HIDE DEF w
    <2>6. Puts(Showing(screen, Cursor, start_row), Rest(b, i, w))
            = Showing(Drawn(screen, Cursor, w, b, i), Cursor + w, start_row)
      <3>1. Cursor \in Nat /\ i \in Nat
        BY <1>2
      <3> QED  BY <2>2, <2>5, <3>1, RestDrawn
    <2> QED  BY <2>1, <2>6 DEF w
  <1>12. screen' = Drawn(screen, Cursor, n - i, b, i) /\ start_row' = start_row
    BY <1>1, <1>11 DEF Showing
  <1>13. col' \in 0 .. COLUMN - 1 /\ row' \in Int /\ row' * COLUMN + col' = Cursor + 1
    BY <1>1, <1>2, StepOn DEF Cursor
  <1>14. row' \in 0 .. ROW - 1
    <2>1. Cursor + 1 < ROW * COLUMN /\ Cursor + 1 >= 0
      BY <1>2, <1>5
    <2> QED  BY <1>13, <2>1, RowOnScreen
  <1>15. Begin' = Begin /\ Cursor' = Cursor + 1
    BY <1>1, <1>12, <1>13 DEF Begin, Cursor
  <1>16. ASSUME NEW k \in 0 .. n - 1 PROVE screen'[start_row' * COLUMN + start_col' + k] = b[k]
    <2> DEFINE x == Begin + k
    <2>1. start_row' * COLUMN + start_col' + k = x
      BY <1>15 DEF Begin
    <2>2. x \in Cell /\ x \in Nat
      BY <1>2, <1>4, <1>5 DEF Cell
    <2>3. screen'[x] = IF x >= Cursor /\ x < Cursor + (n - i) THEN b[x - Cursor + i] ELSE screen[x]
      BY <1>12, <2>2 DEF Drawn
    <2>4. k \in Index /\ k \in Nat
      <3>1. k \in Nat /\ k < KEYBOARD_BUFFER_SIZE
        BY <1>2, <1>3, <1>4, KeyboardAssumption
      <3> QED  BY <1>7, <3>1
    <2>5. CASE k < i
      <3>1. ~(x >= Cursor) /\ k \in 0 .. m - 1
        BY <1>2, <2>4, <2>5
      <3>2. screen[x] = keyboard_buffer[k]
        BY <1>1, <3>1 DEF EditInv, ScreenShowsLine, Begin
      <3> HIDE DEF x
      <3> QED  BY <1>10, <2>1, <2>3, <2>4, <2>5, <3>1, <3>2
    <2>6. CASE k >= i
      <3>1. x >= Cursor /\ x < Cursor + (n - i) /\ x - Cursor + i = k
        BY <1>2, <1>4, <2>4, <2>6
      <3> HIDE DEF x
      <3> QED  BY <2>1, <2>3, <3>1
    <2> QED  BY <1>2, <2>4, <2>5, <2>6
  <1>17. EditInv'
    <2>1. Begin' <= Cursor' /\ Cursor' <= Begin' + buffer_index' /\ Begin' + buffer_index' < ROW * COLUMN
      BY <1>1, <1>2, <1>4, <1>5, <1>15
    <2>2. Holds(keyboard_buffer, buffer_index)' /\ ScreenShowsLine'
      BY <1>1, <1>8, <1>16 DEF Holds, ScreenShowsLine
    <2>3. screen' = [k \in Cell |-> screen'[k]]
      BY <1>12 DEF Drawn
    <2>4. OnScreen'
      BY <1>1, <1>9, <1>13, <1>14, <2>3 DEF EditInv, OnScreen
    <2>5. pc' \in {"line", "armed", "waiting"} /\ start_row' \in Nat /\ start_col' \in 0 .. COLUMN - 1
          /\ buffer_index' \in 0 .. MaxLine
      BY <1>1, <1>2, <1>3, <1>4, <1>12 DEF EditInv
    <2> QED  BY <2>1, <2>2, <2>4, <2>5 DEF EditInv
  <1>18. CurrentIndex' = i + 1
    <2>1. CurrentIndex' = Cursor' - Begin'
      BY <1>1, <1>17, IndexAfter
    <2> QED  BY <1>2, <1>15, <2>1
  <1>19. Line' = SubSeq(Line, 1, i) \o <<c>> \o SubSeq(Line, i + 1, Len(Line))
    <2>1. Line' = [k \in 1 .. m + 1 |-> b[k - 1]]
      BY <1>1, <1>4 DEF Line
    <2>2. SubSeq(Line, 1, i) \o <<c>> \o SubSeq(Line, i + 1, Len(Line))
            = With(Line, m, i, c)
      <3>1. IsOver(Line, 1 .. m)
        BY DEF Line, IsOver
      <3>2. m \in Nat /\ i \in 0 .. m
        BY <1>2
      <3> HIDE DEF m
      <3> QED  BY <3>1, <3>2, Inserted
    <2>3. ASSUME NEW k \in 1 .. m + 1
          PROVE  b[k - 1] = IF k <= i THEN Line[k] ELSE IF k = i + 1 THEN c ELSE Line[k - 1]
      <3>1. k - 1 \in Index /\ k \in Nat /\ i \in Nat
        <4>1. k - 1 \in Nat /\ k - 1 < KEYBOARD_BUFFER_SIZE
          BY <1>2, <1>3, KeyboardAssumption
        <4> QED  BY <1>2, <1>7, <4>1
      <3>2. CASE k <= i
        <4>1. Line[k] = keyboard_buffer[k - 1] /\ k - 1 < i
          BY <1>2, <3>1, <3>2 DEF Line
        <4> QED  BY <1>10, <3>1, <3>2, <4>1
      <3>3. CASE k = i + 1
        BY <1>10, <3>1, <3>3
      <3>4. CASE k > i + 1
        <4>1. Line[k - 1] = keyboard_buffer[k - 1 - 1] /\ k - 1 > i /\ k - 1 <= m
          BY <1>2, <3>1, <3>4 DEF Line
        <4> QED  BY <1>10, <3>1, <3>4, <4>1
      <3> QED  BY <3>1, <3>2, <3>3, <3>4
    <2> QED  BY <2>1, <2>2, <2>3 DEF With
  <1>20. PICK v \in Chars : v = c
    BY <1>6
  <1>21. E!Insert(v)
    <2>1. E!Before(i) = SubSeq(Line, 1, i) /\ E!From(i) = SubSeq(Line, i + 1, Len(Line))
      BY <1>1, Around
    <2>2. (IF keyboard_input_on THEN CurrentIndex ELSE 0) = i
      BY <1>1 DEF i
    <2>3. Line' = E!Before(i) \o <<v>> \o E!From(i)
      BY <1>19, <1>20, <2>1
    <2> QED  BY <1>1, <1>18, <2>2, <2>3 DEF E!Insert, E!Edit, Line
  <1> QED  BY <1>17, <1>21 DEF E!Next

\* where backspace goes from display d
Back(d) == IF d.col = 0 THEN [d EXCEPT !.row = @ - 1, !.col = COLUMN - 1]
           ELSE [d EXCEPT !.col = @ - 1]

\* One cell back.
LEMMA OneBack ==
    ASSUME NEW f, NEW start, NEW r \in Nat, NEW q \in 0 .. COLUMN - 1, NEW x \in Nat, x > 0,
           r * COLUMN + q = x, x < ROW * COLUMN
    PROVE  LET back == Back([screen |-> f, row |-> r, col |-> q, start_row |-> start])
           IN  /\ back = Showing(f, x - 1, start)
               /\ back.row \in 0 .. ROW - 1 /\ back.col \in 0 .. COLUMN - 1
               /\ back.row * COLUMN + back.col = x - 1
  <1> DEFINE p == IF q = 0 THEN r - 1 ELSE r
             c == IF q = 0 THEN COLUMN - 1 ELSE q - 1
             d == [screen |-> f, row |-> r, col |-> q, start_row |-> start]
             e == [screen |-> f, row |-> p, col |-> c, start_row |-> start]
  <1>1. Back(d) = e
    BY KeyboardAssumption DEF Back
  <1>2. c \in 0 .. COLUMN - 1 /\ p \in Int /\ p * COLUMN + c = x - 1
    <2>1. r \in Int
      OBVIOUS
    <2>2. CASE q = 0
      <3>1. p = r - 1 /\ c = COLUMN - 1
        BY <2>2
      <3>2. (r - 1) * COLUMN + (COLUMN - 1) = r * COLUMN + q - 1 /\ COLUMN - 1 \in 0 .. COLUMN - 1
        BY <2>1, <2>2, StepOn
      <3> HIDE DEF p, c
      <3>3. p * COLUMN + c = (r - 1) * COLUMN + (COLUMN - 1)
        BY <3>1
      <3>4. p \in Int /\ c \in 0 .. COLUMN - 1
        BY <2>1, <3>1, <3>2
      <3>5. (r - 1) * COLUMN + (COLUMN - 1) = x - 1
        BY <3>2, KeyboardAssumption
      <3> QED  BY <3>3, <3>4, <3>5
    <2>3. CASE q # 0
      <3>1. p = r /\ c = q - 1
        BY <2>3
      <3>2. r * COLUMN + (q - 1) = r * COLUMN + q - 1 /\ q - 1 \in 0 .. COLUMN - 1
        BY <2>1, <2>3, StepOn
      <3> HIDE DEF p, c
      <3>3. p * COLUMN + c = r * COLUMN + (q - 1)
        BY <3>1
      <3>4. p \in Int /\ c \in 0 .. COLUMN - 1
        BY <2>1, <3>1, <3>2
      <3>5. r * COLUMN + (q - 1) = x - 1
        BY <3>2, KeyboardAssumption
      <3> QED  BY <3>3, <3>4, <3>5
    <2> QED  BY <2>2, <2>3
  <1>3. x - 1 \in Nat /\ x - 1 < ROW * COLUMN
    BY KeyboardAssumption
  <1> HIDE DEF p, c
  <1>4. p \in 0 .. ROW - 1
    BY <1>2, <1>3, RowOnScreen
  <1>5. e = Showing(f, x - 1, start)
    <2>1. p \in Nat
      BY <1>4
    <2> QED  BY <1>2, <1>3, <2>1, ShowingIs
  <1>6. e.row = p /\ e.col = c
    OBVIOUS
  <1> HIDE DEF d, e
  <1> QED  BY <1>1, <1>2, <1>4, <1>5, <1>6 DEF d

\* A character is taken out before the cursor and the rest of the line drawn again.
LEMMA BackspaceStep ==
    ASSUME LineFits, EditInv, BackspaceKey
    PROVE  EditInv' /\ E!Next
  <1> DEFINE i     == CurrentIndex
             m     == buffer_index
             moved == [k \in Index |-> IF k >= i - 1 /\ k < m - 1
                                       THEN keyboard_buffer[k + 1] ELSE keyboard_buffer[k]]
             b     == [moved EXCEPT ![m - 1] = NUL]
             back  == IF col = 0 THEN [Display EXCEPT !.row = @ - 1, !.col = COLUMN - 1]
                      ELSE [Display EXCEPT !.col = @ - 1]
             at    == IF back.row < 0 THEN [back EXCEPT !.row = 0, !.col = 0] ELSE back
             put   == Puts(at, Rest(b, i - 1, m - i))
  <1>1. /\ keyboard_input_on /\ keyboard_buffer' = b /\ buffer_index' = (m - 1) % BYTE /\ i > 0
        /\ screen' = Draw(put.screen, put.start_row, start_col + m - 1, Blank)
        /\ start_row' = put.start_row /\ row' = at.row /\ col' = at.col
        /\ start_col' = start_col /\ pc' = pc /\ keyboard_input_on' = keyboard_input_on
        /\ capslock' = capslock /\ shift_left' = shift_left /\ shift_right' = shift_right
    BY DEF BackspaceKey, Listening, state, mods, call
  <1>2. /\ row \in Nat /\ col \in 0 .. COLUMN - 1 /\ start_row \in Nat /\ start_col \in 0 .. COLUMN - 1
        /\ m \in 0 .. MaxLine /\ MaxLine \in Nat /\ ROW * COLUMN \in Nat /\ m < BYTE
        /\ Cursor \in Nat /\ Begin \in Nat /\ Cursor < ROW * COLUMN
        /\ i = Cursor - Begin /\ i \in 1 .. m /\ m < KEYBOARD_BUFFER_SIZE
    BY <1>1, Numbers
  <1>3. Begin + m < ROW * COLUMN
    BY <1>1 DEF EditInv
  <1>4. (m - 1) % BYTE = m - 1 /\ m - 1 \in Nat
    <2>1. m - 1 \in Nat /\ m - 1 < BYTE
      BY <1>2, KeyboardAssumption
    <2>2. \A x \in Nat : x < BYTE => x % BYTE = x
      BY KeyboardAssumption
    <2> QED  BY <2>1, <2>2
  <1>7. /\ \A k \in Index : k \in Nat /\ k < KEYBOARD_BUFFER_SIZE
        /\ \A k \in Nat : k < KEYBOARD_BUFFER_SIZE => k \in Index
    BY KeyboardAssumption DEF Index
  <1>8. m - 1 \in Index
    BY <1>2, <1>4, <1>7, KeyboardAssumption
  <1>9. /\ \A k \in Index : k < i - 1 => b[k] = keyboard_buffer[k]
        /\ \A k \in Index : k >= i - 1 /\ k < m - 1 => b[k] = keyboard_buffer[k + 1]
        /\ b[m - 1] = NUL
        /\ \A k \in Index : k > m - 1 => b[k] = keyboard_buffer[k]
    <2>1. \A k \in Index : b[k] = IF k = m - 1 THEN NUL ELSE moved[k]
      BY <1>8
    <2>2. \A k \in Index : moved[k] = IF k >= i - 1 /\ k < m - 1
                                      THEN keyboard_buffer[k + 1] ELSE keyboard_buffer[k]
      OBVIOUS
    <2> HIDE DEF b, moved, i, m
    <2> QED  BY <1>2, <1>7, <1>8, <2>1, <2>2
  <1>10. b = [k \in Index |-> b[k]]
    OBVIOUS
  <1> HIDE DEF b, i, m
  <1>11. Holds(b, m - 1)
    <2>1. \A k \in Index : IF k < m THEN keyboard_buffer[k] \in Chars ELSE keyboard_buffer[k] = NUL
      BY <1>1 DEF EditInv, Holds, m
    <2>2. ASSUME NEW k \in Index PROVE IF k < m - 1 THEN b[k] \in Chars ELSE b[k] = NUL
      <3>0. k \in Nat /\ i \in Nat /\ m \in Nat /\ i <= m /\ k < KEYBOARD_BUFFER_SIZE
        BY <1>2, <1>7
      <3>1. CASE k < i - 1
        <4>1. k < m /\ k < m - 1 /\ b[k] = keyboard_buffer[k]
          BY <1>9, <3>0, <3>1
        <4> QED  BY <2>1, <4>1
      <3>2. CASE k >= i - 1 /\ k < m - 1
        <4>1. k + 1 \in Nat /\ k + 1 < KEYBOARD_BUFFER_SIZE /\ k + 1 < m
          BY <1>2, <3>0, <3>2, KeyboardAssumption
        <4>2. k + 1 \in Index /\ b[k] = keyboard_buffer[k + 1]
          BY <1>7, <1>9, <3>2, <4>1
        <4> QED  BY <2>1, <3>2, <4>1, <4>2
      <3>3. CASE k = m - 1
        BY <1>9, <3>3, <3>0
      <3>4. CASE k > m - 1
        <4>1. ~(k < m) /\ ~(k < m - 1) /\ b[k] = keyboard_buffer[k]
          BY <1>9, <3>0, <3>4
        <4> QED  BY <2>1, <4>1
      <3> QED  BY <3>0, <3>1, <3>2, <3>3, <3>4
    <2> QED  BY <2>2 DEF Holds
  <1>12. /\ at = Showing(screen, Cursor - 1, start_row)
         /\ at.row \in 0 .. ROW - 1 /\ at.col \in 0 .. COLUMN - 1
         /\ at.row * COLUMN + at.col = Cursor - 1
    <2>1. /\ back = Showing(screen, Cursor - 1, start_row)
          /\ back.row \in 0 .. ROW - 1 /\ back.col \in 0 .. COLUMN - 1
          /\ back.row * COLUMN + back.col = Cursor - 1
      <3>1. Cursor > 0 /\ row * COLUMN + col = Cursor
        BY <1>2 DEF Cursor
      <3>2. Display = [screen |-> screen, row |-> row, col |-> col, start_row |-> start_row]
        BY DEF Display
      <3>3. back = Back(Display)
        BY DEF Back, Display
      <3> HIDE DEF back
      <3> QED  BY <1>2, <3>1, <3>2, <3>3, OneBack
    <2>2. ~(back.row < 0)
      BY <2>1, KeyboardAssumption
    <2> HIDE DEF back
    <2> QED  BY <2>1, <2>2
  <1> HIDE DEF at
  <1>13. put = Showing(Drawn(screen, Cursor - 1, m - i, b, i - 1), (Cursor - 1) + (m - i), start_row)
    <2> DEFINE w == m - i
               x == Cursor - 1
               j == i - 1
    <2>1. IsOver(screen, Cell)
      BY DEF EditInv, OnScreen, IsOver
    <2>2. x \in Nat /\ j \in Nat /\ w \in Nat /\ j + w <= KEYBOARD_BUFFER_SIZE
      BY <1>2, KeyboardAssumption
    <2>3. x + w < ROW * COLUMN
      BY <1>2, <1>3
    <2>4. Typed(b, j, w)
      <3> SUFFICES ASSUME NEW k \in Index, k < j + w PROVE b[k] \in Chars
        BY DEF Typed
      <3>1. k < m - 1
        BY <1>2, <1>7
      <3> QED  BY <1>11, <3>1 DEF Holds
    <2> HIDE DEF w, x, j
    <2>5. Puts(Showing(screen, x, start_row), Rest(b, j, w))
            = Showing(Drawn(screen, x, w, b, j), x + w, start_row)
      BY <2>1, <2>2, <2>3, <2>4, RestDrawn
    <2> QED  BY <1>12, <2>5 DEF w, x, j
  <1>14. /\ start_row' = start_row
         /\ \A x \in Cell : screen'[x] = IF x = Begin + (m - 1) THEN Blank
                                         ELSE Drawn(screen, Cursor - 1, m - i, b, i - 1)[x]
         /\ screen' = [k \in Cell |-> screen'[k]]
    <2> DEFINE g == Drawn(screen, Cursor - 1, m - i, b, i - 1)
    <2>1. put.start_row = start_row /\ put.screen = g
      BY <1>13 DEF Showing
    <2>2. start_row * COLUMN + (start_col + m - 1) = Begin + (m - 1)
      BY <1>2, KeyboardAssumption DEF Begin
    <2> HIDE DEF g, put
    <2>3. screen' = [k \in Cell |-> IF k = Begin + (m - 1) THEN Blank ELSE g[k]]
      BY <1>1, <2>1, <2>2 DEF Draw, m
    <2>4. start_row' = start_row
      BY <1>1, <2>1
    <2> QED  BY <2>3, <2>4 DEF g
  <1>15. Begin' = Begin /\ Cursor' = Cursor - 1
    BY <1>1, <1>12, <1>14 DEF Begin, Cursor
  <1>16. ASSUME NEW k \in 0 .. m - 1 - 1
         PROVE  screen'[start_row' * COLUMN + start_col' + k] = b[k]
    <2> DEFINE x == Begin + k
    <2>1. start_row' * COLUMN + start_col' + k = x
      BY <1>15 DEF Begin
    <2>2. x \in Cell /\ x \in Nat /\ x # Begin + (m - 1)
      BY <1>2, <1>3 DEF Cell
    <2>3. screen'[x] = IF x >= Cursor - 1 /\ x < (Cursor - 1) + (m - i)
                       THEN b[x - (Cursor - 1) + (i - 1)] ELSE screen[x]
      BY <1>14, <2>2 DEF Drawn
    <2>4. k \in Index /\ k \in Nat /\ i \in Nat /\ m \in Nat
      <3>1. k \in Nat /\ k < KEYBOARD_BUFFER_SIZE
        BY <1>2, KeyboardAssumption
      <3> QED  BY <1>2, <1>7, <3>1
    <2>5. CASE k < i - 1
      <3>1. ~(x >= Cursor - 1) /\ k \in 0 .. m - 1
        BY <1>2, <2>4, <2>5
      <3>2. screen[x] = keyboard_buffer[k]
        BY <1>1, <3>1 DEF EditInv, ScreenShowsLine, Begin, m
      <3> HIDE DEF x
      <3> QED  BY <1>9, <2>1, <2>3, <2>4, <2>5, <3>1, <3>2
    <2>6. CASE k >= i - 1
      <3>1. x >= Cursor - 1 /\ x < (Cursor - 1) + (m - i) /\ x - (Cursor - 1) + (i - 1) = k
        BY <1>2, <2>4, <2>6
      <3> HIDE DEF x
      <3> QED  BY <2>1, <2>3, <3>1
    <2> QED  BY <2>4, <2>5, <2>6
  <1>17. EditInv'
    <2>1. Begin' <= Cursor' /\ Cursor' <= Begin' + buffer_index' /\ Begin' + buffer_index' < ROW * COLUMN
      BY <1>1, <1>2, <1>3, <1>4, <1>15
    <2>2. Holds(keyboard_buffer, buffer_index)' /\ ScreenShowsLine'
      BY <1>1, <1>4, <1>11, <1>16 DEF Holds, ScreenShowsLine
    <2>3. OnScreen'
      BY <1>1, <1>10, <1>12, <1>14 DEF EditInv, OnScreen
    <2>4. pc' \in {"line", "armed", "waiting"} /\ start_row' \in Nat /\ start_col' \in 0 .. COLUMN - 1
          /\ buffer_index' \in 0 .. MaxLine
      BY <1>1, <1>2, <1>4, <1>14 DEF EditInv
    <2> QED  BY <2>1, <2>2, <2>3, <2>4 DEF EditInv
  <1>18. CurrentIndex' = i - 1
    <2>1. CurrentIndex' = Cursor' - Begin'
      BY <1>1, <1>17, IndexAfter
    <2> QED  BY <1>2, <1>15, <2>1
  <1>19. Line' = SubSeq(Line, 1, i - 1) \o SubSeq(Line, i + 1, Len(Line))
    <2>1. Line' = [k \in 1 .. m - 1 |-> b[k - 1]]
      BY <1>1, <1>4 DEF Line
    <2>2. SubSeq(Line, 1, i - 1) \o SubSeq(Line, i + 1, Len(Line)) = Without(Line, m, i)
      <3>1. IsOver(Line, 1 .. m)
        BY DEF Line, IsOver, m
      <3>2. m \in Nat /\ i \in 1 .. m
        BY <1>2
      <3> QED  BY <3>1, <3>2, Removed
    <2>3. ASSUME NEW k \in 1 .. m - 1
          PROVE  b[k - 1] = IF k < i THEN Line[k] ELSE Line[k + 1]
      <3>1. k \in Nat /\ i \in Nat /\ m \in Nat /\ k - 1 < m - 1
        BY <1>2
      <3>2. k - 1 \in Index
        <4>1. k - 1 \in Nat /\ k - 1 < KEYBOARD_BUFFER_SIZE
          BY <1>2, KeyboardAssumption
        <4> QED  BY <1>7, <4>1
      <3>3. Line[k] = keyboard_buffer[k - 1] /\ Line[k + 1] = keyboard_buffer[k]
        BY <1>2 DEF Line, m
      <3>4. (k - 1) + 1 = k
        BY <3>1
      <3>5. CASE k < i
        BY <1>9, <3>1, <3>2, <3>3, <3>5
      <3>6. CASE k >= i
        BY <1>9, <3>1, <3>2, <3>3, <3>4, <3>6
      <3> QED  BY <3>1, <3>5, <3>6
    <2> QED  BY <2>1, <2>2, <2>3 DEF Without
  <1>20. E!Backspace
    <2>1. E!Before(i - 1) = SubSeq(Line, 1, i - 1) /\ E!From(i) = SubSeq(Line, i + 1, Len(Line))
      BY <1>1, Around
    <2>2. (IF keyboard_input_on THEN CurrentIndex ELSE 0) = i
      BY <1>1 DEF i
    <2>3. Line' = E!Before(i - 1) \o E!From(i)
      BY <1>19, <2>1
    <2> QED  BY <1>1, <1>18, <2>2, <2>3 DEF E!Backspace, E!Edit, Line
  <1> QED  BY <1>17, <1>20 DEF E!Next


\* The arrows move the cursor within the line, over the edges of the screen.
LEMMA ArrowStep ==
    ASSUME LineFits, EditInv, LeftArrow \/ RightArrow
    PROVE  EditInv' /\ E!Next
  <1> DEFINE i == CurrentIndex
             m == buffer_index
  <1>1. /\ keyboard_input_on /\ keyboard_buffer' = keyboard_buffer /\ buffer_index' = buffer_index
        /\ screen' = screen /\ start_row' = start_row /\ start_col' = start_col /\ pc' = pc
        /\ keyboard_input_on' = keyboard_input_on
        /\ capslock' = capslock /\ shift_left' = shift_left /\ shift_right' = shift_right
    BY DEF LeftArrow, RightArrow, Listening, state, mods, line, call
  <1>2. /\ row \in Int /\ col \in 0 .. COLUMN - 1 /\ start_row \in Nat /\ start_col \in 0 .. COLUMN - 1
        /\ m \in Nat /\ ROW * COLUMN \in Nat
        /\ Cursor \in Nat /\ Begin \in Nat /\ Cursor < ROW * COLUMN
        /\ i = Cursor - Begin /\ i \in 0 .. m
    BY <1>1, Numbers
  <1>3. Begin + m < ROW * COLUMN
    BY <1>1 DEF EditInv
  <1>4. /\ col' \in 0 .. COLUMN - 1 /\ row' \in Int
        /\ LeftArrow => i # 0 /\ row' * COLUMN + col' = Cursor - 1
        /\ ~LeftArrow => i # m /\ row' * COLUMN + col' = Cursor + 1
    <2>1. CASE LeftArrow
      <3>1. /\ i # 0 /\ col' = (IF col = 0 THEN COLUMN - 1 ELSE col - 1)
            /\ row' = IF col = 0 THEN row - 1 ELSE row
        BY <2>1 DEF LeftArrow
      <3> HIDE DEF i
      <3>2. /\ col # 0 => col - 1 \in 0 .. COLUMN - 1 /\ row * COLUMN + (col - 1) = Cursor - 1
            /\ col = 0 => (row - 1) * COLUMN + (COLUMN - 1) = Cursor - 1
            /\ COLUMN - 1 \in 0 .. COLUMN - 1
        BY <1>2, StepOn, KeyboardAssumption DEF Cursor
      <3>3. CASE col = 0
        <4>1. row' = row - 1 /\ col' = COLUMN - 1
          BY <3>1, <3>3
        <4> QED  BY <1>2, <2>1, <3>1, <3>2, <3>3, <4>1
      <3>4. CASE col # 0
        <4>1. row' = row /\ col' = col - 1
          BY <3>1, <3>4
        <4> QED  BY <1>2, <2>1, <3>1, <3>2, <3>4, <4>1
      <3> QED  BY <3>3, <3>4
    <2>2. CASE ~LeftArrow
      <3>1. /\ i # m /\ col' = (IF col = COLUMN - 1 THEN 0 ELSE col + 1)
            /\ row' = IF col = COLUMN - 1 THEN row + 1 ELSE row
        BY <2>2 DEF RightArrow
      <3> HIDE DEF i
      <3> QED  BY <1>2, <2>2, <3>1, StepOn DEF Cursor
    <2> QED  BY <2>1, <2>2
  <1>5. Begin' = Begin /\ Cursor' = row' * COLUMN + col'
    BY <1>1 DEF Begin, Cursor
  <1> HIDE DEF i, m
  <1>6. Begin <= Cursor' /\ Cursor' <= Begin + m /\ Cursor' \in Nat
    BY <1>2, <1>4, <1>5
  <1>7. row' \in 0 .. ROW - 1
    <2>1. row' * COLUMN + col' < ROW * COLUMN /\ row' * COLUMN + col' >= 0
      BY <1>2, <1>3, <1>5, <1>6
    <2> QED  BY <1>4, <2>1, RowOnScreen
  <1>8. EditInv'
    <2>1. OnScreen'
      BY <1>1, <1>4, <1>7 DEF EditInv, OnScreen
    <2>2. Holds(keyboard_buffer, buffer_index)' /\ ScreenShowsLine'
      BY <1>1 DEF EditInv, Holds, ScreenShowsLine
    <2>3. Begin' <= Cursor' /\ Cursor' <= Begin' + buffer_index' /\ Begin' + buffer_index' < ROW * COLUMN
      BY <1>1, <1>3, <1>5, <1>6 DEF m
    <2> QED  BY <1>1, <2>1, <2>2, <2>3 DEF EditInv
  <1>9. CurrentIndex' = Cursor' - Begin
    BY <1>1, <1>5, <1>8, IndexAfter
  <1>10. Line' = Line /\ Len(Line) = m /\ (IF keyboard_input_on THEN CurrentIndex ELSE 0) = i
    BY <1>1, <1>2 DEF Line, i, m
  <1>11. CASE LeftArrow
    <2>1. i > 0 /\ CurrentIndex' = i - 1
      BY <1>2, <1>4, <1>5, <1>9, <1>11
    <2>2. E!Left
      BY <1>1, <1>10, <2>1 DEF E!Left, E!Edit, Line
    <2> QED  BY <1>8, <2>2 DEF E!Next
  <1>12. CASE ~LeftArrow
    <2>1. i < Len(Line) /\ CurrentIndex' = i + 1
      BY <1>2, <1>4, <1>5, <1>9, <1>10, <1>12
    <2>2. E!Right
      BY <1>1, <1>10, <2>1 DEF E!Right, E!Edit, Line
    <2> QED  BY <1>8, <2>2 DEF E!Next
  <1> QED  BY <1>11, <1>12


\* A line that is submitted is the one that was edited, with its end in a text.
LEMMA EndStep ==
    ASSUME LineFits, EditInv, EnterKey \/ Abort
    PROVE  EditInv' /\ E!Next
  <1> DEFINE m == buffer_index
             b == keyboard_buffer'
  <1>1. keyboard_input_on /\ keyboard_input_on' = FALSE /\ buffer_index' = m
        /\ capslock' = capslock /\ shift_left' = shift_left /\ shift_right' = shift_right
    BY DEF EnterKey, Abort, Listening, mods, line
  <1>2. m \in Nat /\ m < KEYBOARD_BUFFER_SIZE /\ m + 1 \in 0 .. KEYBOARD_BUFFER_SIZE /\ m \in Index
        /\ m \in 0 .. KEYBOARD_BUFFER_SIZE
    BY <1>1, Numbers, KeyboardAssumption DEF Index
  <1>3. keyboard_buffer = [k \in Index |-> keyboard_buffer[k]]
        /\ \A k \in Index : IF k < m THEN keyboard_buffer[k] \in Chars ELSE keyboard_buffer[k] = NUL
    BY <1>1 DEF EditInv, OnScreen, Holds
  <1>4. OnScreen'
    <2>1. CASE EnterKey
      <3> DEFINE d == [screen |-> screen, row |-> row, col |-> col, start_row |-> start_row]
                 put == Puts(Display, <<Newline>>)
      <3>1. put = PutChar(d, Newline)
        <4> QED  BY NamesDiffer, PutsOne DEF Display
      <3>2. /\ PutChar(d, Newline).row \in 0 .. ROW - 1 /\ PutChar(d, Newline).col \in 0 .. COLUMN - 1
            /\ PutChar(d, Newline).screen = [k \in Cell |-> PutChar(d, Newline).screen[k]]
        BY PutCharStays DEF EditInv, OnScreen
      <3>3. screen' = put.screen /\ row' = put.row /\ col' = put.col
        BY <2>1 DEF EnterKey
      <3>4. keyboard_buffer' = [k \in Index |-> keyboard_buffer'[k]]
        BY <1>3, <2>1 DEF EnterKey
      <3> HIDE DEF put, d
      <3> QED  BY <1>1, <3>1, <3>2, <3>3, <3>4 DEF EditInv, OnScreen
    <2>2. CASE Abort
      BY <1>1, <2>2 DEF Abort, EditInv, OnScreen, mods, line, display
    <2> QED  BY <2>1, <2>2
  <1>5. CASE keyboard_buffer' = keyboard_buffer
    <2>1. \A k \in 0 .. m - 1 : b[k] # NUL
      BY <1>2, <1>3, <1>5, CharsArePlain, KeyboardAssumption DEF Index
    <2>2. b[m] = NUL
      BY <1>2, <1>3, <1>5
    <2> HIDE DEF b, m
    <2>3. ContentsOf(b) = [k \in 1 .. m |-> b[k - 1]]
      BY <1>2, <2>1, <2>2, ContentsAre
    <2>4. Contents' = Line
      BY <1>5, <2>3 DEF Contents, Line, b, m
    <2> QED  BY <1>1, <1>4, <2>4 DEF E!Next, E!Submit, Line, EditInv
  <1>6. CASE keyboard_buffer' = [keyboard_buffer EXCEPT ![m] = Newline]
    <2>1. \A k \in 0 .. m - 1 : b[k] = keyboard_buffer[k] /\ b[k] # NUL
      BY <1>2, <1>3, <1>6, CharsArePlain, KeyboardAssumption DEF Index
    <2>2. b[m] = Newline /\ Newline # NUL
      BY <1>2, <1>3, <1>6, NamesDiffer
    <2>3. m + 1 < KEYBOARD_BUFFER_SIZE => b[m + 1] = NUL
      BY <1>2, <1>3, <1>6, KeyboardAssumption DEF Index
    <2> HIDE DEF b, m
    <2>4. ContentsOf(b) = [k \in 1 .. m + 1 |-> b[k - 1]]
      <3>1. \A k \in 0 .. (m + 1) - 1 : b[k] # NUL
        BY <1>2, <2>1, <2>2
      <3> QED  BY <1>2, <2>3, <3>1, ContentsAre
    <2>5. Append(Line, Newline) = [k \in 1 .. m + 1 |-> b[k - 1]]
      <3>1. Line = [k \in 1 .. m |-> b[k - 1]]
        BY <1>2, <2>1 DEF Line, m
      <3>2. Len(Line) = m /\ (m + 1) - 1 = m
        BY <1>2, <3>1
      <3>3. Append(Line, Newline) = [k \in 1 .. m + 1 |-> IF k <= m THEN Line[k] ELSE Newline]
        BY <1>2, <3>1, <3>2
      <3> QED  BY <1>2, <2>2, <3>1, <3>3
    <2>6. Contents' = Append(Line, Newline)
      BY <2>4, <2>5 DEF Contents, b
    <2> QED  BY <1>1, <1>4, <2>6 DEF E!Next, E!Submit, Line, EditInv
  <1> QED  BY <1>5, <1>6 DEF EnterKey, Abort, line

\* A line begins where the cursor is, with nothing in it.
LEMMA StartStep ==
    ASSUME LineFits, EditInv, ReadLine \/ TextActivate
    PROVE  EditInv' /\ E!Next
  <1>1. /\ Activate /\ pc \in {"user", "text"} /\ pc' \in {"line", "armed"}
    BY DEF ReadLine, TextActivate
  <1>2. /\ keyboard_buffer' = Empty /\ buffer_index' = 0 /\ keyboard_input_on' = TRUE
        /\ start_col' = col /\ start_row' = row /\ screen' = screen /\ row' = row /\ col' = col
        /\ capslock' = FALSE /\ shift_left' = FALSE /\ shift_right' = FALSE
    BY <1>1 DEF Activate
  <1>3. ~keyboard_input_on
    BY <1>1 DEF EditInv
  <1>4. row \in 0 .. ROW - 1 /\ col \in 0 .. COLUMN - 1 /\ screen = [k \in Cell |-> screen[k]]
    BY DEF EditInv, OnScreen
  <1>5. Begin' = Cursor /\ Cursor' = Cursor /\ Cursor \in Nat /\ Cursor < ROW * COLUMN
    <2>1. row * COLUMN <= (ROW - 1) * COLUMN
      BY <1>4, KeyboardAssumption
    <2>2. row * COLUMN + col < ROW * COLUMN /\ row * COLUMN + col \in Nat
      BY <1>4, <2>1, KeyboardAssumption
    <2> QED  BY <1>2, <2>2 DEF Begin, Cursor
  <1>6. EditInv'
    <2>1. OnScreen'
      BY <1>2, <1>4 DEF OnScreen, Empty
    <2>2. Holds(keyboard_buffer, buffer_index)' /\ ScreenShowsLine'
      BY <1>2, KeyboardAssumption DEF Holds, ScreenShowsLine, Empty, Index
    <2>3. Begin' <= Cursor' /\ Cursor' <= Begin' + buffer_index' /\ Begin' + buffer_index' < ROW * COLUMN
      BY <1>2, <1>5
    <2> QED  BY <1>1, <1>2, <1>4, <2>1, <2>2, <2>3, KeyboardAssumption DEF EditInv
  <1>7. CurrentIndex' = 0
    BY <1>2, <1>5, <1>6, IndexAfter
  <1>8. E!Start
    BY <1>2, <1>3, <1>7 DEF E!Start
  <1> QED  BY <1>6, <1>8 DEF E!Next

\* All else leaves the line alone.
LEMMA OtherStep ==
    ASSUME LineFits, EditInv,
           \/ Ignored \/ (\E key \in Modifiers, down \in BOOLEAN : Modify(key, down))
           \/ (\E c \in {Prompt, Newline} : PrintPrompt(c))
           \/ ClearScreen \/ LineRead \/ ReadText \/ TextMode \/ LineOfText \/ UNCHANGED vars
    PROVE  EditInv' /\ UNCHANGED E!vars
  <1>1. keyboard_buffer' = keyboard_buffer /\ keyboard_input_on' = keyboard_input_on
    BY DEF Ignored, Modify, PrintPrompt, ClearScreen, LineRead, ReadText, TextMode, LineOfText, vars,
           state, line
  <1>2. Contents' = Contents
    BY <1>1 DEF Contents
  <1>3. keyboard_input_on =>
           /\ buffer_index' = buffer_index /\ pc' \in {"line", "armed", "waiting"}
           /\ UNCHANGED display
    BY DEF Ignored, Modify, PrintPrompt, ClearScreen, LineRead, ReadText, TextMode, LineOfText, vars,
           EditInv, line, display, call, Listening
  <1>4. capslock' \in BOOLEAN /\ shift_left' \in BOOLEAN /\ shift_right' \in BOOLEAN
    BY DEF Ignored, Modify, PrintPrompt, ClearScreen, LineRead, ReadText, TextMode, LineOfText, vars,
           EditInv, OnScreen, mods
  <1>5. row' \in 0 .. ROW - 1 /\ col' \in 0 .. COLUMN - 1 /\ screen' = [k \in Cell |-> screen'[k]]
    <2>1. CASE \E c \in {Prompt, Newline} : PrintPrompt(c)
      <3> PICK c \in {Prompt, Newline} : PrintPrompt(c)
        BY <2>1
      <3> DEFINE d == [screen |-> screen, row |-> row, col |-> col, start_row |-> start_row]
                 put == Puts(Display, <<c>>)
      <3>1. put = PutChar(d, c)
        <4>1. c # NUL
          BY NamesDiffer
        <4> QED  BY <4>1, PutsOne DEF Display
      <3>2. /\ PutChar(d, c).row \in 0 .. ROW - 1 /\ PutChar(d, c).col \in 0 .. COLUMN - 1
            /\ PutChar(d, c).screen = [k \in Cell |-> PutChar(d, c).screen[k]]
        BY PutCharStays DEF EditInv, OnScreen
      <3>3. screen' = put.screen /\ row' = put.row /\ col' = put.col
        BY DEF PrintPrompt
      <3> HIDE DEF put, d
      <3> QED  BY <3>1, <3>2, <3>3
    <2>2. CASE ClearScreen
      BY <2>2, KeyboardAssumption DEF ClearScreen
    <2>3. CASE UNCHANGED display
      BY <2>3 DEF display, EditInv, OnScreen
    <2> QED  BY <2>1, <2>2, <2>3 DEF Ignored, Modify, LineRead, ReadText, TextMode, LineOfText, vars
  <1>6. OnScreen'
    BY <1>1, <1>4, <1>5 DEF EditInv, OnScreen
  <1>7. CASE keyboard_input_on
    <2>1. /\ buffer_index' = buffer_index /\ screen' = screen /\ row' = row /\ col' = col
          /\ start_row' = start_row /\ start_col' = start_col
      BY <1>3, <1>7 DEF display
    <2>2. EditInv'
      BY <1>1, <1>3, <1>6, <1>7, <2>1 DEF EditInv, Begin, Cursor, Holds, ScreenShowsLine
    <2> QED  BY <1>1, <1>2, <1>7, <2>1, <2>2 DEF E!vars, CurrentIndex
  <1>8. CASE ~keyboard_input_on
    BY <1>1, <1>2, <1>6, <1>8 DEF EditInv, E!vars
  <1> QED  BY <1>7, <1>8


\* Before the first call there is no line.
LEMMA EditInit ==
    ASSUME Init
    PROVE  EditInv /\ E!Init
  <1>1. keyboard_input_on = FALSE /\ keyboard_buffer = Empty /\ row = 0 /\ col = 0
        /\ screen = [k \in Cell |-> Blank]
        /\ capslock = FALSE /\ shift_left = FALSE /\ shift_right = FALSE
    BY DEF Init
  <1>2. 0 \in 0 .. ROW - 1 /\ 0 \in 0 .. COLUMN - 1
    BY KeyboardAssumption
  <1>3. EditInv
    BY <1>1, <1>2 DEF EditInv, OnScreen, Empty
  <1>4. Contents = <<>>
    <2>1. ContentsOf(keyboard_buffer) = [k \in 1 .. 0 |-> keyboard_buffer[k - 1]]
      <3>1. 0 \in 0 .. KEYBOARD_BUFFER_SIZE /\ \A k \in 0 .. 0 - 1 : keyboard_buffer[k] # NUL
        BY KeyboardAssumption
      <3>2. 0 < KEYBOARD_BUFFER_SIZE => keyboard_buffer[0] = NUL
        BY <1>1, KeyboardAssumption DEF Empty, Index
      <3> QED  BY <3>1, <3>2, ContentsAre
    <2> QED  BY <2>1 DEF Contents
  <1> QED  BY <1>1, <1>3, <1>4 DEF E!Init

\* Every step keeps the screen tied to the buffer and is one of LineEditor.
LEMMA EditStep ==
    ASSUME LineFits, EditInv, [Next]_vars
    PROVE  EditInv' /\ [E!Next]_(E!vars)
  <1>1. CASE \E key \in Letters : buffer_index < MaxLine /\ Room /\ Type(key)
    BY <1>1, TypeStep
  <1>2. CASE BackspaceKey
    BY <1>2, BackspaceStep
  <1>3. CASE LeftArrow \/ RightArrow
    BY <1>3, ArrowStep
  <1>4. CASE EnterKey \/ Abort
    BY <1>4, EndStep
  <1>5. CASE ReadLine \/ TextActivate
    BY <1>5, StartStep
  <1>6. CASE \/ Ignored \/ (\E key \in Modifiers, down \in BOOLEAN : Modify(key, down))
             \/ (\E c \in {Prompt, Newline} : PrintPrompt(c))
             \/ ClearScreen \/ LineRead \/ ReadText \/ TextMode \/ LineOfText \/ UNCHANGED vars
    BY <1>6, OtherStep
  <1> QED  BY <1>1, <1>2, <1>3, <1>4, <1>5, <1>6 DEF Next, Key, Program

(***************************************************************************)
(* The driver is a line editor.                                            *)
(***************************************************************************)

\* Whatever is typed, moved over and taken out, wherever the line began on the
\* screen and however it wraps, the driver edits as an editor with a cursor does,
\* and hands over the line that was edited.
THEOREM EditsTheLine == ASSUME LineFits PROVE Spec => ImplementsLineEditor
  <1>1. Spec => [][E!Next]_(E!vars)
    <2>1. Init => EditInv
      BY EditInit
    <2>2. EditInv /\ [Next]_vars => EditInv' /\ [E!Next]_(E!vars)
      BY EditStep
    <2> QED  BY <2>1, <2>2, PTL DEF Spec
  <1>2. Init => E!Init
    BY EditInit
  <1> QED  BY <1>1, <1>2, PTL DEF Spec, ImplementsLineEditor, E!Spec

\* The screen shows the line while it is edited, on every row it wraps to.
THEOREM LineIsShown == ASSUME LineFits PROVE Spec => []ScreenShowsLine
  <1>1. Init => EditInv
    BY EditInit
  <1>2. EditInv /\ [Next]_vars => EditInv'
    BY EditStep
  <1>3. EditInv => ScreenShowsLine
    BY DEF EditInv, ScreenShowsLine
  <1> QED  BY <1>1, <1>2, <1>3, PTL DEF Spec
=============================================================================
