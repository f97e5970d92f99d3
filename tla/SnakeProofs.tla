---------------------------- MODULE SnakeProofs -----------------------------
(* Theorems about Snake, for every size of board and of array.             *)
EXTENDS Snake, TLAPS

(***************************************************************************)
(* The segments of a living snake are distinct cells, but for a last one   *)
(* that has just grown; the one behind the head is where the head came     *)
(* from, and between polls not where it goes.                              *)
(***************************************************************************)

Velocities == {Velocity[k] : k \in Keys}

SnakeTypeOK ==
    /\ segments \in Seq(Int \X Int) /\ Length >= 3
    /\ vel \in Velocities
    /\ alive \in BOOLEAN
    /\ score \in Nat /\ capacity \in Nat
    /\ events \in SUBSET Keys
    /\ pc \in {"poll", "reset", "walk"}

\* where the head goes
Ahead == <<segments[1][1] + vel[1], segments[1][2] + vel[2]>>

NeckBehind ==
    alive =>
        /\ pc = "poll" => segments[2] = <<segments[1][1] - vel[1], segments[1][2] - vel[2]>>
        /\ Ahead # segments[2]

SnakeInv == SnakeTypeOK /\ NoOverlap /\ NeckBehind /\ ArrayHoldsSnake

\* The four velocities.
LEMMA VelocityValues ==
    /\ Keys = {"up", "right", "down", "left"}
    /\ Velocity["up"] = <<0, -1>> /\ Velocity["right"] = <<1, 0>>
    /\ Velocity["down"] = <<0, 1>> /\ Velocity["left"] = <<-1, 0>>
    /\ Velocities = {<<0, -1>>, <<1, 0>>, <<0, 1>>, <<-1, 0>>}
  <1>1. Velocity["up"] = <<0, -1>> /\ Velocity["right"] = <<1, 0>>
          /\ Velocity["down"] = <<0, 1>> /\ Velocity["left"] = <<-1, 0>>
    BY DEF Velocity
  <1>2. Keys = {"up", "right", "down", "left"}
    BY DEF Keys
  <1> QED  BY <1>1, <1>2 DEF Velocities

\* Cells are the same if their coordinates are.
LEMMA SameCell ==
    /\ \A a, b, c, d : <<a, b>> = <<c, d>> => a = c /\ b = d
    /\ \A s \in Int \X Int : s = <<s[1], s[2]>> /\ s[1] \in Int /\ s[2] \in Int
  OBVIOUS

\* The key that is looked at is one that was pressed.
LEMMA FirstKeyPressed ==
    ASSUME events \in SUBSET Keys, events # {}
    PROVE  FirstKey \in events
  <1>1. \E k \in events : \A j \in events : Order[k] <= Order[j]
    <2>1. Order["up"] = 1 /\ Order["right"] = 2 /\ Order["down"] = 3 /\ Order["left"] = 4
      BY DEF Order
    <2>2. \A j \in events : j \in {"up", "right", "down", "left"}
      BY DEF Keys
    <2>3. CASE "up" \in events
      BY <2>1, <2>2, <2>3
    <2>4. CASE "up" \notin events /\ "right" \in events
      BY <2>1, <2>2, <2>4
    <2>5. CASE "up" \notin events /\ "right" \notin events /\ "down" \in events
      BY <2>1, <2>2, <2>5
    <2>6. CASE "up" \notin events /\ "right" \notin events /\ "down" \notin events
      <3>1. "left" \in events /\ events = {"left"}
        BY <2>2, <2>6
      <3> QED  BY <2>1, <3>1
    <2> QED  BY <2>3, <2>4, <2>5, <2>6
  <1> QED  BY <1>1 DEF FirstKey

\* A turn is never to the opposite of the velocity.
LEMMA TurnsAside ==
    ASSUME NEW k \in Keys, vel \in Velocities
    PROVE  /\ Turn(k) \in Velocities
           /\ Turn(k)[1] # -vel[1] \/ Turn(k)[2] # -vel[2]
  <1>1. Opposite["up"] = "down" /\ Opposite["down"] = "up"
          /\ Opposite["left"] = "right" /\ Opposite["right"] = "left"
    BY DEF Opposite
  <1>2. k \in {"up", "right", "down", "left"}
    BY DEF Keys
  <1>3. vel \in {<<0, -1>>, <<1, 0>>, <<0, 1>>, <<-1, 0>>}
    BY VelocityValues
  <1>4. CASE k = "up"     BY <1>1, <1>3, <1>4, VelocityValues DEF Turn
  <1>5. CASE k = "right"  BY <1>1, <1>3, <1>5, VelocityValues DEF Turn
  <1>6. CASE k = "down"   BY <1>1, <1>3, <1>6, VelocityValues DEF Turn
  <1>7. CASE k = "left"   BY <1>1, <1>3, <1>7, VelocityValues DEF Turn
  <1> QED  BY <1>2, <1>4, <1>5, <1>6, <1>7

\* The snake after a step: the head goes ahead, every other segment to where the one
\* before it was.
LEMMA WalkValues ==
    ASSUME SnakeTypeOK
    PROVE  /\ Walk \in Seq(Int \X Int) /\ Len(Walk) = Length /\ DOMAIN Walk = 1 .. Length
           /\ Walk[1] = Ahead
           /\ \A i \in 2 .. Length : Walk[i] = segments[i - 1]
  <1>1. DOMAIN segments = 1 .. Length /\ Length \in Nat /\ Length >= 3
    BY DEF SnakeTypeOK, Length
  <1>2. vel \in Int \X Int
    BY VelocityValues DEF SnakeTypeOK
  <1>3. \A i \in 1 .. Length : segments[i] \in Int \X Int
    BY <1>1 DEF SnakeTypeOK, Length
  <1>4. Ahead \in Int \X Int
    BY <1>1, <1>2, <1>3 DEF Ahead
  <1>5. Walk = [i \in 1 .. Length |-> IF i = 1 THEN Ahead ELSE segments[i - 1]]
    BY <1>1 DEF Walk, Ahead
  <1>6. \A i \in 1 .. Length : Walk[i] \in Int \X Int
    BY <1>1, <1>3, <1>4, <1>5
  <1> QED  BY <1>1, <1>5, <1>6

\* The game starts with it.
LEMMA InitSnake == Init => SnakeInv
  <1> SUFFICES ASSUME Init PROVE SnakeInv
    OBVIOUS
  <1> DEFINE x == SNAKE_COLUMN \div 2
             y == SNAKE_ROW \div 2
  <1>1. x \in Nat /\ x >= 2 /\ x < SNAKE_COLUMN /\ y \in Nat /\ y < SNAKE_ROW
    BY SnakeAssumption
  <1> HIDE DEF x, y
  <1>2. segments = [i \in 1 .. 3 |-> <<x - (i - 1), y>>]
    BY DEF Init, x, y
  <1>3. /\ segments \in Seq(Int \X Int) /\ Length = 3 /\ DOMAIN segments = 1 .. 3
        /\ segments[1] = <<x, y>> /\ segments[2] = <<x - 1, y>> /\ segments[3] = <<x - 2, y>>
    BY <1>1, <1>2 DEF Length
  <1>4. vel = <<1, 0>> /\ vel \in Velocities
    BY VelocityValues DEF Init
  <1>5. SnakeTypeOK
    BY <1>3, <1>4, SnakeAssumption DEF Init, SnakeTypeOK
  <1>6. NoOverlap
    <2>1. Range(segments) \subseteq Cells
      <3>1. Range(segments) = {<<x, y>>, <<x - 1, y>>, <<x - 2, y>>}
        <4>1. 1 .. 3 = {1, 2, 3}
          OBVIOUS
        <4> QED  BY <1>3, <4>1 DEF Range
      <3>2. {x, x - 1, x - 2} \subseteq 0 .. SNAKE_COLUMN - 1 /\ y \in 0 .. SNAKE_ROW - 1
        BY <1>1, SnakeAssumption
      <3> QED  BY <3>1, <3>2 DEF Cells
    <2>2. \A i, j \in 1 .. 3 : segments[i] = segments[j] => i = j
      BY <1>1, <1>2
    <2> QED  BY <1>3, <2>1, <2>2 DEF NoOverlap
  <1>7. NeckBehind
    <2>1. segments[2] = <<segments[1][1] - vel[1], segments[1][2] - vel[2]>>
      BY <1>1, <1>3, <1>4
    <2>2. Ahead # segments[2]
      BY <1>1, <1>3, <1>4 DEF Ahead
    <2> QED  BY <1>4, <2>1, <2>2 DEF NeckBehind
  <1>8. ArrayHoldsSnake
    BY <1>3, SnakeAssumption DEF Init, ArrayHoldsSnake
  <1> QED  BY <1>5, <1>6, <1>7, <1>8 DEF SnakeInv

\* Taking a key into the velocity keeps the invariant.
LEMMA PollSnake == ASSUME SnakeInv, Poll PROVE SnakeInv'
  <1>1. /\ vel' = IF events = {} THEN vel ELSE Turn(FirstKey)
        /\ pc = "poll" /\ alive /\ pc' = "reset"
        /\ UNCHANGED <<segments, alive, score, capacity, food, events>>
    BY DEF Poll
  <1>2. /\ vel' \in Velocities
        /\ vel'[1] # -vel[1] \/ vel'[2] # -vel[2]
    <2>1. CASE events = {}
      BY <1>1, <2>1, VelocityValues DEF SnakeInv, SnakeTypeOK
    <2>2. CASE events # {}
      <3>1. FirstKey \in Keys
        BY <2>2, FirstKeyPressed DEF SnakeInv, SnakeTypeOK
      <3> QED  BY <1>1, <2>2, <3>1, TurnsAside DEF SnakeInv, SnakeTypeOK
    <2> QED  BY <2>1, <2>2
  <1>3. SnakeTypeOK'
    BY <1>1, <1>2 DEF SnakeInv, SnakeTypeOK, Length
  <1>4. NoOverlap' /\ ArrayHoldsSnake'
    BY <1>1 DEF SnakeInv, NoOverlap, ArrayHoldsSnake, Length, Range
  <1>5. NeckBehind'
    <2>1. segments[1] \in Int \X Int
      BY DEF SnakeInv, SnakeTypeOK, Length
    <2>2. vel \in Int \X Int /\ vel' \in Int \X Int
      BY <1>2, VelocityValues DEF SnakeInv, SnakeTypeOK
    <2>3. segments[2] = <<segments[1][1] - vel[1], segments[1][2] - vel[2]>>
      BY <1>1 DEF SnakeInv, NeckBehind
    <2>4. <<segments[1][1] + vel'[1], segments[1][2] + vel'[2]>> # segments[2]
      <3> SUFFICES ASSUME <<segments[1][1] + vel'[1], segments[1][2] + vel'[2]>> = segments[2]
                   PROVE  FALSE
        OBVIOUS
      <3>1. /\ segments[1][1] + vel'[1] = segments[1][1] - vel[1]
            /\ segments[1][2] + vel'[2] = segments[1][2] - vel[2]
        BY <2>3, SameCell
      <3>2. /\ segments[1][1] \in Int /\ segments[1][2] \in Int
            /\ vel[1] \in Int /\ vel[2] \in Int /\ vel'[1] \in Int /\ vel'[2] \in Int
        BY <2>1, <2>2, SameCell
      <3> QED  BY <1>2, <3>1, <3>2
    <2> QED  BY <1>1, <2>4 DEF NeckBehind, Ahead
  <1> QED  BY <1>3, <1>4, <1>5 DEF SnakeInv

\* What is the same for a step that goes on and one that eats: the head is on a
\* cell of its own, and behind it is where it came from.
LEMMA WalkKeeps ==
    ASSUME SnakeInv, alive, ~Collides
    PROVE  /\ Range(Walk) \subseteq Cells
           /\ \A i, j \in 1 .. Length : Walk[i] = Walk[j] => i = j
           /\ Walk[2] = <<Walk[1][1] - vel[1], Walk[1][2] - vel[2]>>
           /\ <<Walk[1][1] + vel[1], Walk[1][2] + vel[2]>> # Walk[2]
  <1> USE DEF SnakeInv
  <1>1. /\ DOMAIN segments = 1 .. Length /\ Length \in Nat /\ Length >= 3
        /\ segments[1] \in Int \X Int
        /\ vel \in {<<0, -1>>, <<1, 0>>, <<0, 1>>, <<-1, 0>>}
    BY VelocityValues DEF SnakeTypeOK, Length
  <1>2. /\ DOMAIN Walk = 1 .. Length /\ Walk[1] = Ahead
        /\ \A i \in 2 .. Length : Walk[i] = segments[i - 1]
    BY WalkValues
  <1>3. Walk[1] \in Cells /\ \A i \in 2 .. Length : Walk[i] # Walk[1]
    BY DEF Collides
  <1>4. Range(Walk) \subseteq Cells
    <2> SUFFICES ASSUME NEW i \in 1 .. Length PROVE Walk[i] \in Cells
      BY <1>2 DEF Range
    <2>1. CASE i = 1  BY <1>3, <2>1
    <2>2. CASE i # 1
      <3>1. i \in 2 .. Length /\ i - 1 \in 1 .. Length
        BY <1>1, <2>2
      <3>2. segments[i - 1] \in Cells
        BY <1>1, <3>1 DEF NoOverlap, Range
      <3> QED  BY <1>2, <3>1, <3>2
    <2> QED  BY <2>1, <2>2
  <1>5. \A i, j \in 1 .. Length : Walk[i] = Walk[j] => i = j
    <2> SUFFICES ASSUME NEW i \in 1 .. Length, NEW j \in 1 .. Length, Walk[i] = Walk[j]
                 PROVE  i = j
      OBVIOUS
    <2>1. CASE i = 1 \/ j = 1
      BY <1>1, <1>3, <2>1
    <2>2. CASE i # 1 /\ j # 1
      <3>1. /\ i \in 2 .. Length /\ j \in 2 .. Length
            /\ i - 1 \in 1 .. Length - 1 /\ j - 1 \in 1 .. Length - 1
        BY <1>1, <2>2
      <3>2. segments[i - 1] = segments[j - 1]
        BY <1>2, <3>1
      <3>3. i - 1 = j - 1 \/ {i - 1, j - 1} = {Length - 1, Length}
        <4>1. i - 1 \in DOMAIN segments /\ j - 1 \in DOMAIN segments
          BY <1>1, <3>1
        <4> QED  BY <3>2, <4>1 DEF NoOverlap
      <3>4. Length \notin {i - 1, j - 1}
        BY <1>1, <3>1
      <3>5. i - 1 = j - 1
        BY <3>3, <3>4
      <3> QED  BY <1>1, <3>1, <3>5
    <2> QED  BY <2>1, <2>2
  <1>6. Walk[2] = segments[1]
    BY <1>1, <1>2
  <1>7. Walk[2] = <<Walk[1][1] - vel[1], Walk[1][2] - vel[2]>>
           /\ <<Walk[1][1] + vel[1], Walk[1][2] + vel[2]>> # Walk[2]
    <2> DEFINE x == segments[1][1]
               y == segments[1][2]
    <2>1. x \in Int /\ y \in Int /\ segments[1] = <<x, y>>
      BY <1>1, SameCell
    <2> HIDE DEF x, y
    <2>2. Walk[1] = <<x + vel[1], y + vel[2]>>
      BY <1>2 DEF Ahead, x, y
    <2>3. CASE vel = <<0, -1>>  BY <1>6, <2>1, <2>2, <2>3, SameCell
    <2>4. CASE vel = <<1, 0>>   BY <1>6, <2>1, <2>2, <2>4, SameCell
    <2>5. CASE vel = <<0, 1>>   BY <1>6, <2>1, <2>2, <2>5, SameCell
    <2>6. CASE vel = <<-1, 0>>  BY <1>6, <2>1, <2>2, <2>6, SameCell
    <2> QED  BY <1>1, <2>3, <2>4, <2>5, <2>6
  <1> QED  BY <1>4, <1>5, <1>7

\* A step without food keeps it.
LEMMA CrawlSnake == ASSUME SnakeInv, Crawl PROVE SnakeInv'
  <1>1. /\ ~Collides /\ segments' = Walk /\ pc' = "poll"
        /\ UNCHANGED <<vel, alive, score, capacity, food, events>>
    BY DEF Crawl
  <1>2. /\ Walk \in Seq(Int \X Int) /\ Len(Walk) = Length /\ DOMAIN Walk = 1 .. Length
    BY WalkValues DEF SnakeInv
  <1>3. SnakeTypeOK'
    BY <1>1, <1>2 DEF SnakeInv, SnakeTypeOK, Length
  <1>4. NoOverlap'
    BY <1>1, <1>2, WalkKeeps DEF SnakeInv, SnakeTypeOK, NoOverlap, Range, Length
  <1>5. NeckBehind'
    BY <1>1, <1>2, WalkKeeps DEF SnakeInv, SnakeTypeOK, NeckBehind, Ahead
  <1>6. ArrayHoldsSnake'
    BY <1>1, <1>2 DEF SnakeInv, ArrayHoldsSnake, Length
  <1> QED  BY <1>3, <1>4, <1>5, <1>6 DEF SnakeInv

\* A sequence with its last element once more.
LEMMA GrownValues ==
    ASSUME NEW S, NEW w \in Seq(S), NEW n \in Nat, Len(w) = n, n >= 3
    PROVE  LET u == Append(w, w[n])
           IN  /\ u \in Seq(S) /\ Len(u) = n + 1 /\ DOMAIN u = 1 .. n + 1
               /\ \A i \in 1 .. n : u[i] = w[i]
               /\ u[n + 1] = w[n] /\ u[1] = w[1] /\ u[2] = w[2]
  OBVIOUS

\* Growing keeps it: the new segment lies on the last.
LEMMA EatSnake == ASSUME SnakeInv, Eat PROVE SnakeInv'
  <1>1. /\ ~Collides /\ segments' = Append(Walk, Walk[Length]) /\ pc' = "poll"
        /\ score' = score + 1 /\ capacity' = Capacity
        /\ UNCHANGED <<vel, alive, events>>
    BY DEF Eat
  <1>2. PICK n \in Nat : Length = n /\ n >= 3
    BY DEF SnakeInv, SnakeTypeOK, Length
  <1>3. Walk \in Seq(Int \X Int) /\ Len(Walk) = n /\ DOMAIN Walk = 1 .. n
    BY <1>2, WalkValues DEF SnakeInv
  <1>4. /\ segments' \in Seq(Int \X Int) /\ Len(segments') = n + 1
        /\ DOMAIN segments' = 1 .. n + 1
        /\ \A i \in 1 .. n : segments'[i] = Walk[i]
        /\ segments'[n + 1] = Walk[n] /\ segments'[1] = Walk[1] /\ segments'[2] = Walk[2]
    BY <1>1, <1>2, <1>3, GrownValues
  <1>5. Length' = n + 1
    BY <1>4 DEF Length
  <1>6. capacity' \in Nat /\ n + 1 <= capacity' /\ n + 1 = score' + 3
    BY <1>1, <1>2 DEF SnakeInv, SnakeTypeOK, ArrayHoldsSnake, Capacity
  <1>7. SnakeTypeOK'
    BY <1>1, <1>2, <1>4, <1>5, <1>6 DEF SnakeInv, SnakeTypeOK
  <1>8. NoOverlap'
    <2> SUFFICES ASSUME alive
                 PROVE  /\ Range(segments') \subseteq Cells
                        /\ \A i, j \in 1 .. n + 1 : segments'[i] = segments'[j] =>
                              i = j \/ {i, j} = {n, n + 1}
      <3>1. Length' - 1 = n /\ DOMAIN segments' = 1 .. n + 1 /\ Range(segments)' = Range(segments')
        BY <1>2, <1>4, <1>5 DEF Range
      <3>2. alive' = alive
        BY <1>1
      <3> QED  BY <1>5, <3>1, <3>2 DEF NoOverlap
    <2>1. /\ Range(Walk) \subseteq Cells
          /\ \A i, j \in 1 .. n : Walk[i] = Walk[j] => i = j
      BY WalkKeeps, <1>1, <1>2
    <2> DEFINE at(k) == IF k = n + 1 THEN n ELSE k
    <2>2. \A k \in 1 .. n + 1 : at(k) \in 1 .. n /\ segments'[k] = Walk[at(k)]
      BY <1>2, <1>4
    <2>3. Range(segments') \subseteq Cells
      <3>1. \A k \in 1 .. n : Walk[k] \in Cells
        BY <1>3, <2>1 DEF Range
      <3>2. \A k \in 1 .. n + 1 : segments'[k] \in Cells
        BY <2>2, <3>1
      <3> HIDE DEF at
      <3> QED  BY <1>4, <3>2 DEF Range
    <2>4. ASSUME NEW i \in 1 .. n + 1, NEW j \in 1 .. n + 1, segments'[i] = segments'[j]
          PROVE  i = j \/ {i, j} = {n, n + 1}
      <3>1. at(i) = at(j)
        BY <2>1, <2>2, <2>4
      <3> QED  BY <1>2, <3>1
    <2> QED  BY <2>3, <2>4
  <1>9. NeckBehind'
    BY <1>1, <1>4, WalkKeeps DEF NeckBehind, Ahead
  <1>10. ArrayHoldsSnake'
    BY <1>5, <1>6 DEF ArrayHoldsSnake
  <1> QED  BY <1>7, <1>8, <1>9, <1>10 DEF SnakeInv

\* What does not change the segments cannot make them overlap.
LEMMA SameSnake == ASSUME NoOverlap, UNCHANGED <<segments, alive>> PROVE NoOverlap'
  <1>1. segments' = segments /\ alive' = alive
    OBVIOUS
  <1>2. Range(segments)' = Range(segments)
    BY <1>1 DEF Range
  <1>3. Length' = Length
    BY <1>1 DEF Length
  <1> QED  BY <1>1, <1>2, <1>3 DEF NoOverlap

\* Keys and the other steps keep the invariant.
LEMMA OtherSnake ==
    ASSUME SnakeInv, Reset \/ Die \/ (\E k \in Keys : PressKey(k)) \/ UNCHANGED vars
    PROVE  SnakeInv'
  <1> USE DEF SnakeInv, SnakeTypeOK, NeckBehind, ArrayHoldsSnake, Length, Ahead
  <1>1. CASE Reset
    <2>1. /\ events' = {} /\ pc' = "walk"
          /\ UNCHANGED <<segments, vel, alive, score, capacity, food>>
      BY <1>1 DEF Reset
    <2>2. SnakeTypeOK'         BY <2>1
    <2>3. NoOverlap'           BY <2>1, SameSnake
    <2>4. NeckBehind'          BY <2>1
    <2>5. ArrayHoldsSnake'     BY <2>1
    <2> QED  BY <2>2, <2>3, <2>4, <2>5
  <1>2. CASE Die
    <2>1. Walk \in Seq(Int \X Int) /\ Len(Walk) = Length
      BY WalkValues
    <2> QED  BY <1>2, <2>1 DEF Die, NoOverlap
  <1>3. CASE \E k \in Keys : PressKey(k)
    <2>1. PICK k \in Keys : PressKey(k)
      BY <1>3
    <2>2. events' \in SUBSET Keys /\ UNCHANGED <<segments, vel, alive, score, capacity, food, pc>>
      BY <2>1 DEF PressKey
    <2>3. SnakeTypeOK'         BY <2>2
    <2>4. NoOverlap'           BY <2>2, SameSnake
    <2>5. NeckBehind'          BY <2>2
    <2>6. ArrayHoldsSnake'     BY <2>2
    <2> QED  BY <2>3, <2>4, <2>5, <2>6
  <1>4. CASE UNCHANGED vars  BY <1>4, SameSnake DEF vars
  <1> QED  BY <1>1, <1>2, <1>3, <1>4

\* The invariant holds at every step of the game.
LEMMA SnakeAlways == Spec => []SnakeInv
  <1>1. SnakeInv /\ [Next]_vars => SnakeInv'
    BY PollSnake, CrawlSnake, EatSnake, OtherSnake DEF Next
  <1> QED  BY InitSnake, <1>1, PTL DEF Spec

\* A living snake is on the board and covers no cell twice, on a board of any size
\* and for keys at any moment.
THEOREM SnakeNeverOverlaps == Spec => []NoOverlap
  <1>1. SnakeInv => NoOverlap
    BY DEF SnakeInv
  <1> QED  BY SnakeAlways, <1>1, PTL

\* The head of a living snake never goes back to the segment behind it.
THEOREM SnakeNeverReverses == Spec => []NeverIntoItsNeck
  <1>1. SnakeInv => NeverIntoItsNeck
    BY WalkValues DEF SnakeInv, NeckBehind, NeverIntoItsNeck
  <1> QED  BY SnakeAlways, <1>1, PTL

\* The array always has room for the snake.
THEOREM ArrayIsLargeEnough == Spec => []ArrayHoldsSnake
  <1>1. SnakeInv => ArrayHoldsSnake
    BY DEF SnakeInv
  <1> QED  BY SnakeAlways, <1>1, PTL
=============================================================================
