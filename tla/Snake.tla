-------------------------------- MODULE Snake --------------------------------
(***************************************************************************)
(* The snake game (user/snake/snake.c) and the table of keyboard events it *)
(* polls (keyboard.c, system calls 11 and 12).  The keyboard interrupt     *)
(* adds to the table between any two steps of the game.                    *)
(***************************************************************************)
EXTENDS Integers, Sequences

CONSTANTS SNAKE_COLUMN, SNAKE_ROW,  \* 30 and 15
          InitialCapacity           \* segments allocated at first, 10

ASSUME SnakeAssumption ==
    /\ SNAKE_COLUMN \in Nat /\ SNAKE_COLUMN >= 4
    /\ SNAKE_ROW \in Nat \ {0}
    /\ InitialCapacity \in Nat /\ InitialCapacity >= 3

Cells == (0 .. SNAKE_COLUMN - 1) \X (0 .. SNAKE_ROW - 1)

\* the four scancodes the game looks at (up, right and down are those of the
\* keys' release), and what each makes of the velocity
Keys == {"up", "right", "down", "left"}
Velocity == [up |-> <<0, -1>>, right |-> <<1, 0>>, down |-> <<0, 1>>, left |-> <<-1, 0>>]
Opposite == [up |-> "down", right |-> "left", down |-> "up", left |-> "right"]

VARIABLES segments,  \* snake.segments, the head first
          vel,       \* <<vel_x, vel_y>>
          alive, score, capacity,
          food,      \* <<foodx, foody>>
          events,    \* keys in the kernel's table
          pc         \* "poll": the game waits, "reset": it has read the table
vars == <<segments, vel, alive, score, capacity, food, events, pc>>

Range(s) == {s[i] : i \in DOMAIN s}
Length   == Len(segments)

Init ==
    /\ segments = [i \in 1 .. 3 |-> <<SNAKE_COLUMN \div 2 - (i - 1), SNAKE_ROW \div 2>>]
    /\ vel = Velocity["right"]
    /\ alive = TRUE /\ score = 0 /\ capacity = InitialCapacity
    /\ food \in Cells \ Range(segments)
    /\ events = {}
    /\ pc = "poll"

\* keyboard_isr
PressKey(k) ==
    /\ events' = events \cup {k}
    /\ UNCHANGED <<segments, vel, alive, score, capacity, food, pc>>

\* mutant: the key decides alone
TurnAnyway(k) == Velocity[k]

\* change_dir: never straight back
Turn(k) == IF vel = Velocity[Opposite[k]] THEN vel ELSE Velocity[k]

\* the order in which the game asks for the keys
Order == [up |-> 1, right |-> 2, down |-> 3, left |-> 4]
FirstKey == CHOOSE k \in events : \A j \in events : Order[k] <= Order[j]

\* get_keyboard_events, and the first key that is in them
Poll ==
    /\ pc = "poll" /\ alive
    /\ vel' = IF events = {} THEN vel ELSE Turn(FirstKey)
    /\ pc' = "reset"
    /\ UNCHANGED <<segments, alive, score, capacity, food, events>>

\* walk
Walk == [i \in DOMAIN segments |->
            IF i = 1 THEN <<segments[1][1] + vel[1], segments[1][2] + vel[2]>>
            ELSE segments[i - 1]]

\* mutant: the last segment is not compared
CollidesButLast ==
    \/ Walk[1] \notin Cells
    \/ \E i \in 2 .. Length - 1 : Walk[i] = Walk[1]

\* check_collision: with a wall or with itself
Collides ==
    \/ Walk[1] \notin Cells
    \/ \E i \in 2 .. Length : Walk[i] = Walk[1]

\* new_food, tried until it is not on the snake; on a full board it never is
FoodPlaces == Cells \ Range(Walk)

\* mutant: the array is enlarged one segment too late
CapacityLate == IF Length > capacity THEN 2 * capacity ELSE capacity

\* the array is enlarged when it is full
Capacity == IF Length = capacity THEN 2 * capacity ELSE capacity

\* reset_keyboard_events: whatever came since the table was read is lost
Reset ==
    /\ pc = "reset" /\ pc' = "walk"
    /\ events' = {}
    /\ UNCHANGED <<segments, vel, alive, score, capacity, food>>

\* walk and check_collision, in the three ways it can end
Die ==
    /\ pc = "walk" /\ Collides
    /\ segments' = Walk /\ alive' = FALSE /\ pc' = "poll"
    /\ UNCHANGED <<vel, score, capacity, food, events>>

Crawl ==
    /\ pc = "walk" /\ ~Collides /\ Walk[1] # food
    /\ segments' = Walk /\ pc' = "poll"
    /\ UNCHANGED <<vel, alive, score, capacity, food, events>>

Eat ==
    /\ pc = "walk" /\ ~Collides /\ Walk[1] = food
    /\ segments' = Append(Walk, Walk[Length])
    /\ score' = score + 1
    /\ capacity' = Capacity
    /\ food' \in FoodPlaces
    /\ pc' = "poll"
    /\ UNCHANGED <<vel, alive, events>>

Next == Poll \/ Reset \/ Die \/ Crawl \/ Eat \/ \E k \in Keys : PressKey(k)

Spec == Init /\ [][Next]_vars

-----------------------------------------------------------------------------

\* A living snake is on the board and lies on no cell twice, but for the segment
\* it has just grown.
NoOverlap ==
    alive => /\ Range(segments) \subseteq Cells
             /\ \A i, j \in DOMAIN segments :
                   segments[i] = segments[j] => i = j \/ {i, j} = {Length - 1, Length}

\* A living snake never turns straight back into the segment behind its head,
\* however many keys come between two steps (change_dir, called once a step).
NeverIntoItsNeck == alive => Walk[1] # segments[2]

\* The snake's array has room for all its segments, and it has grown by one for
\* every point of the score (check_collision).
ArrayHoldsSnake == Length <= capacity /\ Length = score + 3
=============================================================================
