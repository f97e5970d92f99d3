SPECIFICATION Spec
CONSTANTS
    SNAKE_COLUMN = 4
    SNAKE_ROW = 2
    InitialCapacity = 3
INVARIANTS
    NoOverlap
    NeverIntoItsNeck
    ArrayHoldsSnake
CHECK_DEADLOCK FALSE
