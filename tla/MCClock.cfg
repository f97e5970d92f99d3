SPECIFICATION Spec
CONSTANTS
    Starts <- MCStarts
    Window = 6
    MaxTicks = 3
INVARIANTS
    ReadsOneMoment
    DaysSinceEpoch
PROPERTY ReadEnds
