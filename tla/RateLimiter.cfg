CONSTANTS
    Callers = {c1, c2, c3}
    NoCaller = none
    MaxPerHour = 2
    Spacing = 2
    Window = 5
    MaxTime = 25
    Cutoff = 6
    Late = 2
SPECIFICATION LiveSpec
INVARIANTS
    LimitsAreKept
PROPERTIES
    NobodyStarves
CHECK_DEADLOCK FALSE
