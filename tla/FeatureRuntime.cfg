CONSTANTS
    Contents = {"old", "new", "bad"}
    FirstContent = "old"
    NoToken = NoToken
    MaxEdits = 2
    MaxFaults = 1
    Keys <- MCKeys
    Definitions = {"d1", "d2"}
    Absent = "none"
    Menu <- MCMenu
    Broken = {"bad"}
    Late = {"s2"}
    Platforms <- MCPlatforms
    PlatformOf <- MCPlatformOf
    b1 = b1
    b2 = b2
    Bindings = {b1, b2}
    Entries <- MCEntries
SPECIFICATION MCSpec
INVARIANTS
    MenuIsCurrent
    SetupIsSound
PROPERTIES
    KeepsRunning
    EditsAreApplied
CHECK_DEADLOCK FALSE
