SPECIFICATION MCSpec
CONSTANTS
    Ordinary <- MCOrdinary
    Preserving <- MCPreserving
    Fans <- MCFans
    Celsius <- MCCelsius
    Comforts <- MCComforts
    Placeholder = 18
    Domain <- MCDomain
    MaxAge = 1
    Requests = {r1, r2}
    Wishes <- MCWishes
    Kinds = {"climate", "local", "select"}
    MaxClock = 2
    MaxReports = 1
    MaxEvents = 3
    ServiceCalls = {c1, c2}
    Asks <- MCAsks
    Worded = {"cool", "dry", "low"}
    Ranged = {"cool", "dry"}
    Carrying = {"dry"}
    OnGrid = {0, 18, 24, 26}
    Readings <- MCReadings
    FirstStatuses <- MCFirstStatuses
    MaxReads = 2
SYMMETRY Symmetric
CHECK_DEADLOCK FALSE
INVARIANTS OneCommand FrameIsFaithful ClimateIsFaithful
