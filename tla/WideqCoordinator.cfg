CONSTANTS
    Devices = {d1}
    Polls = {p1}
    Commands = {c1}
    Changes = {n1}
    Settings = {v1, v2}
    FirstSettings = {v1}
    NoSetting = unknown
    Threshold = 2
    MaxFetches = 2
    MaxTouches = 1
    MaxPauses = 1
    Attempts = 2
SPECIFICATION FairSpec
INVARIANTS
    CircuitIsRespected
    CachesAreHonest
PROPERTIES
    DataMovesForward
    EveryoneLeaves
