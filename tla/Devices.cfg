CONSTANTS
    p1 = p1
    p2 = p2
    p3 = p3
    PatIds <- MCPatIds
    WideqIds = {1, 2, 3}
    Names = {"a", "b"}
    NoId = noid
    NoName = "noname"
    Same <- MCSame
    Fields = {f1, f2}
    Refreshes = {r1, r2}
    MaxClients = 2
    MaxValues = 4
    MaxPauses = 1
    Calls = {1, 2}
    Poll = 0
    Template = {"fridgeTemp", "displayLock"}
    PAT_PRIORITY_FIELDS = {"fridgeTemp"}
    Writable = {"fridgeTemp", "displayLock"}
    Experimental = {"displayLock"}
    Values = {1, 2}
    Unknown = 0
    d1 = d1
    d2 = d2
    d3 = d3
    Owned = {d1, d2, d3}
    Supported = {d1, d2}
    Named = {d1, d3}
    Fanout = 1
    StartTries = 2
    RecoverTries = 1
    MaxResumes = 1
    MaxLives = 2
SPECIFICATION MCSpec
INVARIANTS
    NoSharedAppliance
    RightAppliance
    CaughtUp
    PauseIsComplete
    PreservesTheLatest
    KnownIsOffered
PROPERTIES
    OnlyTheCurrentClientSpeaks
    NothingVerifiedIsLost
SYMMETRY Symmetric
