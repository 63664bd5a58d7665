CONSTANTS
    Publications <- MCPublications
    EventBodies = {u, v}
    Primaries <- MCPrimaries
    Semantics = {"f", "g"}
    Types = {"number", "string"}
    Raw <- MCRaw
    Profiles <- MCProfiles
    Absent = Absent
    Invalid = Invalid
    None = None
    MaxNotified = 2
    C = C
    F = F
    Units = {C, F}
    Values = {x, y}
    Worded = {x}
    Nothing = Nothing
    Quantities <- MCQuantities
    Setups <- MCSetups
SPECIFICATION MCSpec
INVARIANTS
    FeedIsSound
    ReadingIsSound
CONSTRAINT
    FewEvents
