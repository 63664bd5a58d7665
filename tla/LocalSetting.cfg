CONSTANTS
    Capabilities <- MCCapabilities
    Bundled <- MCBundled
    BundledFeatures <- MCBundledFeatures
    Databases <- MCDatabases
    Options <- MCOptions
    Factory = {"mode", "level", "recipe", "run", "course"}
    Remembered = {"mode"}
    Drafts = {"recipe"}
    Actions = {"run"}
    Cards = {"card"}
    Course = "course"
    Program = "program"
    Locks = {"open", "shut"}
    Values = {1}
    Requests <- MCRequests
    Nothing = Nothing
    Callers = {c1, c2}
    MaxEvents = 3
SPECIFICATION SettingSpec
INVARIANTS
    OffersAreKept
PROPERTIES
    NothingUnauthorisedLeaves
    DisplayCatchesUp
CHECK_DEADLOCK FALSE
