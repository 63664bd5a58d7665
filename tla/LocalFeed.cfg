CONSTANTS
    Sessions = {"a", "b"}
    Services = {"x", "y"}
    Snapshots <- MCSnapshots
    Availabilities <- MCAvailabilities
    Runtimes <- MCRuntimes
    Presences <- MCPresences
    Proofs = {"ours", "theirs"}
    Fields <- MCFields
    Profiles <- MCProfiles
    None = None
    MaxEnded = 2
    MaxConnections = 3
    MaxRequests = 2
    MaxPosts = 2
SPECIFICATION FeedSpec
INVARIANTS
    OnlyTheCurrentCounts
PROPERTIES
    NeverGoesBack
CHECK_DEADLOCK FALSE
