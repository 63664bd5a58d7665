CONSTANTS
    m1 = m1
    m2 = m2
    c1 = c1
    c2 = c2
    Bindings <- MCBindings
    Callers = {c1, c2}
    Contracts = {m1, m2}
    Generations = {1}
    Reviewed <- MCReviewed
    Authority <- MCAuthority
    NoContract = NoContract
    NoPin = NoPin
    NoRow = NoRow
    Refused = Refused
    Detached = Detached
    Targets = {1, 2}
    Hourly = {2}
    Aliases = {"home", "kitchen"}
    Days = {1, 2, 3}
    MonthOf <- MCMonthOf
    NoData = NoData
    MaxCounts = 1
    MaxFailures = 1
    MaxRestarts = 1
    Meters = {"washer", "dryer"}
    MaxPublications = 4
    Powers = {0, 1}
    MaxGap = 2
    MaxTime = 4
    MaxPowerCycles = 1
    Orders = {1, 2}
    MaxToggles = 1
    MaxStops = 1
    Appliances = {1, 2}
    BindingIds = {"a", "b"}
    Secrets = {"s1", "s2"}
    Editors = {1, 2}
    NoSecret = "masked"
    NoBinding = NoBinding
    Invalid = Invalid
    MaxSaves = 3
SPECIFICATION MCSpec
INVARIANTS
    LiveFollowsStore
    HistoryIsHonest
    EntityIsHonest
PROPERTIES
    StoreIsExact
    EnergyIsHonest
    BindingsKeepTheirs
SYMMETRY Symmetric
