CONSTANTS
    pat = pat
    wideq = wideq
    Sources = {pat, wideq}
    Configured = {pat}
    Targets <- SomeTargets
    Reasons = {"authentication"}
    Slots = {k1, connect}
    Connect = connect
    MaxRequests = 2
    MaxCalls = 1
    MaxRestarts = 2
    MaxSpent = 4
SPECIFICATION OpenFairSpec
INVARIANTS
    NoLateResult
    ProtectedHasNoTraffic
PROPERTIES
    ImplementsProtection
    JobsDrain
CHECK_DEADLOCK FALSE
