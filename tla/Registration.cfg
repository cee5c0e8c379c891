CONSTANTS
    d1 = d1
    d2 = d2
    m1 = m1
    m2 = m2
    m3 = m3
    s1 = s1
    i1 = i1
    a = a
    b = b
    NoDevice = NoDevice
    NoIdentity = NoIdentity
    LocalIdentity = LocalIdentity
    Identities = {i1}
    Devices = {a, b}
    Readers = {i1}
    TakeoverStale = 1
    CollapseStale = 1
    DeviceTotal = 100
    Messages = {m1, m2}
    Destinations = {d1}
    Bytes <- UnitBytes
    MaxPending = 2
    MaxAttempts = 1
    Sources = {s1}
    Targets <- Hinted
    OtherPaths <- None
    Blockable <- None
    Usages <- NoUsage
    PullLimit = 2
    MaxInflight = 1
    MaxCustodyIds = 2
    MaxCrashes = 1
SPECIFICATION Spec
INVARIANTS NoSilentLoss QueueFollowsDevice
SYMMETRY Interchange
PROPERTY GoneForGood
