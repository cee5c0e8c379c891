CONSTANTS
    d1 = d1
    d2 = d2
    m1 = m1
    m2 = m2
    m3 = m3
    s1 = s1
    i1 = i1
    a = a
    b = b
    NoDevice = NoDevice
    NoIdentity = NoIdentity
    LocalIdentity = LocalIdentity
    Identities <- None
    Devices <- None
    Readers <- None
    TakeoverStale = 1
    CollapseStale = 1
    DeviceTotal = 20
    Messages = {m1, m2}
    Destinations = {d1, LocalIdentity}
    Bytes <- MixedBytes
    MaxPending = 2
    MaxAttempts = 1
    Sources = {s1}
    Targets <- Plain
    OtherPaths <- None
    Blockable = {d1}
    Usages = {8, 16}
    PullLimit = 2
    MaxInflight = 2
    MaxCustodyIds = 3
    MaxCrashes = 1
SPECIFICATION Spec
PROPERTIES ImplementsContract WriteBelowCeiling OwnMessagesLast
