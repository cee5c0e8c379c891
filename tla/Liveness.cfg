CONSTANTS
    d1 = d1
    d2 = d2
    m1 = m1
    m2 = m2
    m3 = m3
    s1 = s1
    i1 = i1
    a = a
    b = b
    NoDevice = NoDevice
    NoIdentity = NoIdentity
    LocalIdentity = LocalIdentity
    Identities <- None
    Devices <- None
    Readers <- None
    TakeoverStale = 1
    CollapseStale = 1
    DeviceTotal = 100
    Messages = {m1, m2}
    Destinations = {d1, d2}
    Bytes <- UnitBytes
    MaxPending = 2
    MaxAttempts = 2
    Sources = {s1}
    Targets <- Plain
    OtherPaths <- OneElsewhere
    Blockable <- None
    Usages <- NoUsage
    PullLimit = 1
    MaxInflight = 1
    MaxCustodyIds = 2
    MaxCrashes = 0
SPECIFICATION FairSpec
PROPERTY EveryRecordSettles
