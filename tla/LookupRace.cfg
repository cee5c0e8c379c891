CONSTANTS
    i1 = i1
    i2 = i2
    a = a
    b = b
    c = c
    NoDevice = NoDevice
    Identities <- First
    Devices <- Phones
    Readers <- First
    TakeoverStale = 1
    CollapseStale = 1
SPECIFICATION RegSpec
PROPERTY LookupNeverDislodges
