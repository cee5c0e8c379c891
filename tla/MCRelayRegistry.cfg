CONSTANTS
    i1 = i1
    i2 = i2
    a = a
    b = b
    c = c
    NoDevice = NoDevice
    Identities <- Both
    Devices <- Phones
    Readers <- First
    TakeoverStale = 1
    CollapseStale = 2
SPECIFICATION RegSpec
INVARIANTS RegTypeOK OwnerHolds
PROPERTY IdentityPassesByConsent
