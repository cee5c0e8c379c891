CONSTANTS
    d1 = d1
    m1 = m1
    t1 = t1
    Forms = {"pk:K", "K", "I", "P"}
    Devices = {d1}
    Inbound = {m1}
    Threads = {t1}
    Nil = Nil
    MaxCalls = 3
    MaxCrashes = 1
SPECIFICATION Spec
INVARIANTS
    TypeOK
    BlockHolds
    HiddenWhileBlocked
    UnblockClears
    UnblockReveals
    PurgeHolds
CHECK_DEADLOCK FALSE
