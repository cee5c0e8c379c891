CONSTANTS
    m1 = m1
    m2 = m2
    m3 = m3
    p1 = p1
    p2 = p2
    Msgs = {m1, m2, m3}
    Peers = {p1, p2}
    MAX_QUEUE_PER_PEER = 2
    MAX_TOTAL_QUEUED = 2
    MaxQueued = 3
    MaxErrors = 2
    MaxAge = 3
    MAX_MESSAGES = 2
    Ttl = 3
    Instants = {1, 3, 7}
    MaxCrashes = 1
SPECIFICATION Spec
SYMMETRY Symmetric
INVARIANTS
    TypeOK
    TotalExact
    NoSilentLoss
    ConfirmedLeaves
PROPERTY
    AttemptsSpaced
CHECK_DEADLOCK FALSE
