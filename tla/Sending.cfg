CONSTANTS
    q1 = q1
    s1 = s1
    r1 = r1
    Queue = {q1}
    Sends = {s1}
    Target = Target
    Relays = {r1}
    Nil = Nil
    EventCap = 1
    MaxEvents = 2
    MaxClock = 3
    MaxCopies = 1
SPECIFICATION FairSpec
INVARIANTS
    TypeOK
    NoSilentDrop
    OkIsHonest
PROPERTIES
    AwaitEnds
    RetrySettles
CHECK_DEADLOCK FALSE
