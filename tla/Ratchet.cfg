CONSTANTS
    alice = alice
    bob = bob
    Nil = Nil
    Parties = {alice, bob}
    Filings = {"split", "shared"}
    MaxSkip = 1
    MaxSteps = 10
    PqEvery = 1
    MaxSends = 5
    MaxKeys = 4
    MaxRestarts = 1
SPECIFICATION Spec
SYMMETRY Swap
INVARIANTS
    TypeOK
    NoKeyReuse
    KeysAccounted
    OpenedOnce
    RefusedIsTooFar
PROPERTY
    CommitOnSuccess
CHECK_DEADLOCK FALSE
