SPECIFICATION FairSpec
CONSTANTS
    a = a
    b = b
    c = c
    t = t
    Coro = {a, b, c}
    Thread = {t}
    RingCap = 2
    MaxEvents = 3
    MaxPosts = 1
    NoCoro = NoCoro
    Wake = Wake
INVARIANTS
    HandlesConserved
    NoWakeLost
    ResidueResumed
PROPERTIES
    FifoKept
    LoopServes
CHECK_DEADLOCK FALSE
