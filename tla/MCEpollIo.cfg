SPECIFICATION FairSpec
CONSTANTS
    a = a
    b = b
    w = w
    Coro = {a, b}
    Worker = {w}
    MaxFd = 2
    Kind = {"accept", "send", "file", "timer", "close"}
    Duplex = FALSE
    MaxSync = 1
    MaxReap = 4
    NoCoro = NoCoro
INVARIANTS
    FramesSafe
    NoneForgotten
PROPERTIES
    ImplementsAsyncIo
    Served
CHECK_DEADLOCK FALSE
