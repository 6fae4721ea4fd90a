SPECIFICATION RendezvousSpec
CHECK_DEADLOCK FALSE
CONSTANTS
    s = s
    r = r
    A = A
    acquired = acquired
    release = release
    NoCoro = NoCoro
    Coro = {s, r}
    Ctx = {A}
    Cv = {acquired, release}
    Acquired = acquired
    Released = release
    home <- Together
    Notifier <- Sides
    Item = {1}
    NoItem = 0
INVARIANT UnlocksLocked
