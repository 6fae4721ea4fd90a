SPECIFICATION FairSpec
CONSTANTS
    a1 = a1
    a2 = a2
    b1 = b1
    b2 = b2
    A = A
    B = B
    Coro = {a1, a2, b1, b2}
    Ctx = {A, B}
    home <- TwoByTwo
    NotLocked = NotLocked
    LockedNoAwaiting = LockedNoAwaiting
INVARIANTS
    ListSound
    HolderSound
PROPERTIES
    WaiterServed
    ImplementsFifoLock
