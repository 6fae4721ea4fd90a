SPECIFICATION Spec
CONSTANTS
    a = a
    b = b
    c = c
    A = A
    B = B
    C = C
    Coro = {a, b, c}
    Ctx = {A, B, C}
    home <- OneEach
    NoCoro = NoCoro
    Desired = 0
    MaxUpdate = 2
    MaxCount = 2
INVARIANTS
    WaitersListed
    UnitsMeetWaiters
PROPERTIES
    ServedInOrder
CHECK_DEADLOCK FALSE
