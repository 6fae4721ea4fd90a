SPECIFICATION Spec
CONSTANTS
    n1 = n1
    n2 = n2
    w1 = w1
    w2 = w2
    w3 = w3
    A = A
    B = B
    cv = cv
    NoCoro = NoCoro
    Coro = {n1, n2, w1, w2, w3}
    Ctx = {A, B}
    Cv = {cv}
    home <- OnTwo
    Notifier <- NotifiedFromA
INVARIANTS
    WaitersSound
PROPERTIES
    NotifyFindsWaiter
    ServedInOrder
CHECK_DEADLOCK FALSE
