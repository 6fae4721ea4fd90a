SPECIFICATION ChannelSpec
CONSTANTS
    p1 = p1
    p2 = p2
    c1 = c1
    c2 = c2
    A = A
    B = B
    empty = empty
    full = full
    NoCoro = NoCoro
    Coro = {p1, p2, c1, c2}
    Ctx = {A, B}
    Cv = {empty, full}
    NotEmpty = empty
    NotFull = full
    home <- Apart
    Notifier <- ProducersAndConsumers
    Capacity = 2
    Item = {1, 2}
    NoItem = 0
INVARIANTS
    NobodyForgotten
PROPERTIES
    ImplementsBoundedQueue
