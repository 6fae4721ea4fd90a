SPECIFICATION Spec
CONSTANTS
    p1 = p1
    p2 = p2
    c1 = c1
    c2 = c2
    c3 = c3
    x1 = x1
    x2 = x2
    Thread = {x1, x2}
    Parent = {p1, p2}
    Waiter = {c1, c2, c3}
    parentOf <- Parents
    home <- Homes
    Shared = Shared
    MaxNeed = 3
INVARIANTS
    SharedSound
    ResultsRight
PROPERTIES
    GatherReturns
CHECK_DEADLOCK FALSE
