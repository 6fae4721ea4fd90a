SPECIFICATION TypesSpec
CONSTANTS
    f1 = f1
    f2 = f2
    f3 = f3
    x1 = x1
    x2 = x2
    g1 = g1
    g2 = g2
    g3 = g3
    Main = Main
    Noop = Noop
    Frame = {f1, f2, f3}
    Thread = {x1, x2}
    SizeOf <- Sizes
    Overaligned = {"over"}
    PoolSlots = 2
    Gen = {g1, g2, g3}
    User = User
    None = None
    Yields = 2
    Layout <- Layouts
    o1 = o1
    o2 = o2
    o3 = o3
    d1 = d1
    d2 = d2
    s1 = s1
    s2 = s2
    Object = {o1, o2, o3}
    Fd = {d1, d2}
    Session = {s1, s2}
    Invalid = Invalid
    Errno = Errno
    MaxClosing = 2
    h1 = h1
    h2 = h2
    Handle = {h1, h2}
    NoHandle = NoHandle
    Bits = 3
    SwapCapacity = 4
SYMMETRY Alike
INVARIANTS
    TasksSound
    GeneratorsSound
    OwnedOnce
PROPERTIES
    RingIsQueue
CHECK_DEADLOCK FALSE
