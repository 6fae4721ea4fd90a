SPECIFICATION BackendsSpec
CONSTANTS
    a = a
    b = b
    Coro = {a, b}
    Wake = Wake
    UringExpr <- UringExprs
    IocpExpr <- IocpExprs
    Entries = 2
    MaxFail = 1
INVARIANTS
    CompletionsMatched
    ChainInOrder
    WakeKept
PROPERTIES
    TimersInOrder
    IoServed
CHECK_DEADLOCK FALSE
