SPECIFICATION BarrierFairSpec
CONSTANTS
    a = a
    b = b
    c = c
    main = main
    helper = helper
    Ctx = {a, b, c}
    Owner = {main, helper}
    owner <- OwnedByBoth
    Destroyed = {"created", "running"}
INVARIANTS
    CountersSound
PROPERTIES
    BarrierHolds
    BarrierOpens
CHECK_DEADLOCK FALSE
