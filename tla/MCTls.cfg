SPECIFICATION FairSpec
CONSTANTS
    Parts = 3
    RawSize = 2
    Buffer = 2
    MaxData = 1
    MaxResets = 1
INVARIANTS
    RecordsIntact
    NothingWithheld
    FullyReceived
PROPERTIES
    CallsEnd
CHECK_DEADLOCK FALSE
