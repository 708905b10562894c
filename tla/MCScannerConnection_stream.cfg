CONSTANTS
    BufferSize = 4
    Capacity = 4
    StringLen = 2
    Lens = {1, 2, 3}
    MaxTries = 3
    MaxBytes = 6
    Faults = {"down", "loading", "active", "eof"}
SPECIFICATION FairSpec
INVARIANT
    TypeOK
PROPERTIES
    InOrder
    Delivered
CHECK_DEADLOCK FALSE
