CONSTANTS
    BufferSize = 4
    Capacity = 4
    StringLen = 2
    Lens = {1}
    MaxTries = 3
    MaxBytes = 1
    Faults = {"down", "loading", "active"}
SPECIFICATION Spec
INVARIANT
    DownWhenDown
CHECK_DEADLOCK FALSE
