CONSTANTS
    NvtCount = 5
    ChunkSize = 2
    MaxFeed = 3
    MaxFaults = 2
    Faults = {"connect", "loading", "eof", "kill", "fork", "restart"}
SPECIFICATION FairSpec
INVARIANTS
    TypeOK
    OneFeed
    Complete
PROPERTY
    UpToDate
CHECK_DEADLOCK FALSE
