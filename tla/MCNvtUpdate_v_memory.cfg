CONSTANTS
    NvtCount = 2
    ChunkSize = 1
    MaxFeed = 2
    MaxFaults = 0
    Faults = {}
SPECIFICATION FairSpec
PROPERTY
    MemoryFollows
CHECK_DEADLOCK FALSE
