CONSTANTS
    MaxTask = 3
    MaxResult = 1
    MaxFailure = 1
    MaxOlder = 0
    Ops = {"start_task", "stop_task"}
    Faults = {}
SPECIFICATION FairSpec
PROPERTY
    GiveupHonoured
CHECK_DEADLOCK FALSE
