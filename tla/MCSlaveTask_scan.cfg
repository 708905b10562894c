CONSTANTS
    MaxTask = 2
    MaxResult = 1
    MaxFailure = 1
    MaxOlder = 0
    Ops = {"start_task", "resume_task", "stop_task", "delete_task"}
    Faults = {"login", "refuse", "data", "slave", "signal", "crash"}
SPECIFICATION FairSpec
INVARIANTS
    PollNeverStopped
    CleanedUp
PROPERTY
    Followed
CHECK_DEADLOCK FALSE
