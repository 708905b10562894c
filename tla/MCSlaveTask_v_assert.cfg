CONSTANTS
    MaxTask = 2
    MaxResult = 1
    MaxFailure = 0
    MaxOlder = 1
    Ops = {"start_task", "stop_task", "delete_report"}
    Faults = {}
SPECIFICATION Spec
INVARIANT
    PollNeverStopped
CHECK_DEADLOCK FALSE
