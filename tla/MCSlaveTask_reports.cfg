CONSTANTS
    MaxTask = 2
    MaxResult = 1
    MaxFailure = 1
    MaxOlder = 1
    Ops = {"start_task", "resume_task", "stop_task", "delete_report"}
    Faults = {"data", "slave", "crash"}
SPECIFICATION Spec
INVARIANTS
    TypeOK
    ResultsComplete
CHECK_DEADLOCK FALSE
