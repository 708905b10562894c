CONSTANTS
    t1 = t1
    s1 = s1
    s2 = s2
    h1 = h1
    h2 = h2
    NoTask = NoTask
    Task = {t1}
    Session = {s1}
    Handler = {h1, h2}
    MaxReport = 1
    SerialIds = TRUE
    Ops = {"start_task", "stop_task", "delete_task"}
    Faults = {}
SPECIFICATION Spec

INVARIANT NotRemovedWhileScanned
CHECK_DEADLOCK FALSE
