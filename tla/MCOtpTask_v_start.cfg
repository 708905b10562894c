CONSTANTS
    t1 = t1
    s1 = s1
    s2 = s2
    h1 = h1
    h2 = h2
    NoTask = NoTask
    Task = {t1}
    Session = {s1, s2}
    Handler = {h1, h2}
    MaxReport = 3
    SerialIds = TRUE
    Ops = {"start_task", "delete_report"}
    Faults = {}
SPECIFICATION Spec

INVARIANT SingleScan
CHECK_DEADLOCK FALSE
