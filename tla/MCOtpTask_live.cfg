CONSTANTS
    t1 = t1
    s1 = s1
    s2 = s2
    h1 = h1
    h2 = h2
    NoTask = NoTask
    Task = {t1}
    Session = {s1}
    Handler = {h1, h2}
    MaxReport = 2
    SerialIds = FALSE
    Ops = {"start_task", "stop_task", "resume_task", "delete_task", "restore", "empty_trashcan", "delete_report"}
    Faults = {"lock", "uuid", "fork", "send"}
SPECIFICATION FairSpec

INVARIANT NoOrphanReport
PROPERTIES StopWaitingEnds DeleteWaitingEnds
CHECK_DEADLOCK FALSE
