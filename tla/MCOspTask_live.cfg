CONSTANTS
    o1 = o1
    c1 = c1
    s1 = s1
    s2 = s2
    h1 = h1
    h2 = h2
    NoTask = NoTask
    Task = {o1}
    CveTask = {}
    Session = {s1, s2}
    Handler = {h1, h2}
    MaxReport = 2
    SerialIds = TRUE
    Ops = {"start_task", "resume_task", "stop_task"}
    Faults = {"fork", "osp", "crash"}
SPECIFICATION FairSpec
INVARIANTS
    NoOrphanReport
    ActiveAttended
PROPERTY
    ScanEnds
CHECK_DEADLOCK FALSE
