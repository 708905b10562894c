CONSTANTS
    t1 = t1
    s1 = s1
    s2 = s2
    h1 = h1
    h2 = h2
    NoTask = NoTask
    Task = {t1}
    Session = {s1, s2}
    Handler = {h1, h2}
    MaxReport = 2
    SerialIds = TRUE
    Ops = {"start_task", "stop_task", "resume_task", "delete_task", "restore", "empty_trashcan"}
    Faults = {"lock", "uuid", "target", "fork", "send", "scanner", "kill", "crash"}
SPECIFICATION Spec
SYMMETRY ProcSymmetry
INVARIANTS
    TypeOK
    ActiveWhileScanned
    SingleReportWriter
PROPERTY
    DoneReportFinal
    ImplementsLock
CHECK_DEADLOCK FALSE
