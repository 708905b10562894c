CONSTANTS
    o1 = o1
    c1 = c1
    s1 = s1
    s2 = s2
    h1 = h1
    h2 = h2
    NoTask = NoTask
    Task = {o1, c1}
    CveTask = {c1}
    Session = {s1}
    Handler = {h1, h2}
    MaxReport = 2
    SerialIds = FALSE
    Ops = {"start_task", "resume_task", "stop_task", "delete_task", "delete_report"}
    Faults = {"fork", "osp", "crash", "kill"}
SPECIFICATION Spec
SYMMETRY ProcSymmetry
INVARIANT TypeOK
CHECK_DEADLOCK FALSE
