CONSTANTS
    t1 = t1
    s1 = s1
    p1 = p1
    p2 = p2
    NoSchedule = NoSchedule
    NoTask = NoTask
    Task = {t1}
    ScheduleId = {s1}
    Def <- OddDefs
    Starter = {p1}
    SCHEDULE_PERIOD = 2
    Timeout = 4
    MaxTime = 12
    Horizon = 3
    Latency = 4
    MaxStopper = 1
    Ops = {"start_task", "stop_task", "modify_task", "modify_schedule"}
    MaxOps = 2
    Faults = {"fork", "fork_connection", "login", "stop_login", "stop_fork", "crash"}
    MaxFaults = 1
SPECIFICATION FairSpec
INVARIANTS
    TypeOK
    OnceOffOnce
    PeriodsRespected
PROPERTIES
    DueStarted
    WindowCloses
CHECK_DEADLOCK FALSE
