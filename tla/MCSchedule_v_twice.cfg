CONSTANTS
    t1 = t1
    s1 = s1
    p1 = p1
    p2 = p2
    NoSchedule = NoSchedule
    NoTask = NoTask
    Task = {t1}
    ScheduleId = {s1}
    Def <- EvenDefs
    Starter = {p1}
    SCHEDULE_PERIOD = 2
    Timeout = 60
    MaxTime = 8
    Horizon = 1
    Latency = 2
    MaxStopper = 1
    Ops = {"modify_task"}
    MaxOps = 1
    Faults = {}
    MaxFaults = 0
SPECIFICATION Spec
INVARIANT OnceOffOnce
CHECK_DEADLOCK FALSE
