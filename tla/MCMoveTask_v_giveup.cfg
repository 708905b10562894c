CONSTANTS
    o1 = o1
    g1 = g1
    s1 = s1
    s2 = s2
    s3 = s3
    h1 = h1
    h2 = h2
    NoScanner = NoScanner
    Otp = {o1}
    Gmp = {g1}
    Session = {s1, s2}
    Handler = {h1, h2}
    Alterable = FALSE
    Ops = {"start_task", "stop_task", "move_task"}
    MaxOps = 4
    Faults = {}
SPECIFICATION Spec
INVARIANT GiveupOnlyForSlaves
CHECK_DEADLOCK FALSE
