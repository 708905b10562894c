CONSTANTS
    n1 = n1
    m1 = m1
    s1 = s1
    client = client
    scan = scan
    other = other
    r1 = r1
    r2 = r2
    Result = {r1, r2}
    Settings = {TRUE}
    Kinds = {"import"}
    Nvt = {n1}
    NoNvt = other
    NewSeverities = {"low"}
    Mine = {m1}
    Shared = {s1}
    Qod = {70}
    MinQod = {70}
    Session = {client, scan}
    Scan = scan
    MaxTime = 3
    MaxCommands = 0
SPECIFICATION CountsSpec
SYMMETRY Ids
INVARIANT
    CountsRight
CHECK_DEADLOCK FALSE
