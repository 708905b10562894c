CONSTANTS
    n1 = n1
    m1 = m1
    s1 = s1
    client = client
    scan = scan
    other = other
    r1 = r1
    r2 = r2
    Result = {r1, r2}
    Settings = {FALSE, TRUE}
    Kinds = {"scan", "import"}
    Nvt = {n1}
    NoNvt = other
    NewSeverities = {"low"}
    Mine = {m1}
    Shared = {s1}
    Qod = {70}
    MinQod = {70}
    Session = {client, scan}
    Scan = scan
    MaxTime = 3
    MaxCommands = 2
SPECIFICATION CountsSpec
SYMMETRY Ids
INVARIANTS
    CountsTypeOK
    CacheRight
CHECK_DEADLOCK FALSE
