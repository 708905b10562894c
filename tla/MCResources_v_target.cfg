CONSTANTS
    Name = {"a", "b"}
    MaxNew = 1
    MaxCommands = 5
SPECIFICATION Spec
INVARIANT
    TargetKept
CHECK_DEADLOCK FALSE
