CONSTANTS
    Name = {"a", "b"}
    MaxNew = 1
    MaxCommands = 6
SPECIFICATION Spec
INVARIANTS
    TypeOK
    RefsKept
    TasksKept
    UniqueNames
    PermissionsKept
CHECK_DEADLOCK FALSE
