SPECIFICATION OpenSpec
CONSTANTS
    database = database
    backup = backup
    extra = extra
    Files = {database, extra}
    Required = {database}
    MaxVersion = 2
INVARIANTS
    Snapshot
    SnapInv
CHECK_DEADLOCK FALSE
