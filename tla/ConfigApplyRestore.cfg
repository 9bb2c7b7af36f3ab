SPECIFICATION UnkilledSpec
CONSTANTS
    p1 = p1
    p2 = p2
    p3 = p3
    f1 = f1
    f2 = f2
    Procs = {p1}
    NumRoots = 2
    Files = {f1}
    FileOf <- Aliased
INVARIANTS
    RestoredOnFailure
CHECK_DEADLOCK FALSE
