SPECIFICATION Spec
CONSTANTS
    p1 = p1
    p2 = p2
    p3 = p3
    f1 = f1
    f2 = f2
    Procs = {p1, p2}
    NumRoots = 2
    Files = {f1, f2}
    FileOf <- Distinct
SYMMETRY Symmetry
INVARIANTS
    IInv
PROPERTIES
    CleanStart
    TruthfulSuccess
    KeepsPromise
CHECK_DEADLOCK FALSE
