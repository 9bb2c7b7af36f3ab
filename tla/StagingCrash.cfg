SPECIFICATION StagingSpec
CONSTANTS
    c1 = c1
    c2 = c2
    p1 = p1
    p2 = p2
    cold1 = cold1
    cold2 = cold2
    hot = hot
    Commands = {c1, c2}
    Bundles = {cold1, cold2, hot}
    Cold = {cold1, cold2}
    Captures = {p1, p2}
    Required <- MCRequired
    Optional <- MCOptional
    MaxVersion = 2
    Sources <- MCSources
SYMMETRY Symmetry
INVARIANTS
    StageInv
    AcceptedIsWhole
    DoneIsUsable
    SnapshotIsWhole
    PlanIsTrue
    SnapshotInv
    TargetIsMinimal
CHECK_DEADLOCK FALSE
