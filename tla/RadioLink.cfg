SPECIFICATION RadioSpec
CONSTANTS
    r1 = r1
    r2 = r2
    d1 = d1
    d2 = d2
    Runs = {r1, r2}
    Devices = {d1, d2}
    Probes = 2
    Tools = {"usb", "reset", "endpoint", "readonly"}
    MaxItems = 3
    i1 = i1
    i2 = i2
    Programs = {"probe", "inspect", "nv"}
    Images = {i1, i2}
    Expected = i1
    Tables <- MCTables
    End = 2
    MaxLate = 3
    MaxFlashed = 1
INVARIANTS
    ResetInv
    SingleShot
    TakenIsFrame
    FirstAnswer
    OwnAnswers
    ScanIsTrue
PROPERTIES
    NotUnderNetwork
    VerifiedTrue
    Answered
CHECK_DEADLOCK FALSE
