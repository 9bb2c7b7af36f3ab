SPECIFICATION FairSpec
CONSTANTS
    r1 = r1
    r2 = r2
    r3 = r3
    Runs = {r1, r2, r3}
INVARIANTS
    BackupInv
    Unique
PROPERTIES
    OwnBackup
    Answered
CHECK_DEADLOCK FALSE
