SPECIFICATION FairHandoff
CONSTANTS
    yaml = yaml
    extra = extra
    Files = {yaml, extra}
    Required = {yaml}
    Yaml = yaml
    MaxVersion = 1
INVARIANTS
    HandoffInv
    ReadyIsSafe
PROPERTIES
    Answered
    ColdIsCurrent
    StoppedThroughout
CHECK_DEADLOCK FALSE
