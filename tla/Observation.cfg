SPECIFICATION ObservationSpec
CONSTANTS
    n1 = n1
    n2 = n2
    n3 = n3
    Neighbors = {n1, n2, n3}
    Routers = {n1, n2}
    PageSize = 1
    Minimum = 2
    MaxChanges = 2
    MaxHeld = 2
    MaxCaptures = 2
    m1 = m1
    m2 = m2
    Members = {m1, m2}
    MaxTime = 1
SYMMETRY Symmetry
INVARIANTS
    PaginationInv
    ReportIsTrue
    AssessIsTrue
PROPERTIES
    WholeWhenStill
    PopulationWasReal
CHECK_DEADLOCK FALSE
