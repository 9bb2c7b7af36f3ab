SPECIFICATION FairSpec
CONSTANTS
    r1 = r1
    r2 = r2
    d1 = d1
    d2 = d2
    Runs = {r1, r2}
    Devices = {d1, d2}
    Probes = 6
PROPERTIES
    HealthyRefused
CHECK_DEADLOCK FALSE
