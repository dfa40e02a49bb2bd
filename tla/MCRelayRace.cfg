SPECIFICATION Spec
CONSTANTS
    d1 = d1
    d2 = d2
    d3 = d3
    g1 = g1
    Nobody = Nobody
    InitialDir <- InstalledDir
    Deployers = {d1, d2}
    Collectors = {g1}
    MaxFaults = 0
INVARIANTS
    OneInstaller
CHECK_DEADLOCK FALSE
