SPECIFICATION FairSpec
CONSTANTS
    d1 = d1
    d2 = d2
    d3 = d3
    g1 = g1
    Nobody = Nobody
    InitialDir <- InstalledDir
    Deployers = {d1, d2}
    Collectors = {g1}
    MaxFaults = 1
PROPERTIES
    DeployProceeds
CHECK_DEADLOCK FALSE
