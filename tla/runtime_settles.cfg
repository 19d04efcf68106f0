SPECIFICATION QueueSpec
CONSTANTS
    k1 = k1
    r1 = r1
    r2 = r2
    c1 = c1
    None = None
    Service = Service
    Key <- MCKey
    Run <- MCRun
    Starter <- MCStarter
    MaxRepairAttempts = 2
    MaxStarts = 1
    MaxFaults = 2
PROPERTIES
    WorkSettles
