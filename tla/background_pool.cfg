SPECIFICATION PoolSpec
CONSTANTS
    s1 = s1
    s2 = s2
    k1 = k1
    k2 = k2
    r1 = r1
    r2 = r2
    r3 = r3
    c1 = c1
    c2 = c2
    None = None
    Session <- MCSession
    Kind <- MCKind
    Run <- MCRun
    MaxFaults = 1
    Caller <- MCCaller
    Doomed <- MCDoomed
    Capacity = 1
SYMMETRY MCSymmetry
INVARIANTS
    PoolTypeOK
    LiveRunsTracked
    CapacityOverrunBounded
PROPERTIES
    ReusesIdle
    DeletesOnlyRetired
