SPECIFICATION FairSpec
CONSTANTS
    Proc = {p1, p2}
    None = None
    StaleEnabled = TRUE
    MaxTasks = 2
    MaxTries = 2
    MaxCrashes = 1
INVARIANTS TypeOK MutualExclusion NoLostUpdate MetadataNamesHolder
PROPERTIES AbandonedLockRecovered EveryAttemptEnds
CHECK_DEADLOCK FALSE
