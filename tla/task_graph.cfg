\* Two sessions of one role and a tick over two tasks.
CONSTANTS
    t1 = t1
    t2 = t2
    s1 = s1
    s2 = s2
    i1 = i1
    NoSession = NoSession
    NoStage = "none"
    Task = {t1, t2}
    Session = {s1, s2}
    Iterator = {i1}
    Role = {"reviewer"}
    Stage = {"review", "write"}
    Plan <- MCPlan
    OwnerOf <- MCOwnerOf
    RoleOf <- MCRoleOf
    DependsOn <- MCDependsOn
    PathsOf <- MCPathsOf
    Ruled = {t1}
    Tracked = {t1}
    LeaseTtl = 1
    Most <- MCMost
    ScopeTtl <- MCScopeTtl
SYMMETRY MCSymmetry
SPECIFICATION Spec
INVARIANTS
    TaskGraphTypeOK
    ToldIsOnRecord
    ScopesExclude
    VerdictMatchesStatus
CHECK_DEADLOCK FALSE
