\* A tick, a preflight and an agent, and a crash, over one handoff.
CONSTANTS
    k1 = k1
    s1 = s1
    r1 = r1
    p1 = p1
    NoSession = NoSession
    Nobody = Nobody
    Torn = Torn
    Key = {k1}
    Session = {s1}
    Channel = {}
    MaxIntents = 1
    MaxTried = 0
    Requester = {r1}
    Preflight = {p1}
    Role = {"researcher", "coder"}
    RoleOf <- MCRoleOf
    TargetOf <- MCTargetOf
    FirstOwner = "researcher"
    ExternalStatus = {"stale_claim", "completed", "expired"}
    MaxCrashes = 1
SPECIFICATION FairActivationSpec
INVARIANTS
    ActivationTypeOK
    ActivatedOnlyAfterSwitch
PROPERTIES
    FinishedIsCleared
