\* A handoff is superseded between the look of its target and the claim.
CONSTANTS
    k1 = k1
    s1 = s1
    r1 = r1
    NoSession = NoSession
    Nobody = Nobody
    Torn = Torn
    Key = {k1}
    Session = {s1}
    Channel = {}
    MaxIntents = 1
    MaxTried = 0
    Requester = {r1}
    Preflight = {}
    Role = {"researcher", "coder"}
    RoleOf <- MCRoleOf
    TargetOf <- MCTargetOf
    FirstOwner = "researcher"
    ExternalStatus = {"superseded"}
    MaxCrashes = 0
SPECIFICATION ActivationSpec
INVARIANTS
    OwnerHasClaimed
