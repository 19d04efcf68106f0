\* Two routes of one task's failure at once, a completion, and the handoffs.
CONSTANTS
    f1 = f1
    f2 = f2
    t1 = t1
    r1 = r1
    r2 = r2
    NoTask = NoTask
    NoSession = NoSession
    Failure = {f1}
    Task = {t1}
    TaskOf <- MCTaskOf
    Budget = 2
    Router = {r1, r2}
    HandlerStatus = {"dispatching", "completed", "expired", "escalated"}
    MaxItems = 2
    MaxRoutes = 5
    MaxCrashes = 1
    Key <- MCKey
    Session = {}
    Channel = {}
    MaxIntents = 3
    MaxTried = 0
SPECIFICATION RoutingSpec
INVARIANTS
    RoutingTypeOK
    TwinsOnlyByReopening
    LoopIsHeard
    EscalationIsTold
