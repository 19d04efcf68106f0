\* One call and one pass over one handoff.
CONSTANTS
    k1 = k1
    NoSession = NoSession
    d1 = d1
    j1 = j1
    Key = {k1}
    Session = {}
    Channel = {"lobster", "runtime_queue"}
    MaxIntents = 1
    MaxTried = 0
    Deliverer = {d1}
    Ladder <- MCSkippingLadder
    ChannelCap = 1
    MaxTotal = 2
    LobsterEnabled = FALSE
    AgentStatus = {"acknowledged", "claimed", "activated", "completed", "failed"}
    MaxFaults = 1
    Janitor = {j1}
SPECIFICATION FairMaintenanceSpec
PROPERTIES
    DeliveryEnds
    DispatchingMovesOn
