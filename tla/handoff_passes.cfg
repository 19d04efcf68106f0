\* A handoff and its replacement, under a call, a pass and the agents.
CONSTANTS
    k1 = k1
    NoSession = NoSession
    d1 = d1
    j1 = j1
    Key = {k1}
    Session = {}
    Channel = {"runtime_queue"}
    MaxIntents = 2
    MaxTried = 0
    Deliverer = {d1}
    Ladder <- MCLadder
    ChannelCap = 1
    MaxTotal = 1
    LobsterEnabled = FALSE
    AgentStatus = {"claimed", "failed"}
    MaxFaults = 0
    Janitor = {j1}
SPECIFICATION MaintenanceSpec
INVARIANTS
    MaintenanceTypeOK
    TwinLostOnlyByRevival
