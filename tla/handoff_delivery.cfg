\* Two calls deliver one handoff at once.
CONSTANTS
    k1 = k1
    s1 = s1
    NoSession = NoSession
    d1 = d1
    d2 = d2
    Key = {k1}
    Session = {s1}
    Channel <- MCChannel
    MaxIntents = 1
    MaxTried = 0
    Deliverer = {d1, d2}
    Ladder <- MCLadder
    ChannelCap = 1
    MaxTotal = 3
    LobsterEnabled = FALSE
    AgentStatus = {"acknowledged", "claimed", "activated", "completed", "failed"}
    MaxFaults = 1
SPECIFICATION DeliverySpec
INVARIANTS
    DeliveryTypeOK
    BudgetOverrunBounded
    DispatchesOnRecord
    EscalationJustified
