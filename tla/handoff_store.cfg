\* Two intents, of one key or of two: a handoff and its replacement, or two
\* handoffs that must not disturb each other.
CONSTANTS
    k1 = k1
    k2 = k2
    s1 = s1
    NoSession = NoSession
    Key = {k1, k2}
    Session = {s1}
    Channel = {"native_runtime"}
    MaxIntents = 2
    MaxTried = 1
SPECIFICATION StoreSpec
INVARIANTS
    StoreTypeOK
    UniqueUnlessRevived
PROPERTIES
    TerminalIsFinal
    KeepsPromise
