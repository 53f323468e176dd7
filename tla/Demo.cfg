CONSTANTS
    LastRequest = 2
    MaxSockets = 2
    ConnectWhen = {"fresh"}
    SlowPing = TRUE
    MayThrow = TRUE
    SubscribeLate = FALSE
    MayGoSilent = FALSE
    Slots = {"ticker", "stream1"}
SPECIFICATION DemoSpec
INVARIANTS
    SlotTracksCall
PROPERTIES
    DestroyedIsQuiet
CHECK_DEADLOCK FALSE
