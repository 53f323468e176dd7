CONSTANTS
    LastRequest = 1
    MaxSockets = 3
    ConnectWhen <- Once
    SlowPing = TRUE
    MayThrow = FALSE
    SubscribeLate = FALSE
    MayGoSilent = TRUE
SPECIFICATION FairSpec
INVARIANTS
    OneSocketUntilAgain
    NoTimerLeak
PROPERTIES
    QueueDrains
    SilentServerDropped
