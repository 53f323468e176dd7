CONSTANTS
    LastRequest = 2
    MaxSockets = 2
    ConnectWhen <- AnyTime
    SlowPing = TRUE
    MayThrow = TRUE
    SubscribeLate = TRUE
    MayGoSilent = FALSE
SPECIFICATION Spec
INVARIANTS
    TypeOK
    NoCallLost
    SentOnce
    IssueOrder
    QueueEmptyWhenOpen
    CarrierCanEnd
    CancelReachesServer
    NeverStranded
PROPERTIES
    DisconnectIsFinal
    ImplementsCalls
