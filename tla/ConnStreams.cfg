CONSTANTS
    s1 = s1
    s2 = s2
    Streams <- Two
    IdleStreams = {}
    MaxConcurrentStreams = 1
    RecvCap = 1
    SendCap = 1
    MaxMsgs = 1
    KeepAlive = FALSE
    MayShutDown = FALSE
    MayStall = FALSE
SPECIFICATION Spec
SYMMETRY Symm
INVARIANTS
    TypeOK
    StreamLimit
    SlotHasHandler
    PumpWaitCanEnd
    SendOnlyWhileOpen
