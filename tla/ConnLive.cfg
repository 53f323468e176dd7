CONSTANTS
    s1 = s1
    s2 = s2
    Streams = {s1}
    IdleStreams = {}
    MaxConcurrentStreams = 1
    RecvCap = 1
    SendCap = 2
    MaxMsgs = 2
    KeepAlive = FALSE
    MayShutDown = FALSE
    MayStall = TRUE
SPECIFICATION FairSpec
INVARIANTS
    NoSendOnClosed
    NothingAfterEnd
PROPERTIES
    PumpReleased
    CleanUp
    TrailersWritten
