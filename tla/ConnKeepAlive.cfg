CONSTANTS
    s1 = s1
    s2 = s2
    Streams = {s1}
    IdleStreams = {}
    MaxConcurrentStreams = 1
    RecvCap = 1
    SendCap = 1
    MaxMsgs = 0
    KeepAlive = TRUE
    MayShutDown = FALSE
    MayStall = TRUE
SPECIFICATION FairSpec
PROPERTIES
    CleanUp
    UnansweredPingCloses
