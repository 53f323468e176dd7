CONSTANTS
    Word = 16
    MaxPayloadSize = 4
    Margin = 2
    Calls = {1, 2, 3}
    FirstId = 13
    Methods <- PlainOrChat
    Payloads <- OneMessage
    MaxReplies = 1
    Failures = {13}
    MaxConcurrentStreams = 1
    MayShutDown = FALSE
SPECIFICATION Spec
INVARIANTS
    TypeOK
    ResetHarmless
    FramesKeepTheirStream
PROPERTIES
    ImplementsRpc
CHECK_DEADLOCK FALSE
