CONSTANTS
    Word = 16
    MaxPayloadSize = 4
    Margin = 2
    Calls = {1, 2}
    FirstId = 15
    Methods <- AllKinds
    Payloads <- AnySizes
    MaxReplies = 2
    Failures = {13}
    MaxConcurrentStreams = 1
    MayShutDown = TRUE
SPECIFICATION FairSpec
PROPERTIES
    ImplementsRpc
    Answered
CHECK_DEADLOCK FALSE
