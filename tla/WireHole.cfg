CONSTANTS
    Word = 16
    MaxPayloadSize = 4
    Margin = 2
    Calls = {1}
    FirstId = 15
    Methods <- Uploads
    Payloads <- Longer
    MaxReplies = 1
    Failures = {13}
    MaxConcurrentStreams = 1
    MayShutDown = FALSE
SPECIFICATION Spec
INVARIANTS
    UploadComplete
CHECK_DEADLOCK FALSE
