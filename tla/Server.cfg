CONSTANTS
    Conns = {c1, c2}
    Callers = {k1, k2}
    MaxStreams = 1
SPECIFICATION FairSpec
INVARIANTS
    ToldUnlessOvertaken
    NilMeansClosed
PROPERTIES
    ShutdownEnds
CHECK_DEADLOCK FALSE
