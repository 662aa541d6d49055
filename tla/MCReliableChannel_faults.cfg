SPECIFICATION FairSpec
CONSTANTS
    a = a
    b = b
    t1 = t1
    t2 = t2
    Peer = {a, b}
    Task = {t1, t2}
    Attempts = 2
    QueueSize = 1
    SendErrors = TRUE
    KindsOf <- Kinds
    Leavers = {b}
    MaxChannel = 1
    MaxSends <- SendsTwo
INVARIANTS
    OkMeansTaken
    DatagramsOnce
PROPERTIES
    ImplementsStream
    SendsReturn
    ShutdownEnds
CHECK_DEADLOCK FALSE
