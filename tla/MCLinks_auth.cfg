SPECIFICATION LinksSpec
CONSTANTS
    a = a
    b = b
    key = key
    NoToken = NoToken
    Node = {a, b}
    Token <- OnlyB
    AuthRequired <- Closed
    Dialers = {a, b}
    Discoverers = {}
    Rekeyers = {}
    Faults = {"dup", "reorder", "overtake"}
    MaxDial = 2
    MaxEph = 3
    MaxTx = 8
    MaxDown = 1
    WindowSize = 3
    RateLimit = 2
    RateWindow = 2
    EmitEvery = 1
    TolLost = 1
    TolOf = 3
    MaxFrames = 5
    MaxTicks = 3
INVARIANTS
    GateHolds
    LossIsReal
    RateHolds
PROPERTIES
    ImplementsStream
CHECK_DEADLOCK FALSE
