SPECIFICATION SessionsSpec
CONSTANTS
    a = a
    b = b
    password = password
    Node = {a, b}
    Peer = {a, b}
    Rank <- Order
    GroupKey = TRUE
    Overlap = FALSE
    Ordered = TRUE
    MaxEph = 6
    MaxKeyPairs = 6
    MaxLink = 3
    MaxDown = 0
    MaxDrops = 2
    MaxSend = 2
    NoToken = NoToken
    Token <- Joint
    AuthRequired <- Closed
    Dialers = {a}
    Discoverers = {}
    Rekeyers = {}
    Faults = {}
    MaxDial = 1
    MaxTx = 10
INVARIANTS
    KeyAgreement
    EncryptedIsReadable
    InStep
PROPERTIES
    Converges
    DialsSucceed
CHECK_DEADLOCK FALSE
