SPECIFICATION TransportsSpec
CONSTANTS
    a = a
    b = b
    i = i
    j = j
    NoToken = NoToken
    Node = {a, b}
    Token <- NoTokens
    AuthRequired <- Open
    Dialers = {a}
    Discoverers = {a, b}
    Rekeyers = {b}
    Faults = {"dup", "reorder", "senderr", "overtake"}
    MaxDial = 2
    MaxEph = 4
    MaxTx = 4
    MaxDown = 1
    Browser = {a, b}
    Chats = {a}
    Greeters = {}
    Answerers = {}
    Invite = {i, j}
    Capacity = 1
    Buffer = 1
    MaxIdentities = 3
    MaxSockets = 2
    MaxTexts = 3
INVARIANTS
    ResponderAgreement
    NonceUsedOnce
    OneConversation
CHECK_DEADLOCK FALSE
