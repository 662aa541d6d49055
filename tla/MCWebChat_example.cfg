SPECIFICATION WebSpec
CONSTANTS
    a = a
    b = b
    i = i
    Browser = {a, b}
    Chats = {a, b}
    Greeters = {a}
    Answerers = {}
    Invite = {i}
    Capacity = 2
    Buffer = 1
    MaxIdentities = 2
    MaxSockets = 2
    MaxTexts = 2
INVARIANTS
    CallbacksMaySend
CHECK_DEADLOCK FALSE
