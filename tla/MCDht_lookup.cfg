SPECIFICATION DhtSpec
CONSTANTS
    a = a
    b = b
    Device = {a, b}
    MaxSwarms = 3
    MaxAnnounces = 2
    MaxAsked = 2
INVARIANTS
    LookupFindsPeers
CHECK_DEADLOCK FALSE
