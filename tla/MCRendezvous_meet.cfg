SPECIFICATION Spec
CONSTANTS
    c = c
    d = d
    l = l
    m = m
    n = n
    Connector = {c, d}
    Listener = {l}
    Mesh = {m, n}
    Casts <- Parties
    RemoteAddrs <- Remotes
    Hints <- FromDht
    Servers <- Relays
    Allowed <- Listed
    LastSlot = 2
    MaxAccepts = 2
    MaxRuns = 2
    Runs <- Tries
    QueueCap = 1
    Dup = FALSE
INVARIANTS
    SessionsAgree
    ClosedByEarlier
PROPERTIES
    CallsReturn
CHECK_DEADLOCK FALSE
