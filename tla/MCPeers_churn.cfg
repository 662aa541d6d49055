SPECIFICATION PeersSpec
CONSTANTS
    a = a
    b = b
    hub = hub
    Node = {a, b, hub}
    Capable = {hub}
    Reachable <- ViaRelay
    Settlements <- Starts
    MaxDirect = 1
    MaxDials = 1
    MaxEvents = 2
    StatsWith = {"Pong"}
    Listener = {a, b}
    Announcements <- Announced
    Preferences <- Preferred
    MaxMeetings = 3
    MaxVoiced = 2
    Device = {a, b}
    MaxSwarms = 3
    MaxAnnounces = 2
    MaxAsked = 2
INVARIANTS
    LookupsCanEnd
    
    RelayIsFound
    VoiceIsUnderstood
CHECK_DEADLOCK FALSE
