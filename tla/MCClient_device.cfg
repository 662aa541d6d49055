SPECIFICATION FairSpec
CONSTANTS
    u = u
    v = v
    Peer = {u, v}
    Hosts = {}
    Odd = {u}
    Configs <- Devices
    Queue = 2
    Backlog = 1
    Prebuffer = 2
    Hangover = 1
    MinRate = 40000
    MaxRate = 48000
    FirstRate = 48000
    MaxJoins = 2
    MaxCalls = 1
    MaxInputs = 5
INVARIANTS
    MuteIsPrompt
    LeaveIsPrompt
    HeardInOrder
    EndedMeansBack
PROPERTIES
    UnwantedLeave
    TuningRecovers
CHECK_DEADLOCK FALSE
