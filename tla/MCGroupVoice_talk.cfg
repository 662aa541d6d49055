SPECIFICATION Spec
CONSTANTS
    Node = {1, 2, 3}
    Capable = {2, 3}
    MeshMax = 1
    GroupKey = TRUE
    Groups <- Starts
    Dials <- All
    Secret = {{1, 3}}
    Leavers = {1}
    Speakers = {1, 3}
    MaxEvents = 3
    MaxHops = 2
INVARIANTS
    PlayedInOrder
    NoEcho
    AllHear
CHECK_DEADLOCK FALSE
