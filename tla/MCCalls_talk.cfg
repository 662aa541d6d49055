SPECIFICATION FairSpec
CONSTANTS
    a = a
    b = b
    q = q
    Node = {a, b, q}
    Qt = {q}
    MaxCall = 2
    MaxLost = 1
INVARIANTS
    Consent
    TerminalStaysOut
PROPERTIES
    EndsTogether
    CallerLearns
CHECK_DEADLOCK FALSE
