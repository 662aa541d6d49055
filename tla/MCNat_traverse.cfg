SPECIFICATION NatSpec
CONSTANTS
    a = a
    b = b
    port1 = port1
    port2 = port2
    Peer = {b}
    Task = {a}
    Node = {a, b}
    Self = a
    Port = {port1, port2}
    Bindable <- Configured
    MaxAttempts <- Times
    MaxLoss = 1

    
PROPERTIES
    PunchesMeet
    PortsReturn
CHECK_DEADLOCK FALSE
