CONSTANTS
    Bits = 3
    Established <- MCEstablished
    Joining <- MCJoining
    Order <- MCOrder
    MaxConnections = 2
    InitialIdentified = 1
    MaxHops = 10
    None = None

SPECIFICATION Spec

INVARIANT MaintenanceDeferred
