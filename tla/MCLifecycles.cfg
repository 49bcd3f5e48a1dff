CONSTANTS
    Bits = 3
    Established <- MCEstablished
    Joining <- MCJoining
    Order <- MCOrder
    MaxConnections = 2
    InitialIdentified = 2
    MaxHops = 10
    None = None

SPECIFICATION SimSpec

INVARIANT SimTypeOK
INVARIANT FixedDegreeBound
INVARIANT NoSelfRelationship
PROPERTY ConnectionsRefined
