\* Joining peer 1 is nearest to 0 on the 2-bit ring (distance 1, against
\* 2 to peer 3), so _initialize_network tells it of 0 only.
CONSTANTS
    Bits = 2
    Established <- MCEstablished
    Joining <- MCJoining
    Order <- MCOrder
    MaxConnections = 1
    InitialIdentified = 1
    MaxHops = 10
    None = None

SPECIFICATION FairSpec

PROPERTY GradientJoinerConnects
