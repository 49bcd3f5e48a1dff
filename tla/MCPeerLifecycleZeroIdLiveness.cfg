CONSTANTS
    Bits = 2
    Established <- MCEstablishedSmall
    Joining <- MCJoiningSmall
    Order <- MCOrderSmall
    MaxConnections = 1
    InitialIdentified = 1
    MaxHops = 10
    None = None

SPECIFICATION FairSpec

PROPERTY JoinerConnects
