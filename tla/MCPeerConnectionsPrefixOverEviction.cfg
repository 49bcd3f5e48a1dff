CONSTANTS
    Bits = 4
    MaxConnections = 3
    Self = 0
    AllPeers <- MCAllPeers
    InitialConnected <- MCInitialConnected
    Policy = "prefix"

SPECIFICATION Spec
INVARIANT NoOverEviction
