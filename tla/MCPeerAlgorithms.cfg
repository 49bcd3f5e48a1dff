CONSTANTS
    Bits = 4
    MaxConnections = 3
    MaxHops = 10
    None = None

SPECIFICATION Spec
INVARIANT TypeOK
INVARIANT BoundAfterEnforce
INVARIANT NoOverEviction
INVARIANT ClosestKeptInBucket
INVARIANT FurthestClassesFirst
INVARIANT RouterMatchesReference
