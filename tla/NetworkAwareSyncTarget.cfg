\* Five network tokens of a 3-bit space, a sample of four per query, the
\* own token 4 and the address 0, a target of four mappings, one-bit
\* signature chunks.  The queue filter keeps tokens at XOR distance below
\* 2 of the address and the refill filter below 4: far wider shares of
\* the space than 2^32 and 2^40 are of 2^256.
CONSTANTS
    NetTokens = {1, 2, 3, 5, 6}
    AvailCount = 4
    Address = 0
    OwnToken = 4
    TargetTokens = 4
    NearBound = 2
    RefillBound = 4
    ChunkBits = 1
    NumChunks = 4
    AboveCount = 2

SPECIFICATION Spec

\* The trial ends after its final conflict resolution.
CHECK_DEADLOCK FALSE

INVARIANT ReachesTargetOrLimit
