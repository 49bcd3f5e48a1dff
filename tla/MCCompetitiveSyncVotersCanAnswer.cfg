\* Five network tokens, two of them with a conflicting transaction, two
\* peers holding four tokens each, one-bit signature chunks.
CONSTANTS
    NetTokens = {1, 2, 3, 5, 6}
    ConflictTokens = {2, 5}
    OwnToken = 4
    Peers = {0, 1}
    HeldCount = 4
    TargetTokens = 5
    ChunkBits = 1
    NumChunks = 4
    AboveCount = 2
    NumVoters = 3
SPECIFICATION Spec
\* The driver's loop ends at its target or its query budget.
CHECK_DEADLOCK FALSE
INVARIANT VotersCanAnswer
