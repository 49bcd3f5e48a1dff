CONSTANTS
    Nodes = {0, 1, 2, 3}
    ConnectionsPerNode = 2
    StartingNodes = 2
    ByzantinePct = 50
    ReverseByzantine = FALSE
    IllegalResistance = FALSE
    PartitionMode = "none"
    PartitionPct = 50

SPECIFICATION Spec

\* run_full_simulation leaves its loop once a round sends no vote or
\* leaves no node active; nothing follows.
CHECK_DEADLOCK FALSE

PROPERTY ByzantineVotesDelivered
