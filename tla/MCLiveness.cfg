CONSTANT None = None

SPECIFICATION FairSpec

\* run_full_simulation leaves its loop once a round sends no vote or
\* leaves no node active; nothing follows.  The lifecycle rounds never stop.
CHECK_DEADLOCK FALSE

INVARIANT TypeOK
INVARIANT NoForcedCommit
PROPERTY EventuallyAllCommit
PROPERTY JoinerWithNonZeroConnects
PROPERTY PendingResolves
