CONSTANTS
    MaxChunks = 4
    MaxFaults = 2
SPECIFICATION FairSpec
INVARIANT TypeOK
INVARIANT LeakOnlyAfterError
INVARIANT NoRing
PROPERTY Returns
PROPERTY WorkEnds
PROPERTY ImplementsFileCopy
CHECK_DEADLOCK FALSE
