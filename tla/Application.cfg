SPECIFICATION FairSpec
CONSTANTS
    v1 = v1
    v2 = v2
    None = None
    Vault = {v1, v2}
    MaxKeys = 2
    MaxImports = 1
INVARIANTS
    TypeOK
    FrameShowsCurrentTree
    SessionFollowsVault
    SaveOwnsTheTree
PROPERTIES
    WarnsBeforeLocking
    ReplayResolved
