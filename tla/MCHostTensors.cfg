CONSTANTS
    t1 = t1
    t2 = t2
    b1 = b1
    b2 = b2
    b3 = b3
    h1 = h1
    h2 = h2
    h3 = h3
    NoBlock = NoBlock
    NoBytes = NoBytes
    Threads <- MCThreads
    Blocks <- MCBlocks
    Handles <- MCHandles
    Shards = 2
    Classes = {1, 3, 5}
    SlabMax = 3
    MediumMax = 5
    HugePage = 2
    UploadSizes = {1, 2, 3, 5}
    ArenaSizes = {4}
    ArenaUses = {1, 2}
    Align = 2
    MaxEpoch = 1
SYMMETRY MCSymmetry
SPECIFICATION Spec
INVARIANTS
    EveryBlockHasOneHolder
    BlocksFitTheirRequest
    ViewableBytesAreDisjoint
CHECK_DEADLOCK FALSE
