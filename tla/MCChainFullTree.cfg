\* A block whose nullifiers do not fit the tree any more.
CONSTANTS
    a = a  b = b  c = c  d = d  stray = stray
    n1 = n1  n2 = n2  n3 = n3  n4 = n4
    sapling = sapling  orchard = orchard
    OutPoint <- OutPoints
    Value <- Values
    PoolOrder <- TwoPools
    Block <- AllBlocks
    NullifierCapacity = 3
    Followers <- FromGenesisOnly
SPECIFICATION Spec
\* A follower stops after a failed block, and when no block on offer applies.
CHECK_DEADLOCK FALSE
INVARIANTS FailedBlockLeavesState
