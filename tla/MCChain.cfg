\* Blocks that conflict with one another on chains of up to six, and long chains
\* of small blocks under several journal settings: the journal prunes, rolls
\* back and grows again.
CONSTANTS
    a = a  b = b  c = c  d = d  stray = stray
    n1 = n1  n2 = n2  n3 = n3  n4 = n4
    sapling = sapling  orchard = orchard
    OutPoint <- OutPoints
    Value <- Values
    PoolOrder <- TwoPools
    Block <- AllBlocks
    NullifierCapacity = 3
    Followers <- AllFollowers
SPECIFICATION Spec
\* A follower stops after a failed block, and when no block on offer applies.
CHECK_DEADLOCK FALSE
INVARIANTS
    MatchesColdReplay IndexMatchesForest UtxosAreTheUnspentOutputs
    ReachIsKept JournalIsBounded RollbackNeverFailsMidway
PROPERTIES ImplementsLedger
