\* A bridge and a compact node on chains of up to four blocks.
CONSTANTS
    a = a  b = b  c = c  d = d  e = e  f = f
    n1 = n1  n2 = n2
    sapling = sapling  orchard = orchard
    OutPoint <- OutPoints
    Value <- Values
    PoolOrder <- TwoPools
    NullifierCapacity = 3
    Block <- Blocks
    LastHeight = 4
    keep = 2
SPECIFICATION Spec
INVARIANTS NodeMatchesColdReplay NodeFollowsBridge BundlesAreTheNewest
PROPERTIES NodeImplementsLedger
