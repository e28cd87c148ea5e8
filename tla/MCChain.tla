------------------------------ MODULE MCChain ------------------------------
(* Values for the constants of Chain: blocks made of a few payloads at the *)
(* heights of a short chain (Short) or a long one (Long).                  *)
EXTENDS Chain, TLC

CONSTANTS
    a, b, c, d, stray,      \* outputs; stray is never created
    n1, n2, n3, n4,            \* nullifiers
    sapling, orchard        \* pools

OutPoints == {a, b, c, d, stray}
Values == {n1, n2, n3, n4}
TwoPools == <<sapling, orchard>>

Reveals(in_sapling, in_orchard) ==
    [p \in Pool |-> IF p = sapling THEN in_sapling ELSE in_orchard]

Payload(spends, creates, nullifiers) ==
    [transparent_spends |-> spends, transparent_creates |-> creates, nullifiers |-> nullifiers]

Short == 1 .. 6
Long  == 0 .. 9

BlocksOf(payloads, heights) ==
    {[height |-> h] @@ p : h \in heights, p \in payloads}

\* Two branches' worth of spends and nullifiers that conflict: with each
\* other, with themselves, and with the capacity of a tree.
Mixed == BlocksOf({
    Payload(<<>>, <<>>, Reveals(<<>>, <<>>)),
    Payload(<<>>, <<a, b>>, Reveals(<<n1>>, <<>>)),
    Payload(<<a>>, <<c>>, Reveals(<<n2, n3>>, <<>>)),
    Payload(<<d, b>>, <<d>>, Reveals(<<>>, <<n1>>)),
    Payload(<<b>>, <<>>, Reveals(<<n4>>, <<n2>>)),
    Payload(<<c, a>>, <<>>, Reveals(<<>>, <<n2>>)),
    Payload(<<b, b>>, <<>>, Reveals(<<>>, <<>>)),
    Payload(<<a, stray>>, <<>>, Reveals(<<>>, <<>>)),
    Payload(<<>>, <<>>, Reveals(<<n4, n4>>, <<>>))}, Short)

\* Blocks that keep the journal busy and the accumulators small.
Plain == BlocksOf({
    Payload(<<>>, <<>>, Reveals(<<>>, <<>>)),
    Payload(<<>>, <<a>>, Reveals(<<n1>>, <<>>)),
    Payload(<<a>>, <<b>>, Reveals(<<n2>>, <<>>))}, Long)

GenesisForward == [allow_unknown_spends |-> FALSE]
Window == [allow_unknown_spends |-> TRUE]

With(interval_, depth, options_, blocks) ==
    [interval |-> interval_, max_depth |-> depth, options |-> options_, served |-> blocks]

AllBlocks == Mixed \cup Plain

\* One journal setting and the conflicting blocks, and every journal setting
\* and the plain blocks.
FromGenesisOnly == {With(2, 2, GenesisForward, Mixed)}
AllFollowers ==
    FromGenesisOnly \cup {With(2, 2, Window, Mixed)}
    \cup {With(s[1], s[2], GenesisForward, Plain) :
              s \in {<<0, 2>>, <<1, 0>>, <<2, 3>>, <<3, 1>>, <<4, 6>>}}
=============================================================================
