----------------------------- MODULE MCCompact -----------------------------
(* Values for the constants of Compact. *)
EXTENDS Compact, TLC

CONSTANTS
    a, b, c, d, e, f,       \* outputs
    n1, n2,                 \* nullifiers
    sapling, orchard,       \* pools
    LastHeight

OutPoints == {a, b, c, d, e, f}
Values == {n1, n2}
TwoPools == <<sapling, orchard>>

Payload(spends, creates, in_sapling, in_orchard) ==
    [transparent_spends |-> spends, transparent_creates |-> creates,
     nullifiers |-> [p \in Pool |-> IF p = sapling THEN in_sapling ELSE in_orchard]]

At(heights, payload) == {[height |-> h] @@ payload : h \in heights}
Heights == 1 .. LastHeight

\* Five outputs make a tree of four and one of one; e is the tree of one.
Blocks == UNION {
    At({1}, Payload(<<>>, <<a, b, c, d, e>>, <<n1>>, <<>>)),
    At(Heights, Payload(<<e>>, <<>>, <<n2>>, <<>>)),
    At(Heights, Payload(<<f, a>>, <<f>>, <<>>, <<n1>>)),
    At(Heights, Payload(<<b>>, <<f>>, <<>>, <<>>)),
    At({2, 3}, Payload(<<>>, <<f>>, <<>>, <<>>)),
    At(Heights, Payload(<<f, c>>, <<>>, <<>>, <<n1, n2>>))}
=============================================================================
