------------------------------ MODULE MCShadow ------------------------------
(* Values for the constants of Shadow: three branches. *)
EXTENDS Shadow

CONSTANTS g, a1, a2, a3, b2, b3, c1, c2

PrefixesOf(c) == {SubSeq(c, 1, length) : length \in 1 .. Len(c)}

\* b forks off after a1, c below it.
Branches == PrefixesOf(<<g, a1, a2, a3>>) \cup PrefixesOf(<<g, a1, b2, b3>>)
                \cup PrefixesOf(<<g, c1, c2>>)
ResumeFrom == {<<>>, <<g>>, <<g, a1>>}
=============================================================================
