------------------------------- MODULE Cohort -------------------------------
(***************************************************************************)
(* Private spend-status queries on the indexed Merkle tree                 *)
(* (crates/zutreexo-accumulator/src/cohort.rs): the bridge proves every    *)
(* leaf whose value has a prefix, the wallet checks the cohort against a   *)
(* root and settles its own value in it.                                   *)
(*                                                                         *)
(* A cohort's leaf list, whose indices must ascend strictly, is a function *)
(* from leaf indices to leaves; its node map is a function from            *)
(* <<level, index>>.  The depth a cohort states is taken to be the tree's: *)
(* at another, no leaf's digest is where the root commits to one.          *)
(***************************************************************************)
EXTENDS Imt

CONSTANT ValueBits          \* the width of a nullifier: 256 in the code

ASSUME ValueBitsAssumption ==
    ValueBits \in Nat \ {0, 1} /\ Value \subseteq 1 .. 2 ^ ValueBits - 1

\* Follows from the first half; stated because the provers do not do powers.
ASSUME BucketAssumption == \A bits \in 0 .. ValueBits : 2 ^ bits \in Nat \ {0}

Unbounded == -1             \* PrefixRange::hi of the topmost bucket: None

\* Prefix widths are at least one bit and leave more than one value a bucket.
PrefixBits == 1 .. ValueBits - 1

\* PrefixRange::covering: the prefix bits kept, the rest cleared; the upper
\* bound is one more in the last prefix bit, unless that carries off the top.
Covering(v, bits) ==
    LET width == 2 ^ (ValueBits - bits)
        lo    == v - (v % width)
    IN  [lo |-> lo, bits |-> bits,
         hi |-> IF lo + width = 2 ^ ValueBits THEN Unbounded ELSE lo + width]

InRange(range, v) == v >= range.lo /\ (range.hi = Unbounded \/ v < range.hi)

PrefixRange == {Covering(v, bits) : v \in 0 .. 2 ^ ValueBits - 1, bits \in PrefixBits}

----------------------------------------------------------------------------
(* The bridge.                                                             *)

\* Mutant: without the predecessor, the lowest query has no bracketing leaf.
CohortIndicesInRangeOnly(range) ==
    {index_by_value[u] : u \in {w \in DOMAIN index_by_value : InRange(range, w)}}

\* The greatest value below the range, and every value in it.
CohortIndices(range) ==
    LET below  == {u \in DOMAIN index_by_value : u < range.lo}
        inside == {u \in DOMAIN index_by_value : InRange(range, u)}
        chosen == IF below = {} THEN inside ELSE inside \cup {Max(below)}
    IN  {index_by_value[u] : u \in chosen}

\* The positions a verifier computes at a level from the leaves it was given.
KnownAt(indices, level) == {Ancestor(i, level) : i \in indices}

\* dedup_paths: the siblings that are neither computable nor empty subtrees.
DedupPaths(indices) ==
    LET sent == {at \in (0 .. Depth - 1) \X LeafIndex :
                    /\ at[2] \notin KnownAt(indices, at[1])
                    /\ Sibling(at[2]) \in KnownAt(indices, at[1])
                    /\ Node(nodes, at[1], at[2]) # Zero[at[1]]}
    IN  [at \in sent |-> Node(nodes, at[1], at[2])]

ProvePrefixCohort(range) ==
    LET indices == CohortIndices(range)
    IN  [range |-> range, leaves |-> [i \in indices |-> LeafAt(i)],
         nodes |-> DedupPaths(indices)]

----------------------------------------------------------------------------
(* The wallet.                                                             *)

\* Folds the cohort to level Depth; a node neither held nor sent is taken to
\* be an empty subtree.
CohortFold(cohort) ==
    LET held[level \in 0 .. Depth] ==
            IF level = 0 THEN [i \in DOMAIN cohort.leaves |-> LeafHash(cohort.leaves[i])]
            ELSE LET below == held[level - 1]
                     digest(k) == IF k \in DOMAIN below THEN below[k]
                                  ELSE Node(cohort.nodes, level - 1, k)
                 IN  [k \in {i \div 2 : i \in DOMAIN below} |->
                         NodeHash(digest(2 * k), digest(2 * k + 1))]
    IN  held[Depth]

CohortVerifies(root, cohort) ==
    LET top == CohortFold(cohort)
    IN  0 \in DOMAIN top /\ top[0] = root

Refused == "refused"
Spent   == "spent"
Unspent == "unspent"

\* Mutant: the nearest leaf below is taken to bracket the value.
ResolveUnchecked(held, range, v) ==
    LET below == {leaf \in held : leaf.value < v}
    IN  CASE ~InRange(range, v) -> Refused
          [] InRange(range, v) /\ \E leaf \in held : leaf.value = v -> Spent
          [] OTHER -> IF below = {} THEN Refused ELSE Unspent

\* resolve: spent when a leaf holds the value, unspent when the greatest leaf
\* below brackets it, refused when the cohort cannot tell.
Resolve(held, range, v) ==
    LET below == {leaf \in held : leaf.value < v}
        nearest == {leaf \in below : \A other \in below : other.value <= leaf.value}
    IN  CASE ~InRange(range, v) -> Refused
          [] InRange(range, v) /\ \E leaf \in held : leaf.value = v -> Spent
          [] OTHER -> IF \E leaf \in nearest : Covers(leaf, v) THEN Unspent ELSE Refused

----------------------------------------------------------------------------
(* Properties.                                                             *)

Truth(v) == IF Contains(v) THEN Spent ELSE Unspent

Answer(cohort, v) ==
    IF CohortVerifies(Root(nodes), cohort)
    THEN Resolve(Range(cohort.leaves), cohort.range, v) ELSE Refused

\* However the tree was reached, the cohort of any prefix verifies against its
\* root and settles every value with that prefix, down to the bucket whose own
\* values are all above the query (cohort.rs, prove_prefix_cohort).
CohortSettlesEveryValue ==
    \A v \in Value, bits \in PrefixBits :
        Answer(ProvePrefixCohort(Covering(v, bits)), v) = Truth(v)

\* A cohort with leaves missing, or with leaves at each other's positions,
\* either does not verify or refuses: it never settles a value wrongly
\* (cohort.rs, resolve: "A gap means the cohort is short").  The positions are
\* the tree's: a leaf beyond them is compared with nothing (cohort.rs,
\* verify_cohort, looks at position 0 of the top level only).
ShortCohortNeverMisleads ==
    \A indices \in SUBSET (0 .. LeafCount - 1) \ {{}} :
        \A at \in indices, other \in 0 .. LeafCount - 1 :
            LET held   == [i \in indices |-> IF i = at THEN LeafAt(other) ELSE LeafAt(i)]
                cohort(range) == [range |-> range, leaves |-> held, nodes |-> DedupPaths(indices)]
            IN  CohortVerifies(Root(nodes), cohort(Covering(1, 1))) =>
                    \A v \in Value, bits \in PrefixBits :
                        Answer(cohort(Covering(v, bits)), v) \in {Refused, Truth(v)}
=============================================================================
