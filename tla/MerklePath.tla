----------------------------- MODULE MerklePath -----------------------------
(***************************************************************************)
(* The hash tree beneath the indexed Merkle tree of                        *)
(* crates/zutreexo-accumulator/src/imt.rs.  A digest is a term: two        *)
(* digests are equal exactly when they were computed from the same         *)
(* preimages, which is collision resistance, and the three constructors    *)
(* are distinct, which is the code's domain separation (hash.rs).          *)
(*                                                                         *)
(* A node map is a function whose domain is a set of <<level, index>>      *)
(* pairs; level 0 is the leaves.  A missing entry stands for the empty     *)
(* subtree of that level.                                                  *)
(***************************************************************************)
EXTENDS Integers, Sequences

CONSTANT Depth

\* check_depth: MIN_DEPTH..MAX_DEPTH.
ASSUME DepthAssumption == Depth \in 1 .. 63

Capacity == 2 ^ Depth

\* Both follow from DepthAssumption; stated because the provers do not do powers.
ASSUME CapacityAssumption == Capacity \in Nat /\ Capacity >= 2
ASSUME PowerAssumption ==
    /\ 2 ^ 0 = 1 /\ \A level \in 0 .. Depth : 2 ^ level \in Nat
    /\ \A level \in 1 .. Depth : 2 ^ level = 2 * 2 ^ (level - 1)

EmptyLeaf == <<"empty">>
LeafHash(leaf) == <<"leaf", leaf.value, leaf.next_value, leaf.next_index>>
NodeHash(left, right) == <<"node", left, right>>

\* The digest of an all-empty subtree, by level.
Zero[level \in Nat] ==
    IF level = 0 THEN EmptyLeaf ELSE NodeHash(Zero[level - 1], Zero[level - 1])

Node(nodes, level, index) ==
    IF <<level, index>> \in DOMAIN nodes THEN nodes[<<level, index>>] ELSE Zero[level]

Sibling(index) == IF index % 2 = 0 THEN index + 1 ELSE index - 1

Ancestor(index, level) == index \div 2 ^ level

\* The node positions from leaf `index` to the root.
Path(index) == {<<level, Ancestor(index, level)>> : level \in 0 .. Depth}

Siblings(nodes, index) ==
    [level \in 1 .. Depth |-> Node(nodes, level - 1, Sibling(Ancestor(index, level - 1)))]

\* The digests on the path of leaf `index`, leaf level first, when the leaf
\* digest is `digest` and the siblings are `siblings`.
PathDigests(digest, index, siblings) ==
    LET up[level \in 0 .. Len(siblings)] ==
            IF level = 0 THEN digest
            ELSE IF Ancestor(index, level - 1) % 2 = 0
                 THEN NodeHash(up[level - 1], siblings[level])
                 ELSE NodeHash(siblings[level], up[level - 1])
    IN  up

RootFromPath(digest, index, siblings) ==
    PathDigests(digest, index, siblings)[Len(siblings)]

WriteLeaf(nodes, index, leaf) ==
    LET up == PathDigests(LeafHash(leaf), index, Siblings(nodes, index))
    IN  [at \in DOMAIN nodes \cup Path(index) |->
            IF at \in Path(index) THEN up[at[1]] ELSE nodes[at]]

(***************************************************************************)
(* Mutant: the cleared path is written back in full, empty digests         *)
(* included, so the map is no longer sparse.                               *)
(***************************************************************************)
ClearLeafKeepsEmpties(nodes, index) ==
    LET up == PathDigests(EmptyLeaf, index, Siblings(nodes, index))
    IN  [at \in DOMAIN nodes \cup Path(index) |->
            IF at \in Path(index) THEN up[at[1]] ELSE nodes[at]]

\* The leaf digest is removed; above it a digest is stored only where the
\* subtree is not empty, so the map stays sparse.
ClearLeaf(nodes, index) ==
    LET up     == PathDigests(EmptyLeaf, index, Siblings(nodes, index))
        stored == {at \in Path(index) : at[1] > 0 /\ up[at[1]] # Zero[at[1]]}
    IN  [at \in (DOMAIN nodes \ Path(index)) \cup stored |->
            IF at \in stored THEN up[at[1]] ELSE nodes[at]]

Root(nodes) == Node(nodes, Depth, 0)
=============================================================================
