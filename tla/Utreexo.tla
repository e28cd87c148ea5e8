------------------------------ MODULE Utreexo ------------------------------
(***************************************************************************)
(* The transparent accumulator as crates/zutreexo-accumulator/src/         *)
(* utreexo.rs uses it: rustreexo's forest of hash trees, which both the    *)
(* full forest (UtxoForest) and the roots-only view (UtxoRoots) run on.    *)
(*                                                                         *)
(* A tree is the function from its leaves to their paths, which is what    *)
(* its root commits to: two roots are the same hash exactly when the two   *)
(* functions are equal.  rustreexo is external and modelled from what      *)
(* utreexo.rs, its tests and tests/upstream_rustreexo.rs say of it.        *)
(***************************************************************************)
EXTENDS Iterators, SequencesExt, FiniteSetsExt, Functions

EMPTY == <<>>               \* the root of a tree all of whose leaves were deleted

SingleLeaf(leaf) == [l \in {leaf} |-> <<>>]

Parent(left, right) ==
    [l \in DOMAIN left \cup DOMAIN right |->
        IF l \in DOMAIN left THEN <<"left">> \o left[l] ELSE <<"right">> \o right[l]]

\* Deletion: a node left with one child is replaced by that child.
WithoutLeaves(tree, gone) ==
    LET kept == DOMAIN tree \ gone
        branches(l) == {k \in DOMAIN tree[l] : \E other \in kept :
                            /\ Len(tree[other]) >= k
                            /\ SubSeq(tree[other], 1, k - 1) = SubSeq(tree[l], 1, k - 1)
                            /\ tree[other][k] # tree[l][k]}
    IN  [l \in kept |->
            LET levels == SetToSortSeq(branches(l), <)
            IN  [i \in DOMAIN levels |-> tree[l][levels[i]]]]

\* A forest: the roots of its trees, largest first, and the leaves ever added.
NewForest == [roots |-> <<>>, leaves |-> 0]

\* Whether the forest of `leaves` leaves has a tree of 2^row.
HasTree(leaves, row) == (leaves \div 2^row) % 2 = 1

\* A new leaf merges with the trees of rows 0, 1, ... up to the first missing
\* one, the last roots of the list; over an emptied tree it just moves up.
AddedLeaf(forest, leaf) ==
    LET trees == Len(forest.roots)
        rows  == Min({row \in 0 .. trees : row = trees \/ ~HasTree(forest.leaves, row)})
        risen[row \in 0 .. rows] ==
            IF row = 0 THEN SingleLeaf(leaf)
            ELSE IF forest.roots[trees + 1 - row] = EMPTY THEN risen[row - 1]
            ELSE Parent(forest.roots[trees + 1 - row], risen[row - 1])
    IN  [roots  |-> Append(SubSeq(forest.roots, 1, trees - rows), risen[rows]),
         leaves |-> forest.leaves + 1]

Added(forest, leaves) ==
    LET added[n \in 0 .. Len(leaves)] ==
            IF n = 0 THEN forest ELSE AddedLeaf(added[n - 1], leaves[n])
    IN  added[Len(leaves)]

\* Only the trees that hold a leaf to delete are touched.
Deleted(forest, leaves) ==
    [forest EXCEPT !.roots =
        [i \in DOMAIN @ |-> IF DOMAIN @[i] \cap Range(leaves) = {} THEN @[i]
                            ELSE WithoutLeaves(@[i], Range(leaves))]]

\* UtxoForest::prove: a batch proof hashes its targets up to the trees they
\* are in.  Row numbers are not modelled: a proof is good wherever the tree is.
Proof(forest, targets) ==
    {root \in Range(forest.roots) : DOMAIN root \cap Range(targets) # {}}

\* UtxoRoots::verify.
Proves(forest, proof, targets) ==
    /\ proof \subseteq Range(forest.roots)
    /\ Range(targets) \subseteq UNION {DOMAIN root : root \in proof}

\* UtxoRoots::apply: the roots the proof names lose the deleted leaves, then
\* the new leaves are added.
Modified(forest, additions, deletions, proof) ==
    Added([forest EXCEPT !.roots =
              [i \in DOMAIN @ |-> IF @[i] \in proof THEN WithoutLeaves(@[i], Range(deletions))
                                  ELSE @[i]]],
          additions)

\* roots(): what either side shows of its roots leaves the emptied trees out.
Roots(forest) == Filtered(forest.roots, Range(forest.roots) \ {EMPTY})

\* UtxoRoots::from_parts.
FromParts(roots, leaves) == [roots |-> roots, leaves |-> leaves]
=============================================================================
