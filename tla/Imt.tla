-------------------------------- MODULE Imt --------------------------------
(***************************************************************************)
(* The indexed Merkle tree of crates/zutreexo-accumulator/src/imt.rs: the  *)
(* complete tree a bridge node holds, its insertions and undos, and the    *)
(* verifiers a compact node runs with a root and a leaf count only.        *)
(*                                                                         *)
(* `leaves` is the leaf vector: leaf index i of the code is leaves[i + 1]. *)
(* `index_by_value` and `nodes` are the two maps the code keeps beside it. *)
(* An operation that returns an error leaves the tree alone and so is no   *)
(* step here; what the error conditions guard against is what the          *)
(* properties are about.                                                   *)
(***************************************************************************)
EXTENDS MerklePath, FiniteSetsExt, Functions

CONSTANT Value              \* the nullifiers, ordered as the code orders bytes

ASSUME ValueAssumption == Value \subseteq Nat \ {0}

VARIABLES leaves, index_by_value, nodes

tree == <<leaves, index_by_value, nodes>>

----------------------------------------------------------------------------
ZERO == 0                   \* Value::ZERO: the sentinel's value, "no successor"

LeafIndex == 0 .. Capacity - 1

Leaf == [value : Value \cup {ZERO}, next_value : Value \cup {ZERO},
         next_index : LeafIndex]

SENTINEL == [value |-> ZERO, next_value |-> ZERO, next_index |-> 0]

\* Mutant: a leaf brackets its own successor too.
CoversSuccessor(leaf, v) ==
    leaf.value < v /\ (leaf.next_value = ZERO \/ v <= leaf.next_value)

\* `leaf` brackets v, and so witnesses its absence.
Covers(leaf, v) ==
    leaf.value < v /\ (leaf.next_value = ZERO \/ v < leaf.next_value)

LeafCount == Len(leaves)
LeafAt(index) == leaves[index + 1]

Contains(v) == v \in DOMAIN index_by_value

\* low_leaf: the leaf of the largest value at most v, by a range query.
LowLeafIndex(v) == index_by_value[Max({u \in DOMAIN index_by_value : u <= v})]
LowLeaf(v) == LeafAt(LowLeafIndex(v))

----------------------------------------------------------------------------
(* The compact state and its verifiers.                                    *)

State == [root |-> Root(nodes), leaf_count |-> LeafCount]

CheckPath(index, siblings) == Len(siblings) = Depth /\ index < Capacity

VerifyNonMembership(root, v, proof) ==
    /\ v # ZERO
    /\ CheckPath(proof.low_leaf_index, proof.siblings)
    /\ Covers(proof.low_leaf, v)
    /\ RootFromPath(LeafHash(proof.low_leaf), proof.low_leaf_index, proof.siblings) = root

ProveNonMembership(v) ==
    [low_leaf |-> LowLeaf(v), low_leaf_index |-> LowLeafIndex(v),
     siblings |-> Siblings(nodes, LowLeafIndex(v))]

SplicedLow(low, v, new_leaf_index) ==
    [value |-> low.value, next_value |-> v, next_index |-> new_leaf_index]

\* The appended leaf takes over the low leaf's successor.
Appended(low, v) ==
    [value |-> v, next_value |-> low.next_value, next_index |-> low.next_index]

\* Mutant: the append position is not compared with the leaf count.
InsertionAcceptedAnywhere(state, v, proof) ==
    LET low   == proof.low_leaf
        lowAt == proof.low_leaf_index
        newAt == proof.new_leaf_index
    IN  /\ v # ZERO
        /\ CheckPath(lowAt, proof.low_leaf_siblings)
        /\ CheckPath(newAt, proof.new_leaf_siblings)
        /\ lowAt # newAt
        /\ Covers(low, v)
        /\ RootFromPath(LeafHash(low), lowAt, proof.low_leaf_siblings) = state.root
        /\ RootFromPath(EmptyLeaf, newAt, proof.new_leaf_siblings)
             = RootFromPath(LeafHash(SplicedLow(low, v, newAt)), lowAt,
                            proof.low_leaf_siblings)

\* The checks of verify_insertion, in its order.
InsertionAccepted(state, v, proof) ==
    LET low   == proof.low_leaf
        lowAt == proof.low_leaf_index
        newAt == proof.new_leaf_index
    IN  /\ v # ZERO
        /\ CheckPath(lowAt, proof.low_leaf_siblings)
        /\ CheckPath(newAt, proof.new_leaf_siblings)
        /\ newAt = state.leaf_count
        /\ lowAt # newAt
        /\ Covers(low, v)
        /\ RootFromPath(LeafHash(low), lowAt, proof.low_leaf_siblings) = state.root
        /\ RootFromPath(EmptyLeaf, newAt, proof.new_leaf_siblings)
             = RootFromPath(LeafHash(SplicedLow(low, v, newAt)), lowAt,
                            proof.low_leaf_siblings)
        /\ state.leaf_count + 1 <= Capacity

\* The state verify_insertion returns for an accepted proof.
StateAfter(state, v, proof) ==
    [root |-> RootFromPath(LeafHash(Appended(proof.low_leaf, v)),
                           proof.new_leaf_index, proof.new_leaf_siblings),
     leaf_count |-> state.leaf_count + 1]

----------------------------------------------------------------------------
(* The mutable tree.                                                       *)

Init ==
    /\ leaves = <<SENTINEL>>
    /\ index_by_value = [u \in {ZERO} |-> 0]
    /\ nodes = WriteLeaf(<<>>, 0, SENTINEL)

NodesWithLowSpliced(v) ==
    WriteLeaf(nodes, LowLeafIndex(v), SplicedLow(LowLeaf(v), v, LeafCount))

NodesAfterInsert(v) ==
    WriteLeaf(NodesWithLowSpliced(v), LeafCount, Appended(LowLeaf(v), v))

\* Mutant: the new leaf's siblings are read before the low leaf is rewritten.
InsertionProofEarlySiblings(v) ==
    [low_leaf |-> LowLeaf(v), low_leaf_index |-> LowLeafIndex(v),
     low_leaf_siblings |-> Siblings(nodes, LowLeafIndex(v)),
     new_leaf_index |-> LeafCount,
     new_leaf_siblings |-> Siblings(nodes, LeafCount)]

\* The proof `insert` returns.  The low leaf is as it stood before; the new
\* leaf's siblings are read after the low leaf was rewritten.
InsertionProof(v) ==
    [low_leaf |-> LowLeaf(v), low_leaf_index |-> LowLeafIndex(v),
     low_leaf_siblings |-> Siblings(nodes, LowLeafIndex(v)),
     new_leaf_index |-> LeafCount,
     new_leaf_siblings |-> Siblings(NodesWithLowSpliced(v), LeafCount)]

HasRoom == LeafCount < Capacity

Insert(v) ==
    /\ v # ZERO
    /\ HasRoom
    /\ ~Contains(v)
    /\ Covers(LowLeaf(v), v)            \* otherwise CorruptTree
    /\ leaves' = Append([leaves EXCEPT ![LowLeafIndex(v) + 1] = SplicedLow(@, v, LeafCount)],
                        Appended(LowLeaf(v), v))
    /\ index_by_value' = [u \in DOMAIN index_by_value \cup {v} |->
                              IF u = v THEN LeafCount ELSE index_by_value[u]]
    /\ nodes' = NodesAfterInsert(v)

\* What undo_insert reads of an insertion proof.  Any such record may be
\* handed to it: one of this tree's past, or one of another tree.
UndoProof == [low_leaf : Leaf, low_leaf_index : LeafIndex, new_leaf_index : LeafIndex]

\* Mutant: the low leaf's own value is not compared.
UndoMatchesLinksOnly(v, proof) ==
    LET last    == LeafCount - 1
        newest  == LeafAt(last)
        current == LeafAt(proof.low_leaf_index)
    IN  /\ proof.new_leaf_index = last /\ last # 0
        /\ newest.value = v
        /\ proof.low_leaf_index < LeafCount
        /\ current.next_value = v /\ current.next_index = proof.new_leaf_index
        /\ proof.low_leaf.next_value = newest.next_value
        /\ proof.low_leaf.next_index = newest.next_index

\* The checks of undo_insert, in its order.
UndoMatches(v, proof) ==
    LET last    == LeafCount - 1
        newest  == LeafAt(last)
        current == LeafAt(proof.low_leaf_index)
    IN  /\ proof.new_leaf_index = last /\ last # 0
        /\ newest.value = v
        /\ proof.low_leaf_index < LeafCount
        /\ current.next_value = v /\ current.next_index = proof.new_leaf_index
        /\ current.value = proof.low_leaf.value
        /\ proof.low_leaf.next_value = newest.next_value
        /\ proof.low_leaf.next_index = newest.next_index

UndoInsert(v, proof) ==
    /\ v # ZERO
    /\ UndoMatches(v, proof)
    /\ leaves' = [SubSeq(leaves, 1, LeafCount - 1)
                     EXCEPT ![proof.low_leaf_index + 1] = proof.low_leaf]
    /\ index_by_value' = [u \in DOMAIN index_by_value \ {v} |-> index_by_value[u]]
    /\ nodes' = WriteLeaf(ClearLeaf(nodes, LeafCount - 1), proof.low_leaf_index, proof.low_leaf)

Next ==
    \/ \E v \in Value : Insert(v)
    \/ \E v \in Value, proof \in UndoProof : UndoInsert(v, proof)

Spec == Init /\ [][Next]_tree

----------------------------------------------------------------------------
(* Deriving a tree from its values: the two bottom-up routes of the code.  *)

\* The values in insertion order, the sentinel's first.
StoredValues == [i \in 1 .. LeafCount |-> leaves[i].value]

\* The leaf of values[i], its successor found by sorting, not by the links.
LinkedLeaf(values, i) ==
    LET above == {j \in DOMAIN values : values[j] > values[i]}
    IN  IF above = {}
        THEN [value |-> values[i], next_value |-> ZERO, next_index |-> 0]
        ELSE LET next == CHOOSE j \in above : \A k \in above : values[j] <= values[k]
             IN  [value |-> values[i], next_value |-> values[next], next_index |-> next - 1]

\* The digest of a node over the dense leaf prefix `linked`.
FoldedDigest(linked, level, index) ==
    LET digest[at \in (0 .. level) \X LeafIndex] ==
            IF at[2] * 2 ^ at[1] >= Len(linked) THEN Zero[at[1]]
            ELSE IF at[1] = 0 THEN LeafHash(linked[at[2] + 1])
            ELSE NodeHash(digest[<<at[1] - 1, 2 * at[2]>>],
                          digest[<<at[1] - 1, 2 * at[2] + 1>>])
    IN  digest[<<level, index>>]

\* from_values_bulk: leaves, value index and node map.
BulkTree(values) ==
    LET linked == [i \in DOMAIN values |-> LinkedLeaf(values, i)]
        at     == {k \in (0 .. Depth) \X LeafIndex : k[2] * 2 ^ k[1] < Len(linked)}
    IN  << linked,
           [v \in Range(values) |-> (CHOOSE i \in DOMAIN values : values[i] = v) - 1],
           [k \in at |-> FoldedDigest(linked, k[1], k[2])] >>

\* rebuild_root.
RebuildRoot(values) ==
    FoldedDigest([i \in DOMAIN values |-> LinkedLeaf(values, i)], Depth, 0)

----------------------------------------------------------------------------
(* Properties.                                                             *)

\* The variables have the shape the code's types give them.
TypeOK ==
    /\ leaves \in Seq(Leaf)
    /\ LeafCount \in 1 .. Capacity
    /\ DOMAIN index_by_value \subseteq Value \cup {ZERO}
    /\ \A v \in DOMAIN index_by_value : index_by_value[v] \in LeafIndex

\* No value is stored twice, and leaf 0 is the sentinel's.
DistinctValues ==
    /\ leaves[1].value = ZERO
    /\ \A i, j \in 1 .. LeafCount : leaves[i].value = leaves[j].value => i = j

\* Every leaf names its true successor: the leaf at next_index holds
\* next_value and nothing stored lies in between; only the maximum has none.
SuccessorLinks ==
    \A i \in 1 .. LeafCount :
        IF leaves[i].next_value = ZERO
        THEN /\ leaves[i].next_index = 0
             /\ \A j \in 1 .. LeafCount : leaves[j].value <= leaves[i].value
        ELSE /\ leaves[i].next_index \in 1 .. LeafCount - 1
             /\ LeafAt(leaves[i].next_index).value = leaves[i].next_value
             /\ leaves[i].value < leaves[i].next_value
             /\ \A j \in 1 .. LeafCount :
                    ~(leaves[i].value < leaves[j].value /\ leaves[j].value < leaves[i].next_value)

\* The value index finds exactly the stored values, where they are stored.
IndexAgrees ==
    /\ DOMAIN index_by_value = {leaves[i].value : i \in 1 .. LeafCount}
    /\ \A i \in 1 .. LeafCount : index_by_value[leaves[i].value] = i - 1

\* The leaves form one sorted linked list without gaps, whatever the order of
\* insertions and undos: the whole non-membership argument rests on it (imt.rs,
\* verify_non_membership).
SortedListWithoutGaps == DistinctValues /\ SuccessorLinks /\ IndexAgrees

\* However it was reached -- one insertion at a time, or by undoing with any
\* proof the checks let through -- the tree is the one from_values_bulk builds
\* from its values: same leaves, same index, same sparse node map.  Its cached
\* root is the one rebuild_root computes from the values alone.
TreeIsCanonical ==
    /\ tree = BulkTree(StoredValues)
    /\ Root(nodes) = RebuildRoot(StoredValues)

\* Absence can be proved exactly for the values that are absent: low_leaf never
\* meets a list it calls corrupt, its proof verifies, and no proof built from
\* any leaf and any path of the tree verifies for a stored value.
NonMembershipIsExact ==
    \A v \in Value :
        /\ v \notin Range(StoredValues) =>
               /\ Covers(LowLeaf(v), v)
               /\ VerifyNonMembership(Root(nodes), v, ProveNonMembership(v))
        /\ \A low \in Leaf, lowAt \in LeafIndex, path \in LeafIndex :
               VerifyNonMembership(Root(nodes), v,
                   [low_leaf |-> low, low_leaf_index |-> lowAt, siblings |-> Siblings(nodes, path)])
               => v \notin Range(StoredValues)

\* A compact node that follows with a root and a count accepts the proof of
\* every insertion the tree makes, and arrives at the tree's own new state.
CompactStateFollows ==
    [][\A v \in Value : Insert(v) =>
            /\ InsertionAccepted(State, v, InsertionProof(v))
            /\ StateAfter(State, v, InsertionProof(v)) = State']_tree

\* Insertion proofs assembled from this tree's leaves and paths, the paths of
\* the tree before and after the low leaf is rewritten among them.
CandidateProofs(v) ==
    UNION { LET spliced == WriteLeaf(nodes, lowAt, SplicedLow(LeafAt(low), v, newAt))
            IN  {[low_leaf |-> LeafAt(low), low_leaf_index |-> lowAt,
                  low_leaf_siblings |-> Siblings(nodes, lowAt), new_leaf_index |-> newAt,
                  new_leaf_siblings |-> path] :
                    path \in {Siblings(n, k) : n \in {nodes, spliced}, k \in LeafIndex}} :
            low \in 0 .. LeafCount - 1, lowAt \in LeafIndex, newAt \in LeafIndex }

\* Whatever insertion proof a compact node accepts, the value is new and the
\* state it moves to is the one the tree itself reaches by inserting the value:
\* a proof cannot make it append elsewhere, overwrite or insert twice.
AcceptedInsertionIsCanonical ==
    \A v \in Value : \A proof \in CandidateProofs(v) :
        InsertionAccepted(State, v, proof) =>
            /\ v \notin Range(StoredValues)
            /\ StateAfter(State, v, proof)
                 = [root |-> Root(NodesAfterInsert(v)), leaf_count |-> LeafCount + 1]

\* The tree implements the nullifier log its callers rely on.
Log == INSTANCE NullifierLog
         WITH Values <- Value, Bound <- Capacity - 1, log <- Tail(StoredValues)
ImplementsLog == Log!Spec
=============================================================================
