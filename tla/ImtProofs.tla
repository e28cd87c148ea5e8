----------------------------- MODULE ImtProofs -----------------------------
(***************************************************************************)
(* Theorems about Imt and about the queries Cohort and Sorted answer from  *)
(* it, for every depth, every set of nullifiers and every prefix width.    *)
(*                                                                         *)
(* First the sorted list, which lives in the leaves: no guard reads the    *)
(* hash tree above them.  Then the hash tree: the node map is the Merkle   *)
(* tree over the leaves, and only a leaf of the tree hashes to its root.   *)
(* Then the cohorts: what folds to the root is the tree's own leaves, and  *)
(* the ones under a prefix settle every value with that prefix.  Last the  *)
(* sorted snapshots, where a run of values by rank does the same.          *)
(***************************************************************************)
EXTENDS Sorted, Numbers, FiniteSetTheorems, SequenceTheorems, TLAPS

\* The inductive invariant: the shape of the variables and the sorted list.
ImtInv == TypeOK /\ SortedListWithoutGaps

\* The tree starts with the sentinel alone.
LEMMA InitInv == Init => ImtInv
<1> SUFFICES ASSUME Init PROVE ImtInv
    OBVIOUS
<1>1. leaves = <<SENTINEL>> /\ Len(leaves) = 1 /\ leaves[1] = SENTINEL
    BY DEF Init
<1>2. index_by_value = [u \in {ZERO} |-> 0]
    BY DEF Init, ZERO
<1>3. SENTINEL \in Leaf
    BY CapacityAssumption DEF SENTINEL, Leaf, LeafIndex, ZERO
<1>4. TypeOK
    BY <1>1, <1>2, <1>3, CapacityAssumption DEF TypeOK, LeafCount, LeafIndex, ZERO
<1>5. SortedListWithoutGaps
    BY <1>1, <1>2 DEF SortedListWithoutGaps, DistinctValues, SuccessorLinks, IndexAgrees,
       SENTINEL, LeafCount, LeafAt, ZERO
<1> QED BY <1>4, <1>5 DEF ImtInv

\* What the leaves are made of.
LEMMA LeafTypes ==
    ASSUME TypeOK
    PROVE  /\ LeafCount \in Nat /\ LeafCount >= 1 /\ LeafCount <= Capacity
           /\ LeafCount = Len(leaves)
           /\ \A i \in 1 .. LeafCount :
                  /\ leaves[i] \in Leaf
                  /\ leaves[i].value \in Nat
                  /\ leaves[i].next_value \in Nat
                  /\ leaves[i].next_index \in Nat
<1>1. LeafCount \in Nat /\ LeafCount >= 1 /\ LeafCount <= Capacity /\ LeafCount = Len(leaves)
    BY CapacityAssumption DEF TypeOK, LeafCount
<1>2. \A i \in 1 .. LeafCount : leaves[i] \in Leaf
    BY DEF TypeOK, LeafCount
<1>3. \A l \in Leaf : l.value \in Nat /\ l.next_value \in Nat /\ l.next_index \in Nat
    <2>1. Value \cup {ZERO} \subseteq Nat /\ LeafIndex \subseteq Nat
        BY ValueAssumption, CapacityAssumption DEF LeafIndex, ZERO
    <2> QED BY <2>1 DEF Leaf
<1> QED BY <1>1, <1>2, <1>3

\* For an absent value, low_leaf finds the leaf of the largest smaller value
\* and that leaf brackets it: the CorruptTree branch is dead.
LEMMA LowLeafCovers ==
    ASSUME ImtInv, NEW v \in Value, ~Contains(v)
    PROVE  /\ LowLeafIndex(v) \in 0 .. LeafCount - 1
           /\ LowLeaf(v) = leaves[LowLeafIndex(v) + 1]
           /\ Covers(LowLeaf(v), v)
<1> USE ValueAssumption
<1> DEFINE below == {u \in DOMAIN index_by_value : u <= v}
           m == Max(below)
<1>0. TypeOK /\ DistinctValues /\ SuccessorLinks /\ IndexAgrees
    BY DEF ImtInv, SortedListWithoutGaps
<1>1. below \in SUBSET Nat /\ v \in Nat /\ \A u \in below : u <= v
    BY <1>0 DEF TypeOK, ZERO
<1>2. 0 \in below
    <2>1. 0 \in DOMAIN index_by_value
        BY <1>0, LeafTypes DEF DistinctValues, IndexAgrees, ZERO
    <2> QED BY <2>1, <1>1
<1>3. m \in below /\ \A u \in below : u <= m
    <2> HIDE DEF below
    <2> QED BY <1>1, <1>2, BoundedMax
<1>4. PICK k \in 1 .. LeafCount : leaves[k].value = m
    BY <1>0, <1>3 DEF IndexAgrees
<1>5. index_by_value[m] = k - 1
    BY <1>0, <1>4 DEF IndexAgrees
<1>6. LowLeafIndex(v) = k - 1 /\ LowLeaf(v) = leaves[k]
    BY <1>5, <1>4, <1>0, LeafTypes DEF LowLeafIndex, LowLeaf, LeafAt
<1>7. m < v
    BY <1>1, <1>3 DEF Contains
<1>8. \A u \in DOMAIN index_by_value : u <= m \/ v < u
    BY <1>0, <1>3, <1>1 DEF TypeOK, ZERO
<1> HIDE DEF below, m
<1>9. leaves[k].next_value = ZERO \/ v < leaves[k].next_value
    <2> SUFFICES ASSUME leaves[k].next_value # ZERO
                 PROVE  v < leaves[k].next_value
        OBVIOUS
    <2>1. /\ leaves[k].next_index \in 1 .. LeafCount - 1
          /\ LeafAt(leaves[k].next_index).value = leaves[k].next_value
          /\ m < leaves[k].next_value
        BY <1>0, <1>4 DEF SuccessorLinks
    <2>2. leaves[k].next_value \in DOMAIN index_by_value
        <3>1. leaves[k].next_index + 1 \in 1 .. LeafCount
            BY <2>1, <1>0, LeafTypes
        <3> QED BY <3>1, <2>1, <1>0 DEF IndexAgrees, LeafAt
    <2> QED BY <2>1, <2>2, <1>8, <1>0, <1>1, <1>3, <1>4, LeafTypes
<1> QED BY <1>0, <1>4, <1>6, <1>7, <1>9, LeafTypes DEF Covers

\* A leaf of the tree that brackets a value witnesses that it is not stored.
LEMMA CoveringLeafWitnessesAbsence ==
    ASSUME ImtInv, NEW i \in 1 .. LeafCount, NEW v \in Value, Covers(leaves[i], v)
    PROVE  \A j \in 1 .. LeafCount : leaves[j].value # v
<1>1. TypeOK /\ SuccessorLinks
    BY DEF ImtInv, SortedListWithoutGaps
<1>2. SUFFICES ASSUME NEW j \in 1 .. LeafCount, leaves[j].value = v PROVE FALSE
    OBVIOUS
<1>3. leaves[i].value < leaves[j].value
    BY <1>2 DEF Covers
<1>4. leaves[i].next_value # ZERO
    BY <1>1, <1>3, LeafTypes DEF SuccessorLinks
<1> QED BY <1>1, <1>2, <1>3, <1>4 DEF Covers, SuccessorLinks

\* An insertion writes two leaves: the low leaf's successor and the appended one.
LEMMA InsertEffect ==
    ASSUME ImtInv, NEW v \in Value, Insert(v)
    PROVE  LET n   == LeafCount
               k   == LowLeafIndex(v) + 1
               low == leaves[k]
           IN  /\ n < Capacity /\ v # 0 /\ k \in 1 .. n
               /\ low.value < v /\ (low.next_value = 0 \/ v < low.next_value)
               /\ \A i \in 1 .. n : leaves[i].value # v
               /\ leaves' \in Seq(Leaf) /\ Len(leaves') = n + 1 /\ LeafCount' = n + 1
               /\ leaves'[k] = [value |-> low.value, next_value |-> v, next_index |-> n]
               /\ leaves'[n + 1] = [value |-> v, next_value |-> low.next_value,
                                    next_index |-> low.next_index]
               /\ \A i \in 1 .. n : i # k => leaves'[i] = leaves[i]
               /\ \A i \in 1 .. n : leaves'[i].value = leaves[i].value
<1> DEFINE n == LeafCount
           k == LowLeafIndex(v) + 1
           low == leaves[k]
           spliced == SplicedLow(low, v, n)
           new == Appended(low, v)
<1>1. TypeOK /\ DistinctValues /\ SuccessorLinks /\ IndexAgrees
    BY DEF ImtInv, SortedListWithoutGaps
<1>2. /\ n \in Nat /\ n >= 1 /\ n < Capacity /\ n = Len(leaves)
      /\ v \in Nat /\ v # 0
      /\ \A i \in 1 .. n : /\ leaves[i] \in Leaf /\ leaves[i].value \in Nat
                           /\ leaves[i].next_value \in Nat /\ leaves[i].next_index \in Nat
    BY <1>1, LeafTypes, ValueAssumption DEF Insert, HasRoom
<1>3. /\ ~Contains(v) /\ k \in 1 .. n /\ LowLeaf(v) = low /\ low \in Leaf
      /\ low.value < v /\ (low.next_value = 0 \/ v < low.next_value)
    BY <1>2, LowLeafCovers DEF Insert, Covers, ZERO
<1>4. \A i \in 1 .. n : leaves[i].value # v
    BY <1>1, <1>3 DEF Contains, IndexAgrees
<1>5. /\ spliced \in Leaf /\ new \in Leaf
      /\ spliced = [value |-> low.value, next_value |-> v, next_index |-> n]
      /\ new = [value |-> v, next_value |-> low.next_value, next_index |-> low.next_index]
    BY <1>2, <1>3, CapacityAssumption DEF SplicedLow, Appended, Leaf, LeafIndex
<1>6. /\ leaves' \in Seq(Leaf) /\ Len(leaves') = n + 1
      /\ leaves'[k] = spliced /\ leaves'[n + 1] = new
      /\ \A i \in 1 .. n : i # k => leaves'[i] = leaves[i]
    <2>1. leaves' = Append([leaves EXCEPT ![k] = spliced], new)
        BY <1>3 DEF Insert
    <2> HIDE DEF k, spliced, new, n
    <2>2. leaves \in Seq(Leaf)
        BY <1>1 DEF TypeOK
    <2> QED BY <2>1, <2>2, <1>2, <1>3, <1>5
<1>7. \A i \in 1 .. n : leaves'[i].value = leaves[i].value
    <2> HIDE DEF n, k, low, new
    <2> QED BY <1>5, <1>6 DEF low
<1>8. LeafCount' = n + 1
    BY <1>6 DEF LeafCount
<1> QED BY <1>2, <1>3, <1>4, <1>5, <1>6, <1>7, <1>8

\* An insertion splits one gap between values in two.
LEMMA InsertPreservesInv ==
    ASSUME ImtInv, NEW v \in Value, Insert(v)
    PROVE  ImtInv'
<1> DEFINE n == LeafCount
           k == LowLeafIndex(v) + 1
           low == leaves[k]
<1>1. TypeOK /\ DistinctValues /\ SuccessorLinks /\ IndexAgrees
    BY DEF ImtInv, SortedListWithoutGaps
<1>2. /\ n \in Nat /\ n >= 1 /\ n < Capacity /\ v \in Nat /\ v # 0
      /\ \A i \in 1 .. n : /\ leaves[i] \in Leaf /\ leaves[i].value \in Nat
                           /\ leaves[i].next_value \in Nat /\ leaves[i].next_index \in Nat
    BY <1>1, LeafTypes, ValueAssumption, InsertEffect
<1>3. /\ k \in 1 .. n /\ low.value < v /\ (low.next_value = 0 \/ v < low.next_value)
    BY InsertEffect
<1>4. \A i \in 1 .. n : leaves[i].value # v
    BY InsertEffect
<1>5. /\ leaves'[k] = [value |-> low.value, next_value |-> v, next_index |-> n]
      /\ leaves'[n + 1] = [value |-> v, next_value |-> low.next_value,
                           next_index |-> low.next_index]
    BY InsertEffect
<1>6. /\ leaves' \in Seq(Leaf) /\ Len(leaves') = n + 1
      /\ \A i \in 1 .. n : i # k => leaves'[i] = leaves[i]
    BY InsertEffect
<1>7. index_by_value' = [u \in DOMAIN index_by_value \cup {v} |->
                            IF u = v THEN n ELSE index_by_value[u]]
    BY DEF Insert
<1>8. LeafCount' = n + 1
    BY <1>6 DEF LeafCount
<1>9. /\ leaves'[n + 1].value = v
       /\ \A i \in 1 .. n : leaves'[i].value = leaves[i].value
    BY <1>5, InsertEffect
<1>10. /\ leaves[1].value = ZERO
       /\ \A i, j \in 1 .. n : leaves[i].value = leaves[j].value => i = j
       /\ DOMAIN index_by_value = {leaves[i].value : i \in 1 .. n}
       /\ \A i \in 1 .. n : index_by_value[leaves[i].value] = i - 1
       /\ \A i \in 1 .. n : leaves[i].value # v
    BY <1>1, <1>4 DEF DistinctValues, IndexAgrees
<1> HIDE DEF n, k, low
<1>11. TypeOK'
    <2>1. LeafCount' \in 1 .. Capacity
        BY <1>8, <1>2, CapacityAssumption
    <2>2. DOMAIN index_by_value' \subseteq Value \cup {ZERO}
        BY <1>7, <1>1 DEF TypeOK
    <2>3. \A u \in DOMAIN index_by_value' : index_by_value'[u] \in LeafIndex
        BY <1>7, <1>1, <1>2, CapacityAssumption DEF TypeOK, LeafIndex
    <2> QED BY <1>6, <2>1, <2>2, <2>3 DEF TypeOK
<1>12. DistinctValues'
    <2>1. \A i, j \in 1 .. n + 1 : leaves'[i].value = leaves'[j].value => i = j
        <3> TAKE i, j \in 1 .. n + 1
        <3>1. CASE i \in 1 .. n /\ j \in 1 .. n
            BY <3>1, <1>10, <1>9
        <3>2. CASE i = n + 1 /\ j \in 1 .. n
            BY <3>2, <1>4, <1>9 DEF n
        <3>3. CASE j = n + 1 /\ i \in 1 .. n
            BY <3>3, <1>4, <1>9 DEF n
        <3>4. CASE i = n + 1 /\ j = n + 1
            BY <3>4
        <3>5. (i \in 1 .. n \/ i = n + 1) /\ (j \in 1 .. n \/ j = n + 1)
            BY <1>2
        <3> QED BY <3>1, <3>2, <3>3, <3>4, <3>5
    <2>2. leaves'[1].value = ZERO
        BY <1>2, <1>9, <1>10
    <2> QED BY <2>1, <2>2, <1>8 DEF DistinctValues
<1>13. IndexAgrees'
    <2>1. DOMAIN index_by_value' = {leaves'[i].value : i \in 1 .. n + 1}
        <3>1. 1 .. n + 1 = (1 .. n) \cup {n + 1}
            BY <1>2
        <3>2. {leaves'[i].value : i \in 1 .. n + 1} = {leaves[i].value : i \in 1 .. n} \cup {v}
            BY <3>1, <1>9
        <3> QED BY <3>2, <1>7, <1>10
    <2>2. \A i \in 1 .. n + 1 : index_by_value'[leaves'[i].value] = i - 1
        <3> TAKE i \in 1 .. n + 1
        <3>1. CASE i \in 1 .. n
            BY <3>1, <1>4, <1>7, <1>9, <1>10 DEF n
        <3>2. CASE i = n + 1
            BY <3>2, <1>2, <1>7, <1>9
        <3> QED BY <3>1, <3>2, <1>2
    <2> QED BY <2>1, <2>2, <1>8 DEF IndexAgrees
<1>14. SuccessorLinks'
    <2>1. \A i \in 1 .. n :
             IF leaves[i].next_value = ZERO
             THEN /\ leaves[i].next_index = 0
                  /\ \A j \in 1 .. n : leaves[j].value <= leaves[i].value
             ELSE /\ leaves[i].next_index \in 1 .. n - 1
                  /\ leaves[leaves[i].next_index + 1].value = leaves[i].next_value
                  /\ leaves[i].value < leaves[i].next_value
                  /\ \A j \in 1 .. n :
                       ~(leaves[i].value < leaves[j].value
                          /\ leaves[j].value < leaves[i].next_value)
        BY <1>1 DEF SuccessorLinks, LeafAt, n
    <2>2. SUFFICES ASSUME NEW i \in 1 .. n + 1
          PROVE  IF leaves'[i].next_value = ZERO
                 THEN /\ leaves'[i].next_index = 0
                      /\ \A j \in 1 .. n + 1 : leaves'[j].value <= leaves'[i].value
                 ELSE /\ leaves'[i].next_index \in 1 .. n
                      /\ leaves'[leaves'[i].next_index + 1].value = leaves'[i].next_value
                      /\ leaves'[i].value < leaves'[i].next_value
                      /\ \A j \in 1 .. n + 1 :
                           ~(leaves'[i].value < leaves'[j].value
                              /\ leaves'[j].value < leaves'[i].next_value)
        BY <1>2, <1>8 DEF SuccessorLinks, LeafAt
    <2>3. low = leaves[k] /\ k \in 1 .. n
        BY <1>3 DEF low
    \* The low leaf now precedes the appended one, and nothing fits between.
    <2>4. CASE i = k
        <3>1. /\ leaves'[i].value = low.value /\ leaves'[i].next_value = v
              /\ leaves'[i].next_index = n
            BY <2>4, <1>5, <1>6
        <3>2. \A j \in 1 .. n : leaves[j].value <= low.value \/ v < leaves[j].value
            <4> TAKE j \in 1 .. n
            <4>1. CASE low.next_value = ZERO
                BY <4>1, <2>1, <2>3
            <4>2. CASE low.next_value # ZERO
                <5>1. ~(low.value < leaves[j].value /\ leaves[j].value < low.next_value)
                    BY <4>2, <2>1, <2>3
                <5>2. v < low.next_value
                    BY <4>2, <1>3 DEF ZERO
                <5>3. low.value \in Nat /\ low.next_value \in Nat
                    BY <2>3, <1>2
                <5> QED BY <5>1, <5>2, <5>3, <1>2
            <4> QED BY <4>1, <4>2
        <3> QED BY <3>1, <3>2, <1>2, <1>3, <1>9 DEF ZERO
    \* The appended leaf has the successor the low leaf had.
    <2>5. CASE i = n + 1
        <3>1. /\ leaves'[i].value = v /\ leaves'[i].next_value = low.next_value
              /\ leaves'[i].next_index = low.next_index
            BY <2>5, <1>5, <1>6
        <3>2. CASE low.next_value = ZERO
            <4>1. \A j \in 1 .. n : leaves[j].value < v
                BY <3>2, <2>1, <2>3, <1>2, <1>3
            <4>2. low.next_index = 0
                BY <3>2, <2>1, <2>3
            <4>3. \A j \in 1 .. n + 1 : leaves'[j].value <= v
                <5> TAKE j \in 1 .. n + 1
                <5>1. CASE j \in 1 .. n
                    <6>1. leaves[j].value < v /\ leaves[j].value \in Nat
                        BY <5>1, <4>1, <1>2
                    <6> QED BY <6>1, <5>1, <1>2, <1>9
                <5>2. CASE j = n + 1
                    BY <5>2, <1>2, <1>9
                <5> QED BY <5>1, <5>2, <1>2
            <4> QED BY <4>2, <4>3, <3>1, <3>2
        <3>3. CASE low.next_value # ZERO
            <4>1. /\ low.next_index \in 1 .. n - 1
                  /\ leaves[low.next_index + 1].value = low.next_value
                BY <3>3, <2>1, <2>3
            <4>2. leaves'[low.next_index + 1].value = low.next_value
                BY <4>1, <1>2, <1>9
            <4>3. v < low.next_value
                BY <3>3, <1>3 DEF ZERO
            <4>4. \A j \in 1 .. n : ~(v < leaves[j].value /\ leaves[j].value < low.next_value)
                BY <3>3, <2>1, <2>3, <1>2, <1>3
            <4>5. \A j \in 1 .. n + 1 : ~(v < leaves'[j].value /\ leaves'[j].value < low.next_value)
                <5> TAKE j \in 1 .. n + 1
                <5>1. CASE j \in 1 .. n
                    BY <5>1, <4>4, <1>9
                <5>2. CASE j = n + 1
                    BY <5>2, <1>2, <1>9
                <5> QED BY <5>1, <5>2, <1>2
            <4>6. low.next_index \in 1 .. n
                BY <4>1, <1>2
            <4> QED BY <4>2, <4>3, <4>5, <4>6, <3>1, <3>3
        <3> QED BY <3>2, <3>3
    \* Any other leaf keeps its successor; the new value is not below it.
    <2>6. CASE i \in 1 .. n /\ i # k
        <3>1. leaves'[i] = leaves[i]
            BY <2>6, <1>6
        <3>2. leaves[i].value # low.value
            BY <2>3, <2>6, <1>10
        <3>3. CASE leaves[i].next_value = ZERO
            <4>1. low.value < leaves[i].value
                BY <3>2, <3>3, <2>1, <2>3, <2>6, <1>2
            <4>2. low.next_value # ZERO
                BY <4>1, <2>1, <2>3, <2>6, <1>2
            <4>3. v < leaves[i].value
                BY <4>1, <4>2, <2>1, <2>3, <2>6, <1>2, <1>3 DEF ZERO
            <4> QED BY <3>1, <3>3, <4>3, <2>1, <2>6, <1>2, <1>9
        <3>4. CASE leaves[i].next_value # ZERO
            <4>1. ~(leaves[i].value < v /\ v < leaves[i].next_value)
                <5> SUFFICES ASSUME leaves[i].value < v, v < leaves[i].next_value
                             PROVE  FALSE
                    OBVIOUS
                <5>1. leaves[i].value < low.value
                    <6>1. leaves[i].value <= low.value \/ v < leaves[i].value
                        <7>1. CASE low.next_value = ZERO
                            BY <7>1, <2>1, <2>3, <2>6
                        <7>2. CASE low.next_value # ZERO
                            <8>1. ~(low.value < leaves[i].value /\ leaves[i].value < low.next_value)
                                BY <7>2, <2>1, <2>3, <2>6
                            <8>2. v < low.next_value
                                BY <7>2, <1>3 DEF ZERO
                            <8>3. low.value \in Nat /\ low.next_value \in Nat
                                BY <2>3, <1>2
                            <8> QED BY <8>1, <8>2, <8>3, <2>6, <1>2
                        <7> QED BY <7>1, <7>2
                    <6> QED BY <6>1, <3>2, <2>3, <2>6, <1>2
                <5> QED BY <5>1, <3>4, <2>1, <2>3, <2>6, <1>2, <1>3
            <4>2. /\ leaves[i].next_index + 1 \in 1 .. n
                  /\ leaves'[leaves[i].next_index + 1].value = leaves[i].next_value
                BY <3>4, <2>1, <2>6, <1>2, <1>9
            <4>3. leaves[i].next_index \in 1 .. n /\ leaves[i].value < leaves[i].next_value
                BY <3>4, <2>1, <2>6, <1>2
            <4>4. \A j \in 1 .. n + 1 :
                     ~(leaves[i].value < leaves'[j].value
                         /\ leaves'[j].value < leaves[i].next_value)
                <5> TAKE j \in 1 .. n + 1
                <5>1. CASE j \in 1 .. n
                    BY <5>1, <3>4, <2>1, <2>6, <1>9
                <5>2. CASE j = n + 1
                    BY <5>2, <4>1, <1>9
                <5> QED BY <5>1, <5>2, <1>2
            <4> QED BY <4>2, <4>3, <4>4, <3>1, <3>4
        <3> QED BY <3>3, <3>4
    <2> QED BY <2>4, <2>5, <2>6, <1>2
<1> QED BY <1>11, <1>12, <1>13, <1>14 DEF ImtInv, SortedListWithoutGaps

\* Dropping the end of a sequence and replacing one of the elements that stay.
LEMMA PrefixExcept ==
    ASSUME NEW S, NEW s \in Seq(S), NEW n \in Nat, n <= Len(s), NEW k \in 1 .. n, NEW e \in S
    PROVE  LET r == [SubSeq(s, 1, n) EXCEPT ![k] = e]
           IN  /\ r \in Seq(S) /\ Len(r) = n /\ r[k] = e
               /\ \A i \in 1 .. n : i # k => r[i] = s[i]
<1> DEFINE p == SubSeq(s, 1, n)
<1>1. p \in Seq(S) /\ Len(p) = n /\ \A i \in 1 .. n : p[i] = s[i]
    BY SubSeqProperties
<1> HIDE DEF p
<1> SUFFICES LET r == [p EXCEPT ![k] = e]
             IN  /\ r \in Seq(S) /\ Len(r) = n /\ r[k] = e
                 /\ \A i \in 1 .. n : i # k => r[i] = s[i]
    BY DEF p
<1> QED BY <1>1, ExceptSeq

\* A sequence whose elements lie in S is a sequence over S.
LEMMA SeqNarrow ==
    ASSUME NEW S, NEW T, NEW s \in Seq(T), \A i \in 1 .. Len(s) : s[i] \in S
    PROVE  s \in Seq(S)
<1>1. s \in [1 .. Len(s) -> S] /\ Len(s) \in Nat
    OBVIOUS
<1> QED BY <1>1, SeqDef

\* What the checks of undo_insert pin down, whatever proof they were given: the
\* low leaf precedes the newest leaf, and the proof restores it as it was.
LEMMA UndoRestoresLow ==
    ASSUME ImtInv, NEW v \in Value, NEW proof \in UndoProof, UndoMatches(v, proof)
    PROVE  LET n == LeafCount - 1
               k == proof.low_leaf_index + 1
           IN  /\ n \in Nat /\ n >= 1 /\ k \in 1 .. n
               /\ leaves[n + 1].value = v
               /\ leaves[k].next_value = v
               /\ leaves[k].value < v
               /\ proof.low_leaf \in Leaf
               /\ proof.low_leaf = [leaves[n + 1] EXCEPT !.value = leaves[k].value]
<1> DEFINE n == LeafCount - 1
           k == proof.low_leaf_index + 1
           low == proof.low_leaf
<1>1. TypeOK /\ SuccessorLinks
    BY DEF ImtInv, SortedListWithoutGaps
<1>2. n \in Nat /\ n >= 1 /\ LeafCount = n + 1
    BY <1>1, LeafTypes DEF UndoMatches
<1>3. low \in Leaf /\ k \in 1 .. n + 1
    BY <1>2, CapacityAssumption DEF UndoProof, UndoMatches, LeafIndex
<1>4. /\ leaves[n + 1].value = v
      /\ leaves[k].next_value = v
      /\ leaves[k].value = low.value
      /\ low.next_value = leaves[n + 1].next_value
      /\ low.next_index = leaves[n + 1].next_index
    BY <1>2 DEF UndoMatches, LeafAt
<1>5. leaves[k].value < v
    BY <1>1, <1>2, <1>3, <1>4, ValueAssumption DEF SuccessorLinks, ZERO
<1>6. k # n + 1
    BY <1>4, <1>5, <1>1, <1>2, LeafTypes
<1>7. leaves[n + 1] \in Leaf
    BY <1>1, <1>2, LeafTypes
<1>8. low = [leaves[n + 1] EXCEPT !.value = leaves[k].value]
    BY <1>3, <1>4, <1>7 DEF Leaf
<1> QED BY <1>2, <1>3, <1>4, <1>5, <1>6, <1>8

\* An undo drops the newest leaf and changes no other leaf's value.
LEMMA UndoEffect ==
    ASSUME ImtInv, NEW v \in Value, NEW proof \in UndoProof, UndoInsert(v, proof)
    PROVE  LET n == LeafCount - 1
               k == proof.low_leaf_index + 1
           IN  /\ leaves' \in Seq(Leaf) /\ Len(leaves') = n /\ LeafCount' = n /\ n >= 1
               /\ leaves'[k] = proof.low_leaf
               /\ \A i \in 1 .. n : i # k => leaves'[i] = leaves[i]
               /\ \A i \in 1 .. n : leaves'[i].value = leaves[i].value
<1> DEFINE n == LeafCount - 1
           k == proof.low_leaf_index + 1
<1>1. /\ n \in Nat /\ n >= 1 /\ k \in 1 .. n /\ proof.low_leaf \in Leaf
      /\ proof.low_leaf = [leaves[n + 1] EXCEPT !.value = leaves[k].value]
    BY UndoRestoresLow DEF UndoInsert
<1>2. leaves \in Seq(Leaf) /\ n + 1 = Len(leaves) /\ leaves[n + 1] \in Leaf
    BY <1>1 DEF ImtInv, TypeOK, LeafCount
<1>3. leaves' = [SubSeq(leaves, 1, n) EXCEPT ![k] = proof.low_leaf]
    BY DEF UndoInsert
<1>4. proof.low_leaf.value = leaves[k].value
    BY <1>1, <1>2 DEF Leaf
<1> HIDE DEF n, k
<1>5. /\ leaves' \in Seq(Leaf) /\ Len(leaves') = n /\ leaves'[k] = proof.low_leaf
      /\ \A i \in 1 .. n : i # k => leaves'[i] = leaves[i]
    BY <1>1, <1>2, <1>3, PrefixExcept
<1>6. \A i \in 1 .. n : leaves'[i].value = leaves[i].value
    BY <1>4, <1>5
<1>7. LeafCount' = n
    BY <1>5 DEF LeafCount
<1> QED BY <1>1, <1>5, <1>6, <1>7 DEF n, k

\* Undoing an insertion closes the gap its value made.
LEMMA UndoPreservesInv ==
    ASSUME ImtInv, NEW v \in Value, NEW proof \in UndoProof, UndoInsert(v, proof)
    PROVE  ImtInv'
<1> DEFINE n == LeafCount - 1
           k == proof.low_leaf_index + 1
           low == proof.low_leaf
           newest == leaves[n + 1]
<1>1. TypeOK /\ DistinctValues /\ SuccessorLinks /\ IndexAgrees
    BY DEF ImtInv, SortedListWithoutGaps
<1>2. /\ n \in Nat /\ n >= 1 /\ k \in 1 .. n
      /\ newest.value = v /\ leaves[k].next_value = v /\ leaves[k].value < v
      /\ low \in Leaf /\ low = [newest EXCEPT !.value = leaves[k].value]
    BY UndoRestoresLow DEF UndoInsert
<1>3. /\ LeafCount = n + 1 /\ LeafCount = Len(leaves) /\ LeafCount <= Capacity
      /\ v \in Nat /\ v # 0
      /\ \A i \in 1 .. n + 1 : /\ leaves[i] \in Leaf /\ leaves[i].value \in Nat
                               /\ leaves[i].next_value \in Nat
                               /\ leaves[i].next_index \in Nat
    BY <1>1, <1>2, LeafTypes, ValueAssumption
<1>4. /\ leaves[1].value = ZERO
      /\ \A i, j \in 1 .. n + 1 : leaves[i].value = leaves[j].value => i = j
      /\ DOMAIN index_by_value = {leaves[i].value : i \in 1 .. n + 1}
      /\ \A i \in 1 .. n + 1 : index_by_value[leaves[i].value] = i - 1
    BY <1>1, <1>3 DEF DistinctValues, IndexAgrees
<1>5. \A i \in 1 .. n + 1 :
         IF leaves[i].next_value = ZERO
         THEN /\ leaves[i].next_index = 0
              /\ \A j \in 1 .. n + 1 : leaves[j].value <= leaves[i].value
         ELSE /\ leaves[i].next_index \in 1 .. n
              /\ leaves[leaves[i].next_index + 1].value = leaves[i].next_value
              /\ leaves[i].value < leaves[i].next_value
              /\ \A j \in 1 .. n + 1 :
                   ~(leaves[i].value < leaves[j].value
                      /\ leaves[j].value < leaves[i].next_value)
    BY <1>1, <1>3 DEF SuccessorLinks, LeafAt
<1>6. /\ leaves' \in Seq(Leaf) /\ Len(leaves') = n
      /\ leaves'[k] = low
      /\ \A i \in 1 .. n : i # k => leaves'[i] = leaves[i]
      /\ \A i \in 1 .. n : leaves'[i].value = leaves[i].value
    BY UndoEffect
<1>7. index_by_value' = [u \in DOMAIN index_by_value \ {v} |-> index_by_value[u]]
    BY DEF UndoInsert
<1>8. LeafCount' = n
    BY <1>6 DEF LeafCount
<1> HIDE DEF n, k, low, newest
<1>9. \A i \in 1 .. n : leaves'[i].value = leaves[i].value
    BY <1>6
<1>10. \A i \in 1 .. n : leaves[i].value # v
    BY <1>2, <1>3, <1>4 DEF newest
<1>11. TypeOK'
    <2>1. LeafCount' \in 1 .. Capacity
        BY <1>8, <1>2, <1>3, CapacityAssumption
    <2>2. DOMAIN index_by_value' \subseteq Value \cup {ZERO}
        BY <1>7, <1>1 DEF TypeOK
    <2>3. \A u \in DOMAIN index_by_value' : index_by_value'[u] \in LeafIndex
        BY <1>7, <1>1 DEF TypeOK
    <2> QED BY <1>6, <2>1, <2>2, <2>3 DEF TypeOK
<1>12. DistinctValues'
    BY <1>2, <1>4, <1>8, <1>9 DEF DistinctValues
<1>13. IndexAgrees'
    <2>1. 1 .. n + 1 = (1 .. n) \cup {n + 1}
        BY <1>2
    <2>2. {leaves[i].value : i \in 1 .. n + 1} = {leaves[i].value : i \in 1 .. n} \cup {v}
        BY <2>1, <1>2 DEF newest
    <2>3. DOMAIN index_by_value' = {leaves'[i].value : i \in 1 .. n}
        BY <2>2, <1>4, <1>7, <1>9, <1>10
    <2>4. \A i \in 1 .. n : index_by_value'[leaves'[i].value] = i - 1
        BY <2>1, <2>3, <1>4, <1>7, <1>9
    <2> QED BY <2>3, <2>4, <1>8 DEF IndexAgrees
<1>14. SuccessorLinks'
    <2>1. SUFFICES ASSUME NEW i \in 1 .. n
          PROVE  IF leaves'[i].next_value = ZERO
                 THEN /\ leaves'[i].next_index = 0
                      /\ \A j \in 1 .. n : leaves[j].value <= leaves[i].value
                 ELSE /\ leaves'[i].next_index \in 1 .. n - 1
                      /\ leaves'[leaves'[i].next_index + 1].value = leaves'[i].next_value
                      /\ leaves[i].value < leaves'[i].next_value
                      /\ \A j \in 1 .. n :
                           ~(leaves[i].value < leaves[j].value
                              /\ leaves[j].value < leaves'[i].next_value)
        BY <1>2, <1>8, <1>9 DEF SuccessorLinks, LeafAt
    <2>2. n + 1 \in 1 .. n + 1 /\ newest = leaves[n + 1] /\ k \in 1 .. n + 1
        BY <1>2 DEF newest
    \* Everything but v lies outside the interval from the low leaf to v.
    <2>3. \A j \in 1 .. n : leaves[j].value <= leaves[k].value \/ v < leaves[j].value
        <3> TAKE j \in 1 .. n
        <3>1. ~(leaves[k].value < leaves[j].value /\ leaves[j].value < v)
            BY <1>2, <1>3, <1>5, <2>2 DEF ZERO
        <3> QED BY <3>1, <1>2, <1>3, <1>10
    <2>4. CASE i = k
        <3>1. /\ leaves'[i].next_value = newest.next_value
              /\ leaves'[i].next_index = newest.next_index
            BY <2>4, <1>2, <1>3, <1>6, <2>2 DEF Leaf
        <3>2. CASE newest.next_value = ZERO
            <4>1. newest.next_index = 0 /\ \A j \in 1 .. n + 1 : leaves[j].value <= v
                BY <3>2, <1>2, <1>5, <2>2
            <4>2. \A j \in 1 .. n : leaves[j].value <= leaves[k].value
                BY <4>1, <2>3, <1>2, <1>3
            <4> QED BY <4>1, <4>2, <3>1, <3>2, <2>4
        <3>3. CASE newest.next_value # ZERO
            <4>1. /\ newest.next_index \in 1 .. n
                  /\ leaves[newest.next_index + 1].value = newest.next_value
                  /\ v < newest.next_value
                  /\ \A j \in 1 .. n + 1 :
                       ~(v < leaves[j].value /\ leaves[j].value < newest.next_value)
                BY <3>3, <1>2, <1>5, <2>2
            <4>2. newest.next_index # n
                BY <4>1, <1>2, <1>3, <2>2
            <4>3. newest.next_index \in 1 .. n - 1 /\ newest.next_index + 1 \in 1 .. n
                BY <4>1, <4>2, <1>2
            <4>4. leaves'[newest.next_index + 1].value = newest.next_value
                BY <4>1, <4>3, <1>9
            <4>5. leaves[k].value < newest.next_value
                BY <4>1, <1>2, <1>3, <2>2
            <4>6. \A j \in 1 .. n :
                    ~(leaves[k].value < leaves[j].value /\ leaves[j].value < newest.next_value)
                BY <4>1, <2>3, <1>2, <1>3
            <4> QED BY <4>3, <4>4, <4>5, <4>6, <3>1, <3>3, <2>4
        <3> QED BY <3>2, <3>3
    \* No other leaf had v for its successor.
    <2>5. CASE i # k
        <3>1. leaves'[i] = leaves[i] /\ i \in 1 .. n + 1
            BY <2>5, <1>2, <1>6
        <3>2. leaves[i].next_value # v
            <4> SUFFICES ASSUME leaves[i].next_value = v PROVE FALSE
                OBVIOUS
            <4>1. /\ leaves[i].value < v
                  /\ ~(leaves[i].value < leaves[k].value /\ leaves[k].value < v)
                BY <3>1, <1>3, <1>5, <2>2 DEF ZERO
            <4>2. leaves[i].value = leaves[k].value
                BY <4>1, <2>3, <1>2, <1>3, <2>2, <3>1
            <4> QED BY <4>2, <1>4, <2>2, <2>5, <3>1
        <3>3. CASE leaves[i].next_value = ZERO
            BY <3>1, <3>3, <1>2, <1>5
        <3>4. CASE leaves[i].next_value # ZERO
            <4>1. /\ leaves[i].next_index \in 1 .. n
                  /\ leaves[leaves[i].next_index + 1].value = leaves[i].next_value
                  /\ leaves[i].value < leaves[i].next_value
                  /\ \A j \in 1 .. n + 1 :
                       ~(leaves[i].value < leaves[j].value
                          /\ leaves[j].value < leaves[i].next_value)
                BY <3>1, <3>4, <1>5
            <4>2. leaves[i].next_index # n
                BY <4>1, <3>2, <1>2, <2>2
            <4>3. leaves[i].next_index \in 1 .. n - 1 /\ leaves[i].next_index + 1 \in 1 .. n
                BY <4>1, <4>2, <1>2
            <4>4. leaves'[leaves[i].next_index + 1].value = leaves[i].next_value
                BY <4>1, <4>3, <1>9
            <4> QED BY <4>1, <4>3, <4>4, <3>1, <3>4, <1>2
        <3> QED BY <3>3, <3>4
    <2> QED BY <2>4, <2>5
<1> QED BY <1>11, <1>12, <1>13, <1>14 DEF ImtInv, SortedListWithoutGaps

\* Every step keeps the invariant.
LEMMA NextPreservesInv == ImtInv /\ [Next]_tree => ImtInv'
<1> SUFFICES ASSUME ImtInv, [Next]_tree PROVE ImtInv'
    OBVIOUS
<1>1. ASSUME NEW v \in Value, Insert(v) PROVE ImtInv'
    BY <1>1, InsertPreservesInv
<1>2. ASSUME NEW v \in Value, NEW proof \in UndoProof, UndoInsert(v, proof) PROVE ImtInv'
    BY <1>2, UndoPreservesInv
<1>3. CASE UNCHANGED tree
    BY <1>3 DEF tree, ImtInv, TypeOK, SortedListWithoutGaps, DistinctValues,
       SuccessorLinks, IndexAgrees, LeafCount, LeafAt
<1> QED BY <1>1, <1>2, <1>3 DEF Next

\* imt.rs: through every sequence of insertions and undos -- whatever proofs
\* undo_insert was offered -- the variables keep their types.
THEOREM TypeCorrect == Spec => []TypeOK
<1>1. Spec => []ImtInv
    BY InitInv, NextPreservesInv, PTL DEF Spec
<1>2. ImtInv => TypeOK
    BY DEF ImtInv
<1> QED BY <1>1, <1>2, PTL

\* imt.rs: ... and the leaves stay one sorted linked list without gaps, found
\* by the value index: the fact that makes a covering leaf a proof of absence.
THEOREM SortedList == Spec => []SortedListWithoutGaps
<1>1. Spec => []ImtInv
    BY InitInv, NextPreservesInv, PTL DEF Spec
<1>2. ImtInv => SortedListWithoutGaps
    BY DEF ImtInv
<1> QED BY <1>1, <1>2, PTL

\* The caller's view of the tree, entry by entry.
LogShape ==
    /\ Tail(StoredValues) \in Seq(Value)
    /\ Len(Tail(StoredValues)) = LeafCount - 1
    /\ \A i \in 1 .. LeafCount - 1 : Tail(StoredValues)[i] = leaves[i + 1].value

\* The values in leaf order are a log as NullifierLog has it.
LEMMA LogOfTree ==
    ASSUME ImtInv
    PROVE  LogShape
<1>1. TypeOK /\ DistinctValues
    BY DEF ImtInv, SortedListWithoutGaps
<1>2. LeafCount \in Nat /\ LeafCount >= 1
    BY <1>1, LeafTypes
<1>3. /\ StoredValues \in Seq(Value \cup {ZERO}) /\ Len(StoredValues) = LeafCount
      /\ \A i \in 1 .. LeafCount : StoredValues[i] = leaves[i].value
    <2>1. \A i \in 1 .. LeafCount : leaves[i].value \in Value \cup {ZERO}
        BY <1>1, LeafTypes DEF Leaf
    <2> QED BY <2>1, <1>2 DEF StoredValues
<1>4. \A i \in 1 .. LeafCount - 1 : leaves[i + 1].value \in Value
    <2> TAKE i \in 1 .. LeafCount - 1
    <2>1. leaves[i + 1].value \in Value \cup {ZERO}
        BY <1>1, <1>2, LeafTypes DEF Leaf
    <2>2. leaves[i + 1].value # ZERO
        BY <1>1, <1>2 DEF DistinctValues
    <2> QED BY <2>1, <2>2
<1>5. /\ Len(Tail(StoredValues)) = LeafCount - 1
      /\ Tail(StoredValues) \in Seq(Value \cup {ZERO})
      /\ \A i \in 1 .. LeafCount - 1 : Tail(StoredValues)[i] = leaves[i + 1].value
    <2> HIDE DEF StoredValues
    <2> QED BY <1>2, <1>3, HeadTailProperties
<1>6. Tail(StoredValues) \in Seq(Value)
    BY <1>4, <1>5, SeqNarrow
<1> QED BY <1>5, <1>6 DEF LogShape

\* imt.rs: callers see a duplicate-free log that grows at the end, is bounded
\* by the capacity and gives back its newest entry only.
THEOREM TreeImplementsLog == Spec => ImplementsLog
<1>1. Init => Log!Init
    <2> SUFFICES ASSUME Init PROVE Log!Init
        OBVIOUS
    <2>1. LeafCount = 1 /\ ImtInv
        BY InitInv DEF Init, LeafCount
    <2>2. Tail(StoredValues) \in Seq(Value) /\ Len(Tail(StoredValues)) = 0
        BY <2>1, LogOfTree DEF LogShape
    <2> QED BY <2>2, EmptySeq DEF Log!Init
<1>2. (ImtInv => LogShape) /\ (ImtInv' => LogShape')
    BY LogOfTree, PTL
<1>3. ImtInv /\ ImtInv' /\ [Next]_tree => [Log!Next]_(Tail(StoredValues))
    <2> SUFFICES ASSUME ImtInv, ImtInv', [Next]_tree
                 PROVE  Log!Next \/ Tail(StoredValues)' = Tail(StoredValues)
        OBVIOUS
    <2> DEFINE log == Tail(StoredValues)
               n == LeafCount - 1
    <2>1. /\ log \in Seq(Value) /\ Len(log) = n
          /\ \A i \in 1 .. n : log[i] = leaves[i + 1].value
        BY <1>2 DEF LogShape
    <2>2. /\ log' \in Seq(Value) /\ Len(log') = LeafCount' - 1
          /\ \A i \in 1 .. LeafCount' - 1 : log'[i] = leaves'[i + 1].value
        BY <1>2 DEF LogShape
    <2>3. n \in Nat /\ LeafCount = n + 1 /\ LeafCount \in Nat
        BY LeafTypes DEF ImtInv
    <2>4. ASSUME NEW v \in Value, Insert(v) PROVE Log!Append1(v)
        <3>1. /\ LeafCount' = LeafCount + 1
              /\ leaves'[LeafCount + 1].value = v
              /\ \A i \in 1 .. LeafCount : leaves'[i].value = leaves[i].value
              /\ \A i \in 1 .. LeafCount : leaves[i].value # v
              /\ LeafCount < Capacity
            <4>1. leaves'[LeafCount + 1].value = v
                <5>1. leaves'[LeafCount + 1]
                        = [value |-> v, next_value |-> leaves[LowLeafIndex(v) + 1].next_value,
                           next_index |-> leaves[LowLeafIndex(v) + 1].next_index]
                    BY <2>4, InsertEffect
                <5> QED BY <5>1
            <4>2. LeafCount' = LeafCount + 1 /\ LeafCount < Capacity
                BY <2>4, InsertEffect
            <4>3. /\ \A i \in 1 .. LeafCount : leaves'[i].value = leaves[i].value
                  /\ \A i \in 1 .. LeafCount : leaves[i].value # v
                BY <2>4, InsertEffect
            <4> QED BY <4>1, <4>2, <4>3
        <3> HIDE DEF log, n
        <3>2. /\ Append(log, v) \in Seq(Value) /\ Len(Append(log, v)) = n + 1
              /\ \A i \in 1 .. n : Append(log, v)[i] = log[i]
              /\ Append(log, v)[n + 1] = v
            BY <2>1, <2>3, AppendProperties
        <3>3. Len(log') = n + 1 /\ \A i \in 1 .. n + 1 : log'[i] = Append(log, v)[i]
            BY <2>1, <2>2, <2>3, <3>1, <3>2
        <3>4. log' = Append(log, v)
            BY <2>2, <3>2, <3>3, SeqEqual
        <3>5. v \notin {log[i] : i \in 1 .. Len(log)}
            BY <2>1, <2>3, <3>1
        <3>6. Len(log) < Capacity - 1
            BY <2>1, <2>3, <3>1, CapacityAssumption
        <3> QED BY <3>4, <3>5, <3>6 DEF Log!Append1, Log!Entries, log
    <2>5. ASSUME NEW v \in Value, NEW proof \in UndoProof, UndoInsert(v, proof)
          PROVE  Log!UndoNewest
        <3>1. /\ LeafCount' = n /\ n >= 1
              /\ \A i \in 1 .. n : leaves'[i].value = leaves[i].value
            BY <2>5, UndoEffect
        <3> HIDE DEF log, n
        <3>2. /\ SubSeq(log, 1, n - 1) \in Seq(Value) /\ Len(SubSeq(log, 1, n - 1)) = n - 1
              /\ \A i \in 1 .. n - 1 : SubSeq(log, 1, n - 1)[i] = log[i]
            BY <2>1, <2>3, <3>1, SubSeqProperties
        <3>3. Len(log') = n - 1 /\ \A i \in 1 .. n - 1 : log'[i] = log[i]
            <4>1. Len(log') = n - 1
                BY <2>2, <2>3, <3>1
            <4>2. ASSUME NEW i \in 1 .. n - 1 PROVE log'[i] = log[i]
                <5>1. i \in 1 .. LeafCount' - 1 /\ i \in 1 .. n /\ i + 1 \in 1 .. n
                    BY <2>3, <3>1
                <5>2. log'[i] = leaves'[i + 1].value /\ log[i] = leaves[i + 1].value
                    BY <5>1, <2>1, <2>2
                <5> QED BY <5>1, <5>2, <3>1
            <4> QED BY <4>1, <4>2
        <3>4. log' = SubSeq(log, 1, Len(log) - 1)
            BY <2>1, <2>2, <3>2, <3>3, SeqEqual
        <3>5. log # <<>>
            BY <2>1, <2>3, <3>1
        <3> QED BY <3>4, <3>5 DEF Log!UndoNewest, log
    <2>6. CASE UNCHANGED tree
        BY <2>6 DEF tree, StoredValues, LeafCount
    <2> QED BY <2>4, <2>5, <2>6 DEF Next, Log!Next
<1>4. Spec => []ImtInv
    BY InitInv, NextPreservesInv, PTL DEF Spec
<1> QED BY <1>1, <1>3, <1>4, PTL DEF Spec, ImplementsLog, Log!Spec

----------------------------------------------------------------------------
(* The hash tree.                                                          *)

\* What is known of the powers of two up to the depth.
LEMMA Powers ==
    /\ 2 ^ 0 = 1 /\ 2 ^ Depth = Capacity
    /\ \A l \in 0 .. Depth : 2 ^ l \in Nat \ {0}
    /\ \A l \in 1 .. Depth : 2 ^ l = 2 * 2 ^ (l - 1)
<1>1. Depth \in Nat /\ \A l \in 0 .. Depth : 2 ^ l \in Nat
    BY DepthAssumption, PowerAssumption
<1> DEFINE Good == {l \in 0 .. Depth : 2 ^ l >= 1}
<1>2. \A l \in 0 .. Depth : l \in Good
    <2>1. 0 \in Good
        BY <1>1, PowerAssumption
    <2>2. ASSUME NEW l \in 1 .. Depth, l - 1 \in Good PROVE l \in Good
        <3>1. l - 1 \in 0 .. Depth /\ 2 ^ (l - 1) >= 1 /\ 2 ^ l = 2 * 2 ^ (l - 1)
            BY <2>2, <1>1, PowerAssumption
        <3>2. 2 ^ (l - 1) \in Nat
            BY <3>1, <1>1
        <3> QED BY <3>1, <3>2, <1>1
    <2> HIDE DEF Good
    <2> QED BY <2>1, <2>2, <1>1, UpTo
<1>3. \A l \in 0 .. Depth : 2 ^ l # 0
    BY <1>1, <1>2
<1> QED BY <1>1, <1>3, PowerAssumption DEF Capacity

\* Dividing by p and then by two is dividing by twice p.
LEMMA HalfOfQuotient ==
    ASSUME NEW i \in Nat, NEW p \in Nat \ {0}
    PROVE  i \div (2 * p) = (i \div p) \div 2
    OBVIOUS

\* A number's half and its place in the pair.
LEMMA Pairs ==
    ASSUME NEW a \in Nat
    PROVE  /\ a \div 2 \in Nat
           /\ a = 2 * (a \div 2) \/ a = 2 * (a \div 2) + 1
           /\ a % 2 = 0 <=> a = 2 * (a \div 2)
           /\ Sibling(a) = IF a = 2 * (a \div 2) THEN 2 * (a \div 2) + 1 ELSE 2 * (a \div 2)
    BY DEF Sibling

\* The way up from a leaf: each position covers the leaf and is half of the
\* one below.
LEMMA WayUp ==
    ASSUME NEW i \in LeafIndex
    PROVE  /\ i \in Nat /\ Ancestor(i, 0) = i /\ Ancestor(i, Depth) = 0
           /\ \A l \in 0 .. Depth :
                  /\ Ancestor(i, l) \in LeafIndex
                  /\ Ancestor(i, l) * 2 ^ l <= i /\ i < Ancestor(i, l) * 2 ^ l + 2 ^ l
           /\ \A l \in 1 .. Depth : Ancestor(i, l) = Ancestor(i, l - 1) \div 2
<1>1. i \in Nat /\ i < Capacity /\ Depth \in Nat
    BY CapacityAssumption, DepthAssumption DEF LeafIndex
<1>2. Ancestor(i, 0) = i
    BY <1>1, Powers DEF Ancestor
<1>3. ASSUME NEW p \in Nat \ {0}
      PROVE  /\ i \div p \in Nat /\ (i \div p) * p <= i /\ i < (i \div p) * p + p
             /\ i \div p <= i
    <2>1. i \div p \in Nat /\ (i \div p) * p <= i /\ i < (i \div p) * p + p
        BY <1>1
    <2>2. i \div p <= (i \div p) * p
        BY <2>1
    <2> QED BY <1>1, <2>1, <2>2
<1>4. ASSUME NEW l \in 0 .. Depth
      PROVE  /\ Ancestor(i, l) \in LeafIndex
             /\ Ancestor(i, l) * 2 ^ l <= i /\ i < Ancestor(i, l) * 2 ^ l + 2 ^ l
    <2> DEFINE p == 2 ^ l
               a == i \div p
    <2>1. p \in Nat \ {0}
        BY <1>1, Powers
    <2>2. Ancestor(i, l) = a
        BY DEF Ancestor
    <2> HIDE DEF p
    <2>3. a \in Nat /\ a * p <= i /\ i < a * p + p /\ a <= i
        BY <1>3, <2>1
    <2>4. a \in LeafIndex
        BY <1>1, <2>3, CapacityAssumption DEF LeafIndex
    <2> QED BY <2>2, <2>3, <2>4 DEF p
<1>5. ASSUME NEW l \in 1 .. Depth
      PROVE  Ancestor(i, l) = Ancestor(i, l - 1) \div 2
    <2>1. 2 ^ l = 2 * 2 ^ (l - 1) /\ 2 ^ (l - 1) \in Nat \ {0}
        BY <1>1, Powers
    <2> QED BY <2>1, <1>1, HalfOfQuotient DEF Ancestor
<1>6. Ancestor(i, Depth) = 0
    BY <1>1, Powers, CapacityAssumption DEF Ancestor
<1> QED BY <1>1, <1>2, <1>4, <1>5, <1>6

\* A position that begins at leaf i is on the way up from it.
LEMMA AncestorAt ==
    ASSUME NEW i \in LeafIndex, NEW l \in 0 .. Depth, NEW k \in LeafIndex, k * 2 ^ l = i
    PROVE  k = Ancestor(i, l)
<1> DEFINE p == 2 ^ l
           a == Ancestor(i, l)
<1>1. p \in Nat \ {0} /\ k \in Nat /\ a \in Nat
    BY Powers, WayUp, CapacityAssumption DEF LeafIndex
<1>2. a * p <= i /\ i < a * p + p /\ k * p = i
    BY WayUp
<1> HIDE DEF p, a
<1>3. a * p <= k * p /\ k * p < (a + 1) * p
    BY <1>1, <1>2
<1>4. a <= k /\ k < a + 1
    BY <1>1, <1>3
<1> QED BY <1>1, <1>4 DEF a

\* The empty digests by level: Zero is the function its definition says.
ZeroUpTo(f, n) ==
    f = [level \in 0 .. n |-> IF level = 0 THEN EmptyLeaf ELSE NodeHash(f[level - 1], f[level - 1])]

\* Up to every level there is one.
LEMMA ZeroExists == \A n \in Nat : \E f : ZeroUpTo(f, n)
<1> DEFINE Bad == {n \in Nat : ~ \E f : ZeroUpTo(f, n)}
<1> SUFFICES ASSUME Bad # {} PROVE FALSE
    OBVIOUS
<1>1. PICK m \in Bad : \A k \in Bad : m <= k
    <2> Bad \in SUBSET Nat
        OBVIOUS
    <2> HIDE DEF Bad
    <2> QED BY SmallestNat
<1>2. CASE m = 0
    <2>1. ZeroUpTo([n \in 0 .. 0 |-> EmptyLeaf], 0)
        BY DEF ZeroUpTo
    <2> QED BY <2>1, <1>2
<1>3. CASE m # 0
    <2>1. m \in Nat /\ m - 1 \in Nat /\ m - 1 \notin Bad
        BY <1>1, <1>3
    <2>2. PICK f : ZeroUpTo(f, m - 1)
        BY <2>1
    <2> DEFINE g == [n \in 0 .. m |-> IF n = m THEN NodeHash(f[m - 1], f[m - 1]) ELSE f[n]]
    <2>3. \A n \in 0 .. m - 1 : f[n] = IF n = 0 THEN EmptyLeaf ELSE NodeHash(f[n - 1], f[n - 1])
        BY <2>2 DEF ZeroUpTo
    <2>4. (\A n \in 0 .. m - 1 : g[n] = f[n]) /\ g[m] = NodeHash(f[m - 1], f[m - 1])
        BY <2>1
    <2>5. ASSUME NEW n \in 0 .. m
          PROVE  g[n] = IF n = 0 THEN EmptyLeaf ELSE NodeHash(g[n - 1], g[n - 1])
        <3> HIDE DEF g
        <3>1. CASE n = m
            <4>1. m - 1 \in 0 .. m - 1
                BY <2>1
            <4> QED BY <2>4, <3>1, <4>1, <1>3
        <3>2. CASE n # m
            <4>1. n \in 0 .. m - 1 /\ (n # 0 => n - 1 \in 0 .. m - 1)
                BY <2>1, <3>2
            <4> QED BY <2>3, <2>4, <4>1
        <3> QED BY <3>1, <3>2
    <2>6. ZeroUpTo(g, m)
        <3>1. g = [n \in 0 .. m |-> g[n]]
            OBVIOUS
        <3> HIDE DEF g
        <3> QED BY <2>5, <3>1 DEF ZeroUpTo
    <2> QED BY <2>6, <1>1
<1> QED BY <1>2, <1>3

\* So Zero, the one over all levels, is too.
LEMMA ZeroUnfolds ==
    /\ Zero[0] = EmptyLeaf
    /\ \A level \in Nat \ {0} : Zero[level] = NodeHash(Zero[level - 1], Zero[level - 1])
<1> DEFINE pick(n) == CHOOSE f : ZeroUpTo(f, n)
           z == [n \in Nat |-> pick(n)[n]]
           IsZero(f) == f = [level \in Nat |-> IF level = 0 THEN EmptyLeaf
                                               ELSE NodeHash(f[level - 1], f[level - 1])]
<1>1. \A n \in Nat : ZeroUpTo(pick(n), n)
    BY ZeroExists
<1>2. ASSUME NEW n \in Nat, NEW l \in 0 .. n
      PROVE  pick(n)[l] = IF l = 0 THEN EmptyLeaf ELSE NodeHash(pick(n)[l - 1], pick(n)[l - 1])
    <2>1. ZeroUpTo(pick(n), n)
        BY <1>1
    <2> HIDE DEF pick
    <2> QED BY <2>1 DEF ZeroUpTo
<1> HIDE DEF pick
<1>3. \A n \in Nat \ {0} : pick(n)[n - 1] = pick(n - 1)[n - 1]
    <2> SUFFICES ASSUME NEW n \in Nat \ {0} PROVE pick(n)[n - 1] = pick(n - 1)[n - 1]
        OBVIOUS
    <2> DEFINE Good == {l \in 0 .. n - 1 : pick(n)[l] = pick(n - 1)[l]}
    <2>1. 0 \in Good
        BY <1>2
    <2>2. ASSUME NEW l \in 1 .. n - 1, l - 1 \in Good PROVE l \in Good
        <3>1. l \in 0 .. n /\ l \in 0 .. n - 1 /\ l # 0 /\ n - 1 \in Nat
            OBVIOUS
        <3>2. /\ pick(n)[l] = NodeHash(pick(n)[l - 1], pick(n)[l - 1])
              /\ pick(n - 1)[l] = NodeHash(pick(n - 1)[l - 1], pick(n - 1)[l - 1])
            BY <1>2, <3>1
        <3> QED BY <2>2, <3>1, <3>2
    <2>3. \A l \in 0 .. n - 1 : l \in Good
        <3> HIDE DEF Good
        <3> QED BY <2>1, <2>2, UpTo
    <2> QED BY <2>3
<1>4. \A n \in Nat : z[n] = IF n = 0 THEN EmptyLeaf ELSE NodeHash(z[n - 1], z[n - 1])
    <2> TAKE n \in Nat
    <2>1. CASE n = 0
        BY <1>2, <2>1
    <2>2. CASE n # 0
        <3>1. n - 1 \in Nat /\ n \in 0 .. n
            BY <2>2
        <3>2. z[n] = NodeHash(pick(n)[n - 1], pick(n)[n - 1])
            BY <1>2, <2>2, <3>1
        <3> QED BY <1>3, <2>2, <3>1, <3>2
    <2> QED BY <2>1, <2>2
<1>5. IsZero(z)
    <2>1. z = [n \in Nat |-> z[n]]
        OBVIOUS
    <2> HIDE DEF z
    <2> QED BY <1>4, <2>1
<1>6. Zero = CHOOSE f : IsZero(f)
    BY DEF Zero
<1>7. IsZero(Zero)
    <2> HIDE DEF IsZero
    <2> QED BY <1>5, <1>6
<1> QED BY <1>7

\* Digests are terms: a node has one pair of children, a leaf one content,
\* and no leaf is empty (hash.rs separates the three by a tag).
LEMMA DigestsAreInjective ==
    /\ \A a, b, c, d : NodeHash(a, b) = NodeHash(c, d) => a = c /\ b = d
    /\ \A a, b \in Leaf : LeafHash(a) = LeafHash(b) => a = b
    /\ \A a \in Leaf : LeafHash(a) # EmptyLeaf
<1>1. ASSUME NEW a, NEW b, NEW c, NEW d, NodeHash(a, b) = NodeHash(c, d)
      PROVE  a = c /\ b = d
    BY <1>1 DEF NodeHash
<1>2. ASSUME NEW a \in Leaf, NEW b \in Leaf, LeafHash(a) = LeafHash(b)
      PROVE  a = b
    BY <1>2 DEF LeafHash, Leaf
<1>3. ASSUME NEW a \in Leaf, LeafHash(a) = EmptyLeaf PROVE FALSE
    BY <1>3 DEF LeafHash, EmptyLeaf
<1> QED BY <1>1, <1>2, <1>3

\* A node's digest on a way up, from the digest below it and its sibling's.
Combined(index, level, below, sibling) ==
    IF Ancestor(index, level - 1) % 2 = 0 THEN NodeHash(below, sibling) ELSE NodeHash(sibling, below)

Climbs(up, n, digest, index, siblings) ==
    up = [level \in 0 .. n |->
             IF level = 0 THEN digest
             ELSE IF Ancestor(index, level - 1) % 2 = 0
                  THEN NodeHash(up[level - 1], siblings[level])
                  ELSE NodeHash(siblings[level], up[level - 1])]

\* The function exists up to every level.
LEMMA ClimbsExist ==
    ASSUME NEW digest, NEW index, NEW siblings
    PROVE  \A n \in Nat : \E up : Climbs(up, n, digest, index, siblings)
<1> DEFINE Bad == {n \in Nat : ~ \E up : Climbs(up, n, digest, index, siblings)}
<1> SUFFICES ASSUME Bad # {} PROVE FALSE
    OBVIOUS
<1>1. PICK m \in Bad : \A k \in Bad : m <= k
    <2> Bad \in SUBSET Nat
        OBVIOUS
    <2> HIDE DEF Bad
    <2> QED BY SmallestNat
<1>2. CASE m = 0
    <2>1. Climbs([n \in 0 .. 0 |-> digest], 0, digest, index, siblings)
        BY DEF Climbs
    <2> QED BY <2>1, <1>2
<1>3. CASE m # 0
    <2>1. m \in Nat /\ m - 1 \in Nat /\ m - 1 \notin Bad
        BY <1>1, <1>3
    <2>2. PICK f : Climbs(f, m - 1, digest, index, siblings)
        BY <2>1
    <2> DEFINE step(n, below) == Combined(index, n, below, siblings[n])
               g == [n \in 0 .. m |-> IF n = m THEN step(m, f[m - 1]) ELSE f[n]]
    <2>3. \A n \in 0 .. m - 1 : f[n] = IF n = 0 THEN digest ELSE step(n, f[n - 1])
        BY <2>2 DEF Climbs, Combined
    <2> HIDE DEF step
    <2>4. (\A n \in 0 .. m - 1 : g[n] = f[n]) /\ g[m] = step(m, f[m - 1])
        BY <2>1
    <2>5. ASSUME NEW n \in 0 .. m
          PROVE  g[n] = IF n = 0 THEN digest ELSE step(n, g[n - 1])
        <3> HIDE DEF g
        <3>1. CASE n = m
            <4>1. m - 1 \in 0 .. m - 1
                BY <2>1
            <4> QED BY <2>4, <3>1, <4>1, <1>3
        <3>2. CASE n # m
            <4>1. n \in 0 .. m - 1 /\ (n # 0 => n - 1 \in 0 .. m - 1)
                BY <2>1, <3>2
            <4> QED BY <2>3, <2>4, <4>1
        <3> QED BY <3>1, <3>2
    <2>6. Climbs(g, m, digest, index, siblings)
        <3>1. g = [n \in 0 .. m |-> g[n]]
            OBVIOUS
        <3> HIDE DEF g
        <3> QED BY <2>5, <3>1 DEF Climbs, step, Combined
    <2> QED BY <2>6, <1>1
<1> QED BY <1>2, <1>3

\* So PathDigests climbs one level at a time.
LEMMA PathDigestsUnfold ==
    ASSUME NEW digest, NEW index, NEW siblings, Len(siblings) \in Nat
    PROVE  /\ PathDigests(digest, index, siblings)[0] = digest
           /\ \A l \in 1 .. Len(siblings) :
                  PathDigests(digest, index, siblings)[l]
                    = Combined(index, l, PathDigests(digest, index, siblings)[l - 1], siblings[l])
<1> DEFINE n  == Len(siblings)
           up == CHOOSE f : Climbs(f, n, digest, index, siblings)
<1>1. Climbs(up, n, digest, index, siblings)
    BY ClimbsExist
<1>2. PathDigests(digest, index, siblings) = up
    BY DEF PathDigests, Climbs
<1> HIDE DEF up
<1> QED BY <1>1, <1>2 DEF Climbs, Combined

\* A path that has all its siblings, and the digests along it.
Whole(siblings) == Len(siblings) = Depth

AreUp(up, digest, index, siblings) ==
    /\ up[0] = digest
    /\ \A l \in 1 .. Depth : up[l] = Combined(index, l, up[l - 1], siblings[l])

\* PathDigests are those digests, and the root is the last of them.
LEMMA PathClimbs ==
    ASSUME NEW digest, NEW index, NEW siblings, Whole(siblings)
    PROVE  /\ AreUp(PathDigests(digest, index, siblings), digest, index, siblings)
           /\ RootFromPath(digest, index, siblings) = PathDigests(digest, index, siblings)[Depth]
<1>1. Len(siblings) \in Nat
    BY DepthAssumption DEF Whole
<1> QED BY <1>1, PathDigestsUnfold DEF RootFromPath, AreUp, Whole

\* Every node of a map holds the hash of its two children, the missing ones
\* included: they stand for empty subtrees.
Hashes(map) ==
    \A l \in 1 .. Depth, k \in Nat :
        Node(map, l, k) = NodeHash(Node(map, l - 1, 2 * k), Node(map, l - 1, 2 * k + 1))

\* A path's siblings are digests, one for each level.
LEMMA SiblingsShape ==
    ASSUME NEW map, NEW index
    PROVE  /\ Whole(Siblings(map, index))
           /\ \A l \in 1 .. Depth :
                  Siblings(map, index)[l] = Node(map, l - 1, Sibling(Ancestor(index, l - 1)))
<1> DEFINE sib == Siblings(map, index)
           digests == {sib[l] : l \in 1 .. Depth}
<1>1. sib = [l \in 1 .. Depth |-> sib[l]] /\ Depth \in Nat
    BY DepthAssumption DEF Siblings
<1>2. sib \in [1 .. Depth -> digests]
    <2> HIDE DEF sib
    <2> QED BY <1>1
<1>3. Len(sib) = Depth
    <2> HIDE DEF sib, digests
    <2> QED BY <1>1, <1>2
<1> QED BY <1>3 DEF Siblings, Whole

\* What a node on the way up from i is made of: the node below and its sibling.
LEMMA ParentOnTheWay ==
    ASSUME NEW map, Hashes(map), NEW i \in LeafIndex, NEW l \in 1 .. Depth
    PROVE  Node(map, l, Ancestor(i, l))
             = Combined(i, l, Node(map, l - 1, Ancestor(i, l - 1)), Siblings(map, i)[l])
<1> DEFINE a == Ancestor(i, l - 1)
           p == Ancestor(i, l)
<1>1. a \in Nat /\ p \in Nat /\ p = a \div 2
    <2>1. l - 1 \in 0 .. Depth /\ l \in 0 .. Depth
        BY DepthAssumption
    <2> QED BY <2>1, WayUp, CapacityAssumption DEF LeafIndex
<1>2. Siblings(map, i)[l] = Node(map, l - 1, Sibling(a))
    BY SiblingsShape
<1>3. Node(map, l, p) = NodeHash(Node(map, l - 1, 2 * p), Node(map, l - 1, 2 * p + 1))
    BY <1>1 DEF Hashes
<1>4. Combined(i, l, Node(map, l - 1, a), Siblings(map, i)[l])
        = IF a % 2 = 0 THEN NodeHash(Node(map, l - 1, a), Siblings(map, i)[l])
          ELSE NodeHash(Siblings(map, i)[l], Node(map, l - 1, a))
    BY DEF Combined
<1> HIDE DEF a, p
<1>5. CASE a = 2 * p
    <2>1. a % 2 = 0 /\ Sibling(a) = 2 * p + 1
        BY <1>1, <1>5, Pairs
    <2> QED BY <1>2, <1>3, <1>4, <1>5, <2>1 DEF a, p
<1>6. CASE a = 2 * p + 1
    <2>1. a % 2 # 0 /\ Sibling(a) = 2 * p
        BY <1>1, <1>6, Pairs
    <2> QED BY <1>2, <1>3, <1>4, <1>6, <2>1 DEF a, p
<1> QED BY <1>1, <1>5, <1>6, Pairs

\* An honest path: with a leaf's own digest and siblings, the digests on the
\* way up are the tree's, the root among them.
LEMMA HonestPath ==
    ASSUME NEW map, Hashes(map), NEW i \in LeafIndex
    PROVE  /\ \A l \in 0 .. Depth :
                  PathDigests(Node(map, 0, i), i, Siblings(map, i))[l] = Node(map, l, Ancestor(i, l))
           /\ RootFromPath(Node(map, 0, i), i, Siblings(map, i)) = Root(map)
<1> DEFINE own == Node(map, 0, i)
           sib == Siblings(map, i)
           up  == PathDigests(own, i, sib)
           Good == {l \in 0 .. Depth : up[l] = Node(map, l, Ancestor(i, l))}
<1>0. Depth \in Nat /\ 0 \in 0 .. Depth /\ Depth \in 0 .. Depth
    BY DepthAssumption
<1>9. Ancestor(i, 0) = i /\ Ancestor(i, Depth) = 0
    BY WayUp
<1>1. Whole(sib)
    BY SiblingsShape
<1>2. AreUp(up, own, i, sib) /\ RootFromPath(own, i, sib) = up[Depth]
    BY <1>1, PathClimbs
<1> HIDE DEF own, sib
<1> HIDE DEF up
<1>3. 0 \in Good
    BY <1>0, <1>9, <1>2 DEF AreUp, own
<1>4. ASSUME NEW l \in 1 .. Depth, l - 1 \in Good PROVE l \in Good
    <2>1. up[l] = Combined(i, l, up[l - 1], sib[l])
        BY <1>2 DEF AreUp
    <2>2. up[l - 1] = Node(map, l - 1, Ancestor(i, l - 1))
        BY <1>4
    <2>3. Node(map, l, Ancestor(i, l)) = Combined(i, l, Node(map, l - 1, Ancestor(i, l - 1)), sib[l])
        BY ParentOnTheWay DEF sib
    <2> QED BY <1>0, <2>1, <2>2, <2>3
<1>5. \A l \in 0 .. Depth : l \in Good
    <2> HIDE DEF Good
    <2> QED BY <1>0, <1>3, <1>4, UpTo
<1>6. RootFromPath(own, i, sib) = Root(map)
    BY <1>0, <1>9, <1>2, <1>5 DEF Root
<1> QED BY <1>5, <1>6 DEF up, own, sib

\* No other path leads to the root: what was hashed is the tree's own leaf at
\* that position and the siblings are the tree's own.
LEMMA OnlyHonestPaths ==
    ASSUME NEW map, Hashes(map), NEW i \in LeafIndex, NEW digest, NEW siblings,
           Whole(siblings), RootFromPath(digest, i, siblings) = Root(map)
    PROVE  /\ digest = Node(map, 0, i)
           /\ \A l \in 1 .. Depth : siblings[l] = Siblings(map, i)[l]
<1> DEFINE up == PathDigests(digest, i, siblings)
           Good == {j \in 0 .. Depth : up[Depth - j] = Node(map, Depth - j, Ancestor(i, Depth - j))}
<1>0. Depth \in Nat /\ 0 \in 0 .. Depth /\ Depth \in 0 .. Depth
    BY DepthAssumption
<1>9. Ancestor(i, 0) = i /\ Ancestor(i, Depth) = 0
    BY WayUp
<1>1. /\ up[0] = digest /\ up[Depth] = Root(map)
      /\ \A l \in 1 .. Depth : up[l] = Combined(i, l, up[l - 1], siblings[l])
    <2>1. AreUp(up, digest, i, siblings) /\ RootFromPath(digest, i, siblings) = up[Depth]
        BY PathClimbs
    <2> HIDE DEF up
    <2> QED BY <2>1 DEF AreUp
<1> HIDE DEF up
<1>2. ASSUME NEW l \in 1 .. Depth, up[l] = Node(map, l, Ancestor(i, l))
      PROVE  /\ up[l - 1] = Node(map, l - 1, Ancestor(i, l - 1))
             /\ siblings[l] = Siblings(map, i)[l]
    <2> DEFINE below == Node(map, l - 1, Ancestor(i, l - 1))
               own   == Siblings(map, i)[l]
    <2>1. Combined(i, l, up[l - 1], siblings[l]) = Combined(i, l, below, own)
        BY <1>1, <1>2, ParentOnTheWay
    <2> HIDE DEF below, own
    <2>2. up[l - 1] = below /\ siblings[l] = own
        <3>1. CASE Ancestor(i, l - 1) % 2 = 0
            BY <2>1, <3>1, DigestsAreInjective DEF Combined
        <3>2. CASE Ancestor(i, l - 1) % 2 # 0
            BY <2>1, <3>2, DigestsAreInjective DEF Combined
        <3> QED BY <3>1, <3>2
    <2> QED BY <2>2 DEF below, own
<1>3. 0 \in Good
    <2>1. Depth - 0 = Depth
        BY <1>0
    <2>2. up[Depth] = Node(map, Depth, Ancestor(i, Depth))
        BY <1>9, <1>1 DEF Root
    <2> QED BY <1>0, <2>1, <2>2
<1>4. ASSUME NEW j \in 1 .. Depth, j - 1 \in Good PROVE j \in Good
    <2>1. Depth - (j - 1) \in 1 .. Depth /\ Depth - (j - 1) - 1 = Depth - j /\ j \in 0 .. Depth
        BY <1>0
    <2>2. up[Depth - j] = Node(map, Depth - j, Ancestor(i, Depth - j))
        BY <1>2, <1>4, <2>1
    <2> QED BY <2>1, <2>2
<1>5. \A j \in 0 .. Depth : j \in Good
    <2> HIDE DEF Good
    <2> QED BY <1>0, <1>3, <1>4, UpTo
<1>6. ASSUME NEW l \in 0 .. Depth PROVE up[l] = Node(map, l, Ancestor(i, l))
    <2>1. Depth - l \in 0 .. Depth /\ Depth - (Depth - l) = l
        BY <1>0
    <2>2. Depth - l \in Good
        BY <1>5, <2>1
    <2> QED BY <2>1, <2>2
<1>7. digest = Node(map, 0, i)
    BY <1>0, <1>9, <1>1, <1>6
<1>8. ASSUME NEW l \in 1 .. Depth PROVE siblings[l] = Siblings(map, i)[l]
    <2>1. l \in 0 .. Depth
        BY <1>0
    <2> QED BY <2>1, <1>2, <1>6
<1> QED BY <1>7, <1>8

\* What a write to leaf i leaves: the digests of its way up, the rest untouched.
Rewritten(new, map, i, up) ==
    \A l \in 0 .. Depth, k \in Nat :
        Node(new, l, k) = IF k = Ancestor(i, l) THEN up[l] ELSE Node(map, l, k)

\* Rewriting one way up keeps every node the hash of its children.
LEMMA RewrittenHashes ==
    ASSUME NEW map, Hashes(map), NEW i \in LeafIndex, NEW digest, NEW new,
           Rewritten(new, map, i, PathDigests(digest, i, Siblings(map, i)))
    PROVE  Hashes(new)
<1> DEFINE sib == Siblings(map, i)
           up  == PathDigests(digest, i, sib)
<1>1. Whole(sib) /\ \A l \in 1 .. Depth : sib[l] = Node(map, l - 1, Sibling(Ancestor(i, l - 1)))
    BY SiblingsShape
<1>2. AreUp(up, digest, i, sib)
    BY <1>1, PathClimbs
<1>3. Rewritten(new, map, i, up)
    OBVIOUS
<1> HIDE DEF sib, up
<1> SUFFICES ASSUME NEW l \in 1 .. Depth, NEW k \in Nat
             PROVE  Node(new, l, k) = NodeHash(Node(new, l - 1, 2 * k), Node(new, l - 1, 2 * k + 1))
    BY DEF Hashes
<1> DEFINE a == Ancestor(i, l - 1)
           p == Ancestor(i, l)
<1>4. l - 1 \in 0 .. Depth /\ l \in 0 .. Depth /\ 2 * k \in Nat /\ 2 * k + 1 \in Nat
    BY DepthAssumption
<1>5. a \in Nat /\ p \in Nat /\ p = a \div 2
    <2>1. p = a \div 2
        BY WayUp
    <2>2. a \in LeafIndex /\ p \in LeafIndex
        BY <1>4, WayUp
    <2> QED BY <2>1, <2>2, CapacityAssumption DEF LeafIndex
<1>6. /\ Node(new, l, k) = IF k = p THEN up[l] ELSE Node(map, l, k)
      /\ Node(new, l - 1, 2 * k) = IF 2 * k = a THEN up[l - 1] ELSE Node(map, l - 1, 2 * k)
      /\ Node(new, l - 1, 2 * k + 1)
           = IF 2 * k + 1 = a THEN up[l - 1] ELSE Node(map, l - 1, 2 * k + 1)
    BY <1>3, <1>4 DEF Rewritten
<1>7. /\ up[l] = Combined(i, l, up[l - 1], sib[l])
      /\ sib[l] = Node(map, l - 1, Sibling(a))
    BY <1>1, <1>2 DEF AreUp
<1>8. Combined(i, l, up[l - 1], sib[l])
        = IF a % 2 = 0 THEN NodeHash(up[l - 1], sib[l]) ELSE NodeHash(sib[l], up[l - 1])
    BY DEF Combined
<1>9. Node(map, l, k) = NodeHash(Node(map, l - 1, 2 * k), Node(map, l - 1, 2 * k + 1))
    BY DEF Hashes
<1> HIDE DEF a, p
<1>10. CASE k # p
    <2>1. 2 * k # a /\ 2 * k + 1 # a
        BY <1>5, <1>10, Pairs
    <2> QED BY <1>6, <1>9, <1>10, <2>1
<1>11. CASE k = p /\ a = 2 * p
    <2>1. a % 2 = 0 /\ Sibling(a) = 2 * k + 1 /\ 2 * k + 1 # a /\ 2 * k = a
        BY <1>5, <1>11, Pairs
    <2> QED BY <1>6, <1>7, <1>8, <1>11, <2>1
<1>12. CASE k = p /\ a = 2 * p + 1
    <2>1. a % 2 # 0 /\ Sibling(a) = 2 * k /\ 2 * k # a /\ 2 * k + 1 = a
        BY <1>5, <1>12, Pairs
    <2> QED BY <1>6, <1>7, <1>8, <1>12, <2>1
<1> QED BY <1>5, <1>10, <1>11, <1>12, Pairs

\* The positions above the first `count` leaves: where a sparse map has digests.
Covered(count) == {at \in (0 .. Depth) \X LeafIndex : at[2] * 2 ^ at[1] < count}

\* Membership, for a position given by its two parts.
LEMMA CoveredMembers ==
    ASSUME NEW count, NEW l \in 0 .. Depth, NEW k \in LeafIndex
    PROVE  <<l, k>> \in Covered(count) <=> k * 2 ^ l < count
    BY DEF Covered

\* A function and its domain.
Maps(f, S) == f = [at \in S |-> f[at]]

\* The node map over a leaf vector.
MerkleMap(map, vector) ==
    /\ Maps(map, Covered(Len(vector)))
    /\ \A k \in 1 .. Len(vector) : Node(map, 0, k - 1) = LeafHash(vector[k])
    /\ Hashes(map)

\* Beyond the leaves there are the empty digests only.
LEMMA BeyondTheLeaves ==
    ASSUME NEW map, NEW vector, MerkleMap(map, vector), Len(vector) \in Nat,
           NEW k \in Nat, k >= Len(vector)
    PROVE  Node(map, 0, k) = EmptyLeaf
<1>1. <<0, k>> \notin Covered(Len(vector))
    <2> SUFFICES ASSUME <<0, k>> \in Covered(Len(vector)) PROVE FALSE
        OBVIOUS
    <2>1. k * 2 ^ 0 < Len(vector)
        BY DEF Covered
    <2> QED BY <2>1, PowerAssumption
<1>2. DOMAIN map = Covered(Len(vector))
    BY DEF MerkleMap, Maps
<1> QED BY <1>1, <1>2, ZeroUnfolds DEF Node

\* The positions on a way up.
LEMMA PathMembers ==
    ASSUME NEW i \in LeafIndex, NEW l \in 0 .. Depth, NEW k
    PROVE  <<l, k>> \in Path(i) <=> k = Ancestor(i, l)
    BY DEF Path

\* write_leaf: the new leaf's digest and its way up replace the old ones.
LEMMA WriteLeafRewrites ==
    ASSUME NEW map, NEW i \in LeafIndex, NEW leaf
    PROVE  /\ Rewritten(WriteLeaf(map, i, leaf), map, i,
                        PathDigests(LeafHash(leaf), i, Siblings(map, i)))
           /\ Maps(WriteLeaf(map, i, leaf), DOMAIN map \cup Path(i))
           /\ Root(WriteLeaf(map, i, leaf)) = RootFromPath(LeafHash(leaf), i, Siblings(map, i))
<1> DEFINE up  == PathDigests(LeafHash(leaf), i, Siblings(map, i))
           new == WriteLeaf(map, i, leaf)
<1>1. new = [at \in DOMAIN map \cup Path(i) |-> IF at \in Path(i) THEN up[at[1]] ELSE map[at]]
    BY DEF WriteLeaf
<1>2. RootFromPath(LeafHash(leaf), i, Siblings(map, i)) = up[Depth]
    BY SiblingsShape, PathClimbs
<1> HIDE DEF up, new
<1>3. Rewritten(new, map, i, up)
    <2> SUFFICES ASSUME NEW l \in 0 .. Depth, NEW k \in Nat
                 PROVE  Node(new, l, k) = IF k = Ancestor(i, l) THEN up[l] ELSE Node(map, l, k)
        BY DEF Rewritten
    <2> DEFINE at == <<l, k>>
    <2>1. at[1] = l /\ (at \in Path(i) <=> k = Ancestor(i, l))
        BY PathMembers
    <2>2. /\ Node(new, l, k) = IF at \in DOMAIN new THEN new[at] ELSE Zero[l]
          /\ Node(map, l, k) = IF at \in DOMAIN map THEN map[at] ELSE Zero[l]
        BY DEF Node
    <2> HIDE DEF at
    <2> QED BY <1>1, <2>1, <2>2
<1>4. Root(new) = up[Depth]
    <2>1. Depth \in 0 .. Depth /\ 0 = Ancestor(i, Depth) /\ 0 \in Nat
        BY DepthAssumption, WayUp
    <2> QED BY <1>3, <2>1 DEF Root, Rewritten
<1>5. Maps(new, DOMAIN map \cup Path(i))
    BY <1>1 DEF Maps
<1> QED BY <1>2, <1>3, <1>4, <1>5 DEF up, new

\* `vector` is `old` with `leaf` written at index i, which is in use already or
\* the next free one.
WrittenAt(vector, old, i, leaf) ==
    /\ Len(old) \in Nat /\ Len(vector) \in Nat
    /\ i < Len(vector) /\ vector[i + 1] = leaf
    /\ Len(vector) = Len(old) \/ (i = Len(old) /\ Len(vector) = Len(old) + 1)
    /\ \A k \in 1 .. Len(old) : k # i + 1 => vector[k] = old[k]

\* The tree after leaf i was written.
LEMMA WriteLeafMerkle ==
    ASSUME NEW map, NEW old, NEW vector, MerkleMap(map, old),
           NEW i \in LeafIndex, NEW leaf, WrittenAt(vector, old, i, leaf)
    PROVE  MerkleMap(WriteLeaf(map, i, leaf), vector)
<1>11. /\ Len(old) \in Nat /\ Len(vector) \in Nat
       /\ i < Len(vector) /\ vector[i + 1] = leaf
       /\ Len(vector) = Len(old) \/ (i = Len(old) /\ Len(vector) = Len(old) + 1)
       /\ \A k \in 1 .. Len(old) : k # i + 1 => vector[k] = old[k]
    BY DEF WrittenAt
<1> DEFINE new == WriteLeaf(map, i, leaf)
           up  == PathDigests(LeafHash(leaf), i, Siblings(map, i))
<1>1. Rewritten(new, map, i, up) /\ Maps(new, DOMAIN map \cup Path(i))
    BY WriteLeafRewrites
<1>2. Hashes(new)
    BY <1>1, RewrittenHashes DEF MerkleMap
<1>4. up[0] = LeafHash(leaf)
    <2>1. AreUp(up, LeafHash(leaf), i, Siblings(map, i))
        BY SiblingsShape, PathClimbs
    <2> HIDE DEF up
    <2> QED BY <2>1 DEF AreUp
<1> HIDE DEF new, up
<1>5. i \in Nat /\ Ancestor(i, 0) = i
    BY WayUp
<1>6. ASSUME NEW k \in 1 .. Len(vector)
      PROVE  Node(new, 0, k - 1) = LeafHash(vector[k])
    <2>1. Node(new, 0, k - 1) = IF k - 1 = i THEN up[0] ELSE Node(map, 0, k - 1)
        BY <1>1, <1>5, DepthAssumption DEF Rewritten
    <2>2. CASE k - 1 = i
        <3>1. k = i + 1
            BY <1>5, <2>2
        <3>2. vector[k] = leaf
            BY <1>11, <3>1
        <3>3. Node(new, 0, k - 1) = up[0]
            BY <2>1, <2>2
        <3> QED BY <1>4, <3>2, <3>3
    <2>3. CASE k - 1 # i
        <3>1. k \in 1 .. Len(old) /\ k # i + 1
            BY <1>11, <1>5, <2>3
        <3>2. vector[k] = old[k] /\ Node(map, 0, k - 1) = LeafHash(old[k])
            BY <1>11, <3>1 DEF MerkleMap
        <3> QED BY <2>1, <2>3, <3>2
    <2> QED BY <2>2, <2>3
<1>7. Covered(Len(old)) \cup Path(i) = Covered(Len(vector))
    <2>1. ASSUME NEW l \in 0 .. Depth
          PROVE  /\ Ancestor(i, l) \in LeafIndex
                 /\ Ancestor(i, l) * 2 ^ l < Len(vector)
        <3> DEFINE p == 2 ^ l
                   a == Ancestor(i, l)
        <3>1. a \in LeafIndex /\ a * p <= i
            BY WayUp
        <3>2. a \in Nat /\ p \in Nat
            BY <3>1, Powers, CapacityAssumption DEF LeafIndex
        <3> HIDE DEF p, a
        <3>3. a * p \in Nat
            BY <3>2
        <3> QED BY <1>11, <1>5, <3>1, <3>3 DEF p, a
    <2>2. ASSUME NEW l \in 0 .. Depth, NEW k \in LeafIndex,
                 k * 2 ^ l < Len(vector), ~(k * 2 ^ l < Len(old))
          PROVE  k = Ancestor(i, l)
        <3>1. k * 2 ^ l = i
            <4> DEFINE p == 2 ^ l
            <4>1. k \in Nat /\ p \in Nat
                BY Powers, CapacityAssumption DEF LeafIndex
            <4> HIDE DEF p
            <4>2. k * p \in Nat
                BY <4>1
            <4> QED BY <1>11, <1>5, <2>2, <4>2 DEF p
        <3> QED BY <3>1, AncestorAt
    <2>3. ASSUME NEW at \in Path(i) PROVE at \in Covered(Len(vector))
        <3>1. PICK l \in 0 .. Depth : at = <<l, Ancestor(i, l)>>
            BY DEF Path
        <3> QED BY <2>1, <3>1, CoveredMembers
    <2>4. ASSUME NEW at \in Covered(Len(old)) PROVE at \in Covered(Len(vector))
        <3>1. at[2] * 2 ^ at[1] \in Nat
            BY Powers, CapacityAssumption DEF Covered, LeafIndex
        <3> QED BY <1>11, <3>1 DEF Covered
    <2>5. ASSUME NEW at \in Covered(Len(vector)), at \notin Covered(Len(old)) PROVE at \in Path(i)
        <3>1. PICK l \in 0 .. Depth, k \in LeafIndex : at = <<l, k>>
            BY DEF Covered
        <3>2. k = Ancestor(i, l)
            BY <2>2, <2>5, <3>1, CoveredMembers
        <3> QED BY <3>1, <3>2, PathMembers
    <2> QED BY <2>3, <2>4, <2>5
<1>8. DOMAIN map = Covered(Len(old))
    BY DEF MerkleMap, Maps
<1>10. Maps(new, Covered(Len(vector)))
    BY <1>1, <1>7, <1>8
<1> QED BY <1>2, <1>6, <1>10 DEF MerkleMap, new

\* An empty subtree is one without leaves: no other has the empty digest.
LEMMA EmptySubtrees ==
    ASSUME NEW map, Hashes(map), NEW count \in Nat,
           \A k \in Nat : Node(map, 0, k) = EmptyLeaf <=> k >= count
    PROVE  \A l \in 0 .. Depth, k \in Nat : Node(map, l, k) = Zero[l] <=> k * 2 ^ l >= count
<1> DEFINE Good == {l \in 0 .. Depth : \A k \in Nat : Node(map, l, k) = Zero[l] <=> k * 2 ^ l >= count}
<1>0. Depth \in Nat /\ 0 \in 0 .. Depth
    BY DepthAssumption
<1>1. 0 \in Good
    BY <1>0, PowerAssumption, ZeroUnfolds
<1>2. ASSUME NEW l \in 1 .. Depth, l - 1 \in Good PROVE l \in Good
    <2> SUFFICES ASSUME NEW k \in Nat PROVE Node(map, l, k) = Zero[l] <=> k * 2 ^ l >= count
        BY <1>0
    <2> DEFINE left == Node(map, l - 1, 2 * k)
               right == Node(map, l - 1, 2 * k + 1)
               p == 2 ^ (l - 1)
    <2>1. Node(map, l, k) = NodeHash(left, right) /\ Zero[l] = NodeHash(Zero[l - 1], Zero[l - 1])
        BY ZeroUnfolds DEF Hashes
    <2>2. Node(map, l, k) = Zero[l] <=> left = Zero[l - 1] /\ right = Zero[l - 1]
        <3> HIDE DEF left, right
        <3> QED BY <2>1, DigestsAreInjective
    <2>3. /\ left = Zero[l - 1] <=> (2 * k) * p >= count
          /\ right = Zero[l - 1] <=> (2 * k + 1) * p >= count
        <3>1. 2 * k \in Nat /\ 2 * k + 1 \in Nat
            OBVIOUS
        <3> QED BY <1>2, <3>1
    <2>4. p \in Nat \ {0} /\ 2 ^ l = 2 * p
        <3>1. l - 1 \in 0 .. Depth
            BY <1>0
        <3> QED BY <3>1, Powers
    <2> HIDE DEF p, left, right
    <2>5. (2 * k) * p = k * (2 * p) /\ (2 * k + 1) * p = (2 * k) * p + p
        BY <2>4
    <2>6. (2 * k) * p \in Nat
        BY <2>4
    <2>7. (2 * k) * p >= count => (2 * k + 1) * p >= count
        BY <2>4, <2>5, <2>6
    <2> QED BY <2>2, <2>3, <2>4, <2>5, <2>7
<1>3. \A l \in 0 .. Depth : l \in Good
    <2> HIDE DEF Good
    <2> QED BY <1>0, <1>1, <1>2, UpTo
<1> QED BY <1>3

\* clear_leaf: the way up of leaf i, recomputed without it, replaces the old
\* one; what is empty is left out.
LEMMA ClearLeafRewrites ==
    ASSUME NEW map, NEW i \in LeafIndex
    PROVE  /\ Rewritten(ClearLeaf(map, i), map, i, PathDigests(EmptyLeaf, i, Siblings(map, i)))
           /\ \E S : Maps(ClearLeaf(map, i), S)
           /\ \A l \in 0 .. Depth, k \in LeafIndex :
                  <<l, k>> \in DOMAIN ClearLeaf(map, i)
                      <=> IF k = Ancestor(i, l)
                          THEN l > 0 /\ Node(ClearLeaf(map, i), l, k) # Zero[l]
                          ELSE <<l, k>> \in DOMAIN map
           /\ DOMAIN ClearLeaf(map, i) \subseteq DOMAIN map \cup Path(i)
<1> DEFINE up     == PathDigests(EmptyLeaf, i, Siblings(map, i))
           new    == ClearLeaf(map, i)
           stored == {at \in Path(i) : at[1] > 0 /\ up[at[1]] # Zero[at[1]]}
           kept   == (DOMAIN map \ Path(i)) \cup stored
<1>1. new = [at \in kept |-> IF at \in stored THEN up[at[1]] ELSE map[at]]
    BY DEF ClearLeaf
<1>2. up[0] = Zero[0]
    <2>1. AreUp(up, EmptyLeaf, i, Siblings(map, i))
        BY SiblingsShape, PathClimbs
    <2> HIDE DEF up
    <2> QED BY <2>1, ZeroUnfolds DEF AreUp
<1> HIDE DEF up, new
<1>3. ASSUME NEW l \in 0 .. Depth, NEW k \in Nat
      PROVE  /\ Node(new, l, k) = IF k = Ancestor(i, l) THEN up[l] ELSE Node(map, l, k)
             /\ <<l, k>> \in DOMAIN new <=> IF k = Ancestor(i, l) THEN l > 0 /\ up[l] # Zero[l]
                                            ELSE <<l, k>> \in DOMAIN map
    <2> DEFINE at == <<l, k>>
    <2>1. at[1] = l /\ (at \in Path(i) <=> k = Ancestor(i, l))
        BY PathMembers
    <2>2. /\ Node(new, l, k) = IF at \in DOMAIN new THEN new[at] ELSE Zero[l]
          /\ Node(map, l, k) = IF at \in DOMAIN map THEN map[at] ELSE Zero[l]
        BY DEF Node
    <2>3. l = 0 \/ l > 0
        OBVIOUS
    <2> HIDE DEF at
    <2>4. DOMAIN new = kept
        BY <1>1
    <2>5. CASE k = Ancestor(i, l)
        <3>1. at \in DOMAIN new <=> l > 0 /\ up[l] # Zero[l]
            BY <2>1, <2>4, <2>5
        <3>2. at \in DOMAIN new => new[at] = up[l]
            BY <1>1, <2>1, <2>4, <2>5
        <3> QED BY <1>2, <2>2, <2>3, <2>5, <3>1, <3>2 DEF at
    <2>6. CASE k # Ancestor(i, l)
        <3>1. at \in DOMAIN new <=> at \in DOMAIN map
            BY <2>1, <2>4, <2>6
        <3>2. at \in DOMAIN new => new[at] = map[at]
            BY <1>1, <2>1, <2>4, <2>6
        <3> QED BY <2>2, <2>6, <3>1, <3>2 DEF at
    <2> QED BY <2>5, <2>6
<1>4. Maps(new, kept) /\ DOMAIN new \subseteq DOMAIN map \cup Path(i)
    BY <1>1 DEF Maps
<1>5. Rewritten(new, map, i, up)
    BY <1>3 DEF Rewritten
<1>6. ASSUME NEW l \in 0 .. Depth, NEW k \in LeafIndex
      PROVE  <<l, k>> \in DOMAIN new <=> IF k = Ancestor(i, l) THEN l > 0 /\ Node(new, l, k) # Zero[l]
                                         ELSE <<l, k>> \in DOMAIN map
    <2>1. k \in Nat
        BY CapacityAssumption DEF LeafIndex
    <2> QED BY <1>3, <2>1
<1> HIDE DEF kept
<1> QED BY <1>4, <1>5, <1>6 DEF up, new

\* The tree after its newest leaf was removed.
LEMMA ClearLeafMerkle ==
    ASSUME NEW map, NEW old, NEW vector, MerkleMap(map, old),
           Len(old) \in Nat, Len(old) >= 1, Len(old) <= Capacity, Len(vector) = Len(old) - 1,
           \A k \in 1 .. Len(old) : old[k] \in Leaf,
           \A k \in 1 .. Len(vector) : vector[k] = old[k]
    PROVE  MerkleMap(ClearLeaf(map, Len(old) - 1), vector)
<1> DEFINE i   == Len(old) - 1
           new == ClearLeaf(map, i)
           up  == PathDigests(EmptyLeaf, i, Siblings(map, i))
<1>0. i \in LeafIndex /\ i \in Nat /\ Len(vector) = i /\ Len(old) = i + 1
    BY CapacityAssumption DEF LeafIndex
<1> HIDE DEF i
<1>1. /\ Rewritten(new, map, i, up)
      /\ \E S : Maps(new, S)
      /\ DOMAIN new \subseteq DOMAIN map \cup Path(i)
    BY <1>0, ClearLeafRewrites
<1>2. ASSUME NEW l \in 0 .. Depth, NEW k \in LeafIndex
      PROVE  <<l, k>> \in DOMAIN new <=> IF k = Ancestor(i, l) THEN l > 0 /\ Node(new, l, k) # Zero[l]
                                         ELSE <<l, k>> \in DOMAIN map
    BY <1>0, ClearLeafRewrites
<1>3. up[0] = EmptyLeaf
    <2>1. AreUp(up, EmptyLeaf, i, Siblings(map, i))
        BY SiblingsShape, PathClimbs
    <2> HIDE DEF up
    <2> QED BY <2>1 DEF AreUp
<1>4. Hashes(new)
    BY <1>0, <1>1, RewrittenHashes DEF MerkleMap
<1> HIDE DEF new, up
<1>5. Ancestor(i, 0) = i
    BY <1>0, WayUp
<1>6. ASSUME NEW k \in Nat
      PROVE  Node(new, 0, k) = IF k = i THEN EmptyLeaf ELSE Node(map, 0, k)
    <2>1. 0 \in 0 .. Depth
        BY DepthAssumption
    <2> QED BY <1>1, <1>3, <1>5, <2>1 DEF Rewritten
<1>7. ASSUME NEW k \in 1 .. Len(vector) PROVE Node(new, 0, k - 1) = LeafHash(vector[k])
    <2>1. k \in 1 .. Len(old) /\ k - 1 \in Nat /\ k - 1 # i
        BY <1>0
    <2>2. Node(map, 0, k - 1) = LeafHash(old[k])
        BY <2>1 DEF MerkleMap
    <2> QED BY <1>6, <2>1, <2>2
<1>8. ASSUME NEW k \in Nat PROVE Node(new, 0, k) = EmptyLeaf <=> k >= i
    <2>1. CASE k < i
        <3>1. k + 1 \in 1 .. Len(vector) /\ (k + 1) - 1 = k /\ k + 1 \in 1 .. Len(old)
            BY <1>0, <2>1
        <3>2. Node(new, 0, k) = LeafHash(vector[k + 1]) /\ vector[k + 1] \in Leaf
            BY <1>7, <3>1
        <3> QED BY <1>0, <2>1, <3>2, DigestsAreInjective
    <2>2. CASE k = i
        BY <1>0, <1>6, <2>2
    <2>3. CASE k > i
        <3>1. k >= Len(old) /\ k # i
            BY <1>0, <2>3
        <3>2. Node(map, 0, k) = EmptyLeaf
            BY <3>1, BeyondTheLeaves
        <3> QED BY <1>0, <1>6, <2>3, <3>1, <3>2
    <2> QED BY <1>0, <2>1, <2>2, <2>3
<1>9. \A l \in 0 .. Depth, k \in Nat : Node(new, l, k) = Zero[l] <=> k * 2 ^ l >= i
    BY <1>0, <1>4, <1>8, EmptySubtrees
<1>10. DOMAIN map = Covered(i + 1)
    BY <1>0 DEF MerkleMap, Maps
<1>11. ASSUME NEW l \in 0 .. Depth, NEW k \in LeafIndex
       PROVE  <<l, k>> \in DOMAIN new <=> <<l, k>> \in Covered(i)
    <2> DEFINE p == 2 ^ l
    <2>1. k \in Nat /\ p \in Nat \ {0} /\ k * p \in Nat
        <3>1. k \in Nat /\ p \in Nat \ {0}
            BY CapacityAssumption, Powers DEF LeafIndex
        <3> HIDE DEF p
        <3> QED BY <3>1
    <2>2. /\ <<l, k>> \in Covered(i) <=> k * p < i
          /\ <<l, k>> \in Covered(i + 1) <=> k * p < i + 1
        BY CoveredMembers
    <2>3. Node(new, l, k) = Zero[l] <=> k * p >= i
        BY <1>9, <2>1
    <2> HIDE DEF p
    <2>4. CASE k = Ancestor(i, l) /\ l = 0
        <3>1. k = i /\ p = 1
            BY <1>5, <2>4, PowerAssumption DEF p
        <3> QED BY <1>0, <1>2, <2>1, <2>2, <2>4, <3>1
    <2>5. CASE k = Ancestor(i, l) /\ l > 0
        BY <1>0, <1>2, <2>1, <2>2, <2>3, <2>5
    <2>6. CASE k # Ancestor(i, l)
        <3>1. k * p # i
            BY <1>0, <2>6, AncestorAt DEF p
        <3> QED BY <1>0, <1>2, <1>10, <2>1, <2>2, <2>6, <3>1
    <2> QED BY <2>4, <2>5, <2>6
<1>12. DOMAIN new = Covered(i)
    <2>1. ASSUME NEW at \in DOMAIN new PROVE at \in Covered(i)
        <3>1. at \in (0 .. Depth) \X LeafIndex
            <4>1. CASE at \in DOMAIN map
                BY <1>10, <4>1 DEF Covered
            <4>2. CASE at \in Path(i)
                <5>1. PICK l \in 0 .. Depth : at = <<l, Ancestor(i, l)>>
                    BY <4>2 DEF Path
                <5>2. Ancestor(i, l) \in LeafIndex
                    BY <1>0, WayUp
                <5> QED BY <5>1, <5>2
            <4> QED BY <1>1, <4>1, <4>2
        <3>2. PICK l \in 0 .. Depth, k \in LeafIndex : at = <<l, k>>
            BY <3>1
        <3> QED BY <1>11, <3>2
    <2>2. ASSUME NEW at \in Covered(i) PROVE at \in DOMAIN new
        <3>1. PICK l \in 0 .. Depth, k \in LeafIndex : at = <<l, k>>
            BY DEF Covered
        <3> QED BY <1>11, <3>1
    <2> QED BY <2>1, <2>2
<1>13. Maps(new, Covered(Len(vector)))
    BY <1>0, <1>1, <1>12 DEF Maps
<1> QED BY <1>4, <1>7, <1>13 DEF MerkleMap, new, i

----------------------------------------------------------------------------
(* The tree and its root.                                                  *)

\* The inductive invariant of the hash tree: the node map is the Merkle tree
\* over the leaves.
DigestInv ==
    /\ ImtInv
    /\ Maps(index_by_value, DOMAIN index_by_value)
    /\ MerkleMap(nodes, leaves)

\* The tree of the sentinel alone.
LEMMA InitDigest == Init => DigestInv
<1> SUFFICES ASSUME Init PROVE DigestInv
    OBVIOUS
<1>1. ImtInv
    BY InitInv
<1>2. leaves = <<SENTINEL>> /\ Len(leaves) = 1 /\ leaves[1] = SENTINEL
    BY DEF Init
<1>3. nodes = WriteLeaf(<<>>, 0, SENTINEL) /\ index_by_value = [u \in {ZERO} |-> 0]
    BY DEF Init
<1>4. DOMAIN <<>> = {} /\ Len(<<>>) = 0
    OBVIOUS
<1>5. Maps(<<>>, {})
    BY DEF Maps
<1>6. Covered(0) = {}
    <2> SUFFICES ASSUME NEW l \in 0 .. Depth, NEW k \in LeafIndex, k * 2 ^ l < 0 PROVE FALSE
        BY DEF Covered
    <2> DEFINE p == 2 ^ l
    <2>1. k \in Nat /\ p \in Nat
        BY Powers, CapacityAssumption DEF LeafIndex
    <2> HIDE DEF p
    <2>2. k * p \in Nat
        BY <2>1
    <2> QED BY <2>2 DEF p
<1>7. Hashes(<<>>)
    <2> SUFFICES ASSUME NEW l \in 1 .. Depth, NEW k \in Nat
                 PROVE  Node(<<>>, l, k) = NodeHash(Node(<<>>, l - 1, 2 * k), Node(<<>>, l - 1, 2 * k + 1))
        BY DEF Hashes
    <2>1. \A m, j : Node(<<>>, m, j) = Zero[m]
        BY <1>4 DEF Node
    <2>2. Zero[l] = NodeHash(Zero[l - 1], Zero[l - 1])
        BY ZeroUnfolds
    <2> QED BY <2>1, <2>2
<1>8. MerkleMap(<<>>, <<>>)
    BY <1>4, <1>5, <1>6, <1>7 DEF MerkleMap
<1>9. MerkleMap(nodes, leaves)
    <2>1. 0 \in LeafIndex /\ 0 < 1 /\ 1 = 0 + 1
        BY CapacityAssumption DEF LeafIndex
    <2>2. WrittenAt(leaves, <<>>, 0, SENTINEL)
        BY <1>2, <1>4, <2>1 DEF WrittenAt
    <2> QED BY <1>3, <1>8, <2>1, <2>2, WriteLeafMerkle
<1>10. Maps(index_by_value, DOMAIN index_by_value)
    BY <1>3 DEF Maps
<1> QED BY <1>1, <1>9, <1>10 DEF DigestInv

\* The leaves once an insertion has rewritten the low leaf, and once it is done.
LowRewritten(v) == [leaves EXCEPT ![LowLeafIndex(v) + 1] = SplicedLow(@, v, LeafCount)]
Inserted(v) == Append(LowRewritten(v), Appended(LowLeaf(v), v))

\* The two writes of an insertion give the trees over those leaves.
LEMMA InsertedTree ==
    ASSUME DigestInv, NEW v \in Value, ~Contains(v)
    PROVE  /\ LowLeafIndex(v) \in LeafIndex
           /\ MerkleMap(NodesWithLowSpliced(v), LowRewritten(v))
           /\ Len(LowRewritten(v)) = LeafCount
           /\ LeafCount < Capacity => MerkleMap(NodesAfterInsert(v), Inserted(v))
<1> DEFINE n       == LeafCount
           low     == LowLeafIndex(v)
           spliced == SplicedLow(LowLeaf(v), v, n)
           mid     == LowRewritten(v)
           last    == Appended(LowLeaf(v), v)
<1>1. leaves \in Seq(Leaf) /\ n = Len(leaves) /\ n \in Nat /\ n >= 1 /\ n <= Capacity
    BY LeafTypes DEF DigestInv, ImtInv, TypeOK, LeafCount
<1>2. low \in 0 .. n - 1 /\ LowLeaf(v) = leaves[low + 1]
    BY LowLeafCovers DEF DigestInv
<1>3. low \in LeafIndex /\ low \in Nat /\ low < n /\ low + 1 \in 1 .. n
    BY <1>1, <1>2, CapacityAssumption DEF LeafIndex
<1>4. mid = [leaves EXCEPT ![low + 1] = spliced]
    BY <1>2 DEF LowRewritten
<1> HIDE DEF n, spliced, mid, low
<1>5. /\ Len(mid) = n /\ mid[low + 1] = spliced
      /\ \A k \in 1 .. n : k # low + 1 => mid[k] = leaves[k]
    BY <1>1, <1>3, <1>4
<1>6. MerkleMap(WriteLeaf(nodes, low, spliced), mid)
    <2>1. WrittenAt(mid, leaves, low, spliced)
        <3>1. Len(leaves) \in Nat /\ Len(mid) \in Nat /\ low < Len(mid) /\ Len(mid) = Len(leaves)
            BY <1>1, <1>3, <1>5
        <3>2. mid[low + 1] = spliced /\ \A k \in 1 .. Len(leaves) : k # low + 1 => mid[k] = leaves[k]
            BY <1>1, <1>5
        <3> HIDE DEF low
        <3> QED BY <3>1, <3>2 DEF WrittenAt
    <2> QED BY <1>3, <2>1, WriteLeafMerkle DEF DigestInv
<1>7. mid \in Seq(Range(mid))
    <2>1. mid = [k \in 1 .. n |-> mid[k]] /\ n \in Nat
        <3>1. DOMAIN leaves = 1 .. n
            BY <1>1
        <3> QED BY <1>1, <1>4, <3>1
    <2>2. \A k \in 1 .. n : mid[k] \in Range(mid)
        BY <2>1 DEF Range
    <2> QED BY <2>1, <2>2
<1>8. ASSUME n < Capacity
      PROVE  MerkleMap(WriteLeaf(WriteLeaf(nodes, low, spliced), n, last), Append(mid, last))
    <2>1. n \in LeafIndex
        BY <1>1, <1>8, CapacityAssumption DEF LeafIndex
    <2> HIDE DEF last
    <2>2. /\ Len(Append(mid, last)) = n + 1 /\ Append(mid, last)[n + 1] = last
          /\ \A k \in 1 .. n : Append(mid, last)[k] = mid[k]
        BY <1>1, <1>5, <1>7, AppendProperties
    <2>3. WrittenAt(Append(mid, last), mid, n, last)
        BY <1>1, <1>5, <2>2 DEF WrittenAt
    <2> QED BY <1>6, <2>1, <2>3, WriteLeafMerkle
<1> QED BY <1>3, <1>5, <1>6, <1>8 DEF NodesWithLowSpliced, NodesAfterInsert, Inserted, n, low, spliced, mid

\* An insertion keeps the tree the tree over its leaves.
LEMMA InsertDigest ==
    ASSUME DigestInv, NEW v \in Value, Insert(v)
    PROVE  DigestInv'
<1>1. ImtInv'
    BY InsertPreservesInv DEF DigestInv
<1>2. ~Contains(v) /\ LeafCount < Capacity
    BY DEF Insert, HasRoom
<1>3. leaves' = Inserted(v) /\ nodes' = NodesAfterInsert(v)
    BY DEF Insert, Inserted, LowRewritten
<1>4. MerkleMap(nodes, leaves)'
    <2>1. MerkleMap(NodesAfterInsert(v), Inserted(v))
        BY <1>2, InsertedTree
    <2> QED BY <1>3, <2>1
<1>5. Maps(index_by_value, DOMAIN index_by_value)'
    BY DEF Insert, Maps
<1> QED BY <1>1, <1>4, <1>5 DEF DigestInv

\* An undo gives the tree over the leaves that are left.
LEMMA UndoDigest ==
    ASSUME DigestInv, NEW v \in Value, NEW proof \in UndoProof, UndoInsert(v, proof)
    PROVE  DigestInv'
<1> DEFINE n    == LeafCount - 1
           k    == proof.low_leaf_index + 1
           rest == SubSeq(leaves, 1, n)
           mid  == ClearLeaf(nodes, n)
<1>1. ImtInv'
    BY UndoPreservesInv DEF DigestInv
<1>2. leaves \in Seq(Leaf) /\ Len(leaves) = n + 1 /\ n \in Nat /\ n + 1 <= Capacity
    BY LeafTypes DEF DigestInv, ImtInv, TypeOK, LeafCount
<1>3. k \in 1 .. n /\ k - 1 = proof.low_leaf_index
    <2>1. k \in 1 .. n
        BY UndoRestoresLow DEF UndoInsert, DigestInv
    <2> QED BY <2>1, CapacityAssumption DEF UndoProof, LeafIndex
<1>4. /\ rest \in Seq(Leaf) /\ Len(rest) = n /\ \A i \in 1 .. n : rest[i] = leaves[i]
    <2> HIDE DEF n
    <2> QED BY <1>2
<1>5. /\ Len(leaves') = n /\ leaves'[k] = proof.low_leaf
      /\ \A i \in 1 .. n : i # k => leaves'[i] = leaves[i]
    BY UndoEffect DEF DigestInv
<1>6. nodes' = WriteLeaf(mid, k - 1, proof.low_leaf)
    BY <1>3 DEF UndoInsert
<1> HIDE DEF n, k, rest
<1>7. MerkleMap(mid, rest)
    <2>1. n = Len(leaves) - 1 /\ Len(leaves) >= 1 /\ Len(leaves) <= Capacity /\ Len(leaves) \in Nat
        BY <1>2
    <2>2. \A i \in 1 .. Len(leaves) : leaves[i] \in Leaf
        BY <1>2
    <2>3. MerkleMap(nodes, leaves)
        BY DEF DigestInv
    <2> QED BY <1>4, <2>1, <2>2, <2>3, ClearLeafMerkle
<1> HIDE DEF mid
<1>8. MerkleMap(nodes', leaves')
    <2>1. k - 1 \in LeafIndex /\ k - 1 < n /\ (k - 1) + 1 = k
        BY <1>2, <1>3, CapacityAssumption DEF LeafIndex
    <2>2. \A i \in 1 .. n : i # k => leaves'[i] = rest[i]
        BY <1>4, <1>5
    <2>3. WrittenAt(leaves', rest, k - 1, proof.low_leaf)
        <3>1. Len(rest) \in Nat /\ Len(leaves') \in Nat /\ k - 1 < Len(leaves') /\ Len(leaves') = Len(rest)
            BY <1>2, <1>4, <1>5, <2>1
        <3>2. leaves'[(k - 1) + 1] = proof.low_leaf
            BY <1>5, <2>1
        <3>3. \A i \in 1 .. Len(rest) : i # (k - 1) + 1 => leaves'[i] = rest[i]
            BY <1>4, <2>1, <2>2
        <3> QED BY <3>1, <3>2, <3>3 DEF WrittenAt
    <2> QED BY <1>6, <1>7, <2>1, <2>3, WriteLeafMerkle
<1>9. Maps(index_by_value, DOMAIN index_by_value)'
    BY DEF UndoInsert, Maps
<1> QED BY <1>1, <1>8, <1>9 DEF DigestInv

\* Every step keeps it.
LEMMA NextDigest == DigestInv /\ [Next]_tree => DigestInv'
<1> SUFFICES ASSUME DigestInv, [Next]_tree PROVE DigestInv'
    OBVIOUS
<1>1. CASE UNCHANGED tree
    <2>1. ImtInv'
        BY <1>1, NextPreservesInv DEF DigestInv
    <2>2. UNCHANGED <<leaves, index_by_value, nodes>>
        BY <1>1 DEF tree
    <2> QED BY <2>1, <2>2 DEF DigestInv
<1> QED BY <1>1, InsertDigest, UndoDigest DEF Next

\* So it always holds.
LEMMA DigestAlways == Spec => []DigestInv
    BY InitDigest, NextDigest, PTL DEF Spec

\* A leaf of the tree and its digest.
LEMMA LeafDigest ==
    ASSUME DigestInv, NEW at \in LeafIndex
    PROVE  Node(nodes, 0, at) = IF at < LeafCount THEN LeafHash(LeafAt(at)) ELSE EmptyLeaf
<1>1. LeafCount = Len(leaves) /\ Len(leaves) \in Nat /\ at \in Nat /\ MerkleMap(nodes, leaves)
    BY LeafTypes, CapacityAssumption DEF DigestInv, ImtInv, LeafIndex
<1>2. CASE at < LeafCount
    <2>1. at + 1 \in 1 .. Len(leaves) /\ (at + 1) - 1 = at
        BY <1>1, <1>2
    <2>2. Node(nodes, 0, (at + 1) - 1) = LeafHash(leaves[at + 1])
        BY <1>1, <2>1 DEF MerkleMap
    <2> QED BY <1>2, <2>1, <2>2 DEF LeafAt
<1>3. CASE ~(at < LeafCount)
    BY <1>1, <1>3, BeyondTheLeaves
<1> QED BY <1>2, <1>3

\* What is stored, by leaf and by the value index.
LEMMA Stored ==
    ASSUME ImtInv, NEW v
    PROVE  /\ v \in Range(StoredValues) <=> \E j \in 1 .. LeafCount : leaves[j].value = v
           /\ v \in Range(StoredValues) <=> Contains(v)
<1>1. Range(StoredValues) = {leaves[j].value : j \in 1 .. LeafCount}
    BY DEF Range, StoredValues
<1>2. DOMAIN index_by_value = {leaves[j].value : j \in 1 .. LeafCount}
    BY DEF ImtInv, SortedListWithoutGaps, IndexAgrees
<1> QED BY <1>1, <1>2 DEF Contains

\* A leaf that hashes to the root is a leaf of the tree at that place.
LEMMA PathsEndAtLeaves ==
    ASSUME DigestInv, NEW low \in Leaf, NEW at \in LeafIndex, NEW siblings,
           Whole(siblings), RootFromPath(LeafHash(low), at, siblings) = Root(nodes)
    PROVE  /\ at < LeafCount /\ at + 1 \in 1 .. LeafCount /\ low = leaves[at + 1]
           /\ \A l \in 1 .. Depth : siblings[l] = Siblings(nodes, at)[l]
<1>1. Hashes(nodes)
    BY DEF DigestInv, MerkleMap
<1>2. /\ LeafHash(low) = Node(nodes, 0, at)
      /\ \A l \in 1 .. Depth : siblings[l] = Siblings(nodes, at)[l]
    BY <1>1, OnlyHonestPaths
<1>3. at \in Nat /\ LeafCount \in Nat
    BY LeafTypes, CapacityAssumption DEF DigestInv, ImtInv, LeafIndex
<1>4. at < LeafCount
    <2> SUFFICES ASSUME ~(at < LeafCount) PROVE FALSE
        OBVIOUS
    <2>1. Node(nodes, 0, at) = EmptyLeaf
        BY LeafDigest
    <2> QED BY <1>2, <2>1, DigestsAreInjective
<1>5. at + 1 \in 1 .. LeafCount
    BY <1>3, <1>4
<1>6. LeafHash(low) = LeafHash(leaves[at + 1]) /\ leaves[at + 1] \in Leaf
    BY <1>2, <1>4, <1>5, LeafDigest, LeafTypes DEF LeafAt, DigestInv, ImtInv
<1> QED BY <1>2, <1>4, <1>5, <1>6, DigestsAreInjective

\* No forged absence: whatever leaf, position and siblings are put forward.
NoForgedAbsence ==
    \A v \in Value, low \in Leaf, at \in LeafIndex : \A siblings :
        VerifyNonMembership(Root(nodes), v,
            [low_leaf |-> low, low_leaf_index |-> at, siblings |-> siblings])
        => v \notin Range(StoredValues)

\* A path that hashes to the root ends at a leaf of the tree, and a leaf that
\* brackets a value witnesses its absence.
LEMMA AbsenceIsSound == DigestInv => NoForgedAbsence
<1> SUFFICES ASSUME DigestInv, NEW v \in Value, NEW low \in Leaf, NEW at \in LeafIndex, NEW siblings,
                    VerifyNonMembership(Root(nodes), v,
                        [low_leaf |-> low, low_leaf_index |-> at, siblings |-> siblings])
             PROVE  v \notin Range(StoredValues)
    BY DEF NoForgedAbsence
<1>1. /\ Whole(siblings) /\ Covers(low, v)
      /\ RootFromPath(LeafHash(low), at, siblings) = Root(nodes)
    BY DEF VerifyNonMembership, CheckPath, Whole
<1>2. at + 1 \in 1 .. LeafCount /\ low = leaves[at + 1]
    BY <1>1, PathsEndAtLeaves
<1>3. \A j \in 1 .. LeafCount : leaves[j].value # v
    BY <1>1, <1>2, CoveringLeafWitnessesAbsence DEF DigestInv
<1> QED BY <1>3, Stored DEF DigestInv

\* What is absent can be proved absent.
LEMMA AbsenceIsProvable ==
    ASSUME DigestInv, NEW v \in Value, v \notin Range(StoredValues)
    PROVE  /\ Covers(LowLeaf(v), v)
           /\ VerifyNonMembership(Root(nodes), v, ProveNonMembership(v))
<1> DEFINE at == LowLeafIndex(v)
<1>1. ~Contains(v)
    BY Stored DEF DigestInv
<1>2. /\ at \in 0 .. LeafCount - 1 /\ LowLeaf(v) = LeafAt(at) /\ Covers(LowLeaf(v), v)
    BY <1>1, LowLeafCovers DEF DigestInv, LeafAt
<1>3. at \in LeafIndex /\ at < LeafCount /\ at < Capacity
    BY <1>2, LeafTypes, CapacityAssumption DEF DigestInv, ImtInv, LeafIndex
<1> HIDE DEF at
<1>4. Node(nodes, 0, at) = LeafHash(LowLeaf(v))
    BY <1>2, <1>3, LeafDigest
<1>5. RootFromPath(LeafHash(LowLeaf(v)), at, Siblings(nodes, at)) = Root(nodes)
    <2>1. Hashes(nodes)
        BY DEF DigestInv, MerkleMap
    <2>2. RootFromPath(Node(nodes, 0, at), at, Siblings(nodes, at)) = Root(nodes)
        BY <1>3, <2>1, HonestPath
    <2> QED BY <1>4, <2>2
<1>6. CheckPath(at, Siblings(nodes, at)) /\ v # ZERO
    BY <1>3, SiblingsShape, ValueAssumption DEF CheckPath, Whole, ZERO
<1>7. ProveNonMembership(v)
        = [low_leaf |-> LowLeaf(v), low_leaf_index |-> at, siblings |-> Siblings(nodes, at)]
    BY DEF ProveNonMembership, at
<1> QED BY <1>2, <1>5, <1>6, <1>7 DEF VerifyNonMembership

\* imt.rs, verify_non_membership: absence can be proved exactly for the values
\* that are absent.
THEOREM NonMembershipIsAlwaysExact == Spec => []NonMembershipIsExact
<1>1. DigestInv => NonMembershipIsExact
    <2> SUFFICES ASSUME DigestInv, NEW v \in Value
                 PROVE  /\ v \notin Range(StoredValues) =>
                               /\ Covers(LowLeaf(v), v)
                               /\ VerifyNonMembership(Root(nodes), v, ProveNonMembership(v))
                        /\ \A low \in Leaf, lowAt \in LeafIndex, path \in LeafIndex :
                               VerifyNonMembership(Root(nodes), v,
                                   [low_leaf |-> low, low_leaf_index |-> lowAt,
                                    siblings |-> Siblings(nodes, path)])
                               => v \notin Range(StoredValues)
        BY DEF NonMembershipIsExact
    <2>1. NoForgedAbsence
        BY AbsenceIsSound
    <2> QED BY <2>1, AbsenceIsProvable DEF NoForgedAbsence
<1> QED BY <1>1, DigestAlways, PTL

\* ... and no made-up leaf, position or path passes for a stored value.
THEOREM AbsenceCannotBeForged == Spec => []NoForgedAbsence
    BY AbsenceIsSound, DigestAlways, PTL

\* Only the siblings of the levels below the root count.
LEMMA SameSiblings ==
    ASSUME NEW digest, NEW i, NEW one, NEW other, Whole(one), Whole(other),
           \A l \in 1 .. Depth : one[l] = other[l]
    PROVE  RootFromPath(digest, i, one) = RootFromPath(digest, i, other)
<1> DEFINE up   == PathDigests(digest, i, one)
           too  == PathDigests(digest, i, other)
           Good == {l \in 0 .. Depth : up[l] = too[l]}
<1>0. Depth \in Nat /\ 0 \in 0 .. Depth /\ Depth \in 0 .. Depth
    BY DepthAssumption
<1>1. /\ AreUp(up, digest, i, one) /\ RootFromPath(digest, i, one) = up[Depth]
      /\ AreUp(too, digest, i, other) /\ RootFromPath(digest, i, other) = too[Depth]
    BY PathClimbs
<1> HIDE DEF up, too
<1>2. 0 \in Good
    BY <1>0, <1>1 DEF AreUp
<1>3. ASSUME NEW l \in 1 .. Depth, l - 1 \in Good PROVE l \in Good
    <2>1. up[l] = Combined(i, l, up[l - 1], one[l]) /\ too[l] = Combined(i, l, too[l - 1], other[l])
        BY <1>1 DEF AreUp
    <2> QED BY <1>0, <1>3, <2>1
<1>4. \A l \in 0 .. Depth : l \in Good
    <2> HIDE DEF Good
    <2> QED BY <1>0, <1>2, <1>3, UpTo
<1> QED BY <1>0, <1>1, <1>4

\* What the roots of an insertion are, path by path.
LEMMA InsertionRoots ==
    ASSUME DigestInv, NEW v \in Value, ~Contains(v), LeafCount < Capacity
    PROVE  LET low     == LowLeafIndex(v)
               spliced == NodesWithLowSpliced(v)
           IN  /\ low \in LeafIndex /\ LeafCount \in LeafIndex /\ low < LeafCount
               /\ LowLeaf(v) = LeafAt(low) /\ Covers(LowLeaf(v), v)
               /\ RootFromPath(LeafHash(LowLeaf(v)), low, Siblings(nodes, low)) = Root(nodes)
               /\ Hashes(spliced)
               /\ RootFromPath(LeafHash(SplicedLow(LowLeaf(v), v, LeafCount)), low,
                               Siblings(nodes, low)) = Root(spliced)
               /\ Node(spliced, 0, LeafCount) = EmptyLeaf
               /\ RootFromPath(EmptyLeaf, LeafCount, Siblings(spliced, LeafCount)) = Root(spliced)
               /\ RootFromPath(LeafHash(Appended(LowLeaf(v), v)), LeafCount,
                               Siblings(spliced, LeafCount)) = Root(NodesAfterInsert(v))
<1> DEFINE low     == LowLeafIndex(v)
           spliced == NodesWithLowSpliced(v)
           n       == LeafCount
<1>1. /\ low \in 0 .. n - 1 /\ LowLeaf(v) = LeafAt(low) /\ Covers(LowLeaf(v), v)
    BY LowLeafCovers DEF DigestInv, LeafAt
<1>2. n \in Nat /\ low < n /\ low \in LeafIndex /\ n \in LeafIndex
    BY <1>1, LeafTypes, CapacityAssumption DEF DigestInv, ImtInv, LeafIndex
<1>3. spliced = WriteLeaf(nodes, low, SplicedLow(LowLeaf(v), v, n))
    BY DEF NodesWithLowSpliced
<1>4. NodesAfterInsert(v) = WriteLeaf(spliced, n, Appended(LowLeaf(v), v))
    BY DEF NodesAfterInsert
<1>5. MerkleMap(spliced, LowRewritten(v)) /\ Len(LowRewritten(v)) = n
    BY InsertedTree
<1> HIDE DEF low, spliced, n
<1>6. RootFromPath(LeafHash(LowLeaf(v)), low, Siblings(nodes, low)) = Root(nodes)
    <2>1. Hashes(nodes)
        BY DEF DigestInv, MerkleMap
    <2>2. Node(nodes, 0, low) = LeafHash(LowLeaf(v))
        BY <1>1, <1>2, LeafDigest DEF n
    <2>3. RootFromPath(Node(nodes, 0, low), low, Siblings(nodes, low)) = Root(nodes)
        BY <1>2, <2>1, HonestPath
    <2> QED BY <2>2, <2>3
<1>7. RootFromPath(LeafHash(SplicedLow(LowLeaf(v), v, n)), low, Siblings(nodes, low)) = Root(spliced)
    BY <1>2, <1>3, WriteLeafRewrites
<1>8. Hashes(spliced) /\ Node(spliced, 0, n) = EmptyLeaf
    <2>1. Hashes(spliced)
        BY <1>5 DEF MerkleMap
    <2>2. n >= n
        BY <1>2
    <2>3. Node(spliced, 0, n) = EmptyLeaf
        BY <1>2, <1>5, <2>2, BeyondTheLeaves
    <2> QED BY <2>1, <2>3
<1>9. RootFromPath(EmptyLeaf, n, Siblings(spliced, n)) = Root(spliced)
    <2>1. RootFromPath(Node(spliced, 0, n), n, Siblings(spliced, n)) = Root(spliced)
        BY <1>2, <1>8, HonestPath
    <2> QED BY <1>8, <2>1
<1>10. RootFromPath(LeafHash(Appended(LowLeaf(v), v)), n, Siblings(spliced, n))
         = Root(NodesAfterInsert(v))
    BY <1>2, <1>4, WriteLeafRewrites
<1> QED BY <1>1, <1>2, <1>6, <1>7, <1>8, <1>9, <1>10 DEF low, spliced, n

\* The proof an insertion makes is accepted and leads to the tree's new state.
LEMMA InsertionFollows ==
    ASSUME DigestInv, NEW v \in Value, Insert(v)
    PROVE  /\ InsertionAccepted(State, v, InsertionProof(v))
           /\ StateAfter(State, v, InsertionProof(v)) = State'
<1> DEFINE low     == LowLeafIndex(v)
           spliced == NodesWithLowSpliced(v)
           n       == LeafCount
           proof   == InsertionProof(v)
<1>1. ~Contains(v) /\ LeafCount < Capacity /\ v # ZERO
    BY DEF Insert, HasRoom
<1>2. /\ low \in LeafIndex /\ n \in LeafIndex /\ low < n
      /\ Covers(LowLeaf(v), v)
      /\ RootFromPath(LeafHash(LowLeaf(v)), low, Siblings(nodes, low)) = Root(nodes)
      /\ RootFromPath(LeafHash(SplicedLow(LowLeaf(v), v, n)), low, Siblings(nodes, low))
           = Root(spliced)
      /\ RootFromPath(EmptyLeaf, n, Siblings(spliced, n)) = Root(spliced)
      /\ RootFromPath(LeafHash(Appended(LowLeaf(v), v)), n, Siblings(spliced, n))
           = Root(NodesAfterInsert(v))
    BY <1>1, InsertionRoots
<1>3. proof = [low_leaf |-> LowLeaf(v), low_leaf_index |-> low,
               low_leaf_siblings |-> Siblings(nodes, low), new_leaf_index |-> n,
               new_leaf_siblings |-> Siblings(spliced, n)]
    BY DEF InsertionProof
<1>4. nodes' = NodesAfterInsert(v) /\ LeafCount' = n + 1
    BY InsertEffect DEF Insert, DigestInv
<1>5. State.root = Root(nodes) /\ State.leaf_count = n
    BY DEF State
<1>6. State' = [root |-> Root(NodesAfterInsert(v)), leaf_count |-> n + 1]
    BY <1>4 DEF State
<1> HIDE DEF low, spliced, n, proof
<1>7. n \in Nat /\ low \in Nat /\ n < Capacity /\ low < Capacity /\ low # n /\ n + 1 <= Capacity
    BY <1>1, <1>2, CapacityAssumption DEF n, LeafIndex
<1>8. CheckPath(low, Siblings(nodes, low)) /\ CheckPath(n, Siblings(spliced, n))
    BY <1>7, SiblingsShape DEF CheckPath, Whole
<1>9. InsertionAccepted(State, v, proof)
    BY <1>1, <1>2, <1>3, <1>5, <1>7, <1>8 DEF InsertionAccepted
<1>10. StateAfter(State, v, proof) = State'
    BY <1>2, <1>3, <1>5, <1>6 DEF StateAfter
<1> QED BY <1>9, <1>10 DEF proof

\* imt.rs, verify_insertion: a compact node that follows with a root and a
\* count accepts every insertion of the tree and arrives at the same state.
THEOREM CompactStateAlwaysFollows == Spec => CompactStateFollows
<1>1. DigestInv /\ [Next]_tree =>
          [\A v \in Value : Insert(v) =>
              /\ InsertionAccepted(State, v, InsertionProof(v))
              /\ StateAfter(State, v, InsertionProof(v)) = State']_tree
    BY InsertionFollows
<1> QED BY <1>1, DigestAlways, PTL DEF Spec, CompactStateFollows

\* Only one leaf brackets an absent value.
LEMMA OneLeafCovers ==
    ASSUME ImtInv, NEW v \in Value, ~Contains(v), NEW i \in 1 .. LeafCount, Covers(leaves[i], v)
    PROVE  i = LowLeafIndex(v) + 1
<1> DEFINE k == LowLeafIndex(v) + 1
<1>1. TypeOK /\ DistinctValues /\ SuccessorLinks
    BY DEF ImtInv, SortedListWithoutGaps
<1>2. k \in 1 .. LeafCount /\ Covers(leaves[k], v)
    BY <1>1, LowLeafCovers, LeafTypes
<1> HIDE DEF k
<1>3. /\ leaves[i].value < v /\ (leaves[i].next_value = 0 \/ v < leaves[i].next_value)
      /\ leaves[k].value < v /\ (leaves[k].next_value = 0 \/ v < leaves[k].next_value)
    BY <1>2 DEF Covers, ZERO
<1>4. /\ leaves[i].value \in Nat /\ leaves[k].value \in Nat /\ v \in Nat
      /\ leaves[i].next_value \in Nat /\ leaves[k].next_value \in Nat
    BY <1>1, <1>2, LeafTypes, ValueAssumption
<1>5. ~(leaves[i].value < leaves[k].value)
    <2> SUFFICES ASSUME leaves[i].value < leaves[k].value PROVE FALSE
        OBVIOUS
    <2>1. CASE leaves[i].next_value = ZERO
        BY <1>1, <1>2, <1>4, <2>1 DEF SuccessorLinks
    <2>2. CASE leaves[i].next_value # ZERO
        <3>1. ~(leaves[k].value < leaves[i].next_value)
            BY <1>1, <1>2, <2>2 DEF SuccessorLinks
        <3> QED BY <1>3, <1>4, <2>2, <3>1 DEF ZERO
    <2> QED BY <2>1, <2>2
<1>6. ~(leaves[k].value < leaves[i].value)
    <2> SUFFICES ASSUME leaves[k].value < leaves[i].value PROVE FALSE
        OBVIOUS
    <2>1. CASE leaves[k].next_value = ZERO
        BY <1>1, <1>2, <1>4, <2>1 DEF SuccessorLinks
    <2>2. CASE leaves[k].next_value # ZERO
        <3>1. ~(leaves[i].value < leaves[k].next_value)
            BY <1>1, <1>2, <2>2 DEF SuccessorLinks
        <3> QED BY <1>3, <1>4, <2>2, <3>1 DEF ZERO
    <2> QED BY <2>1, <2>2
<1>7. leaves[i].value = leaves[k].value
    BY <1>4, <1>5, <1>6
<1> QED BY <1>1, <1>2, <1>7 DEF DistinctValues, k

\* An insertion proof, with leaves and positions of the code's types and any
\* siblings whatever.
InsertionProofOf(low, lowAt, lowSiblings, newAt, newSiblings) ==
    [low_leaf |-> low, low_leaf_index |-> lowAt, low_leaf_siblings |-> lowSiblings,
     new_leaf_index |-> newAt, new_leaf_siblings |-> newSiblings]

\* Whatever is accepted is the insertion the tree would make.
NoForgedInsertion ==
    \A v \in Value, low \in Leaf, lowAt \in LeafIndex, newAt \in LeafIndex :
        \A lowSiblings, newSiblings :
            LET proof == InsertionProofOf(low, lowAt, lowSiblings, newAt, newSiblings)
            IN  InsertionAccepted(State, v, proof) =>
                    /\ v \notin Range(StoredValues)
                    /\ StateAfter(State, v, proof)
                         = [root |-> Root(NodesAfterInsert(v)), leaf_count |-> LeafCount + 1]

\* The paths are honest, one leaf brackets the value, and the append position is
\* pinned by the count: nothing is left to choose.
LEMMA InsertionIsSound == DigestInv => NoForgedInsertion
<1> SUFFICES ASSUME DigestInv, NEW v \in Value, NEW low \in Leaf, NEW lowAt \in LeafIndex,
                    NEW newAt \in LeafIndex, NEW lowSib, NEW newSib,
                    InsertionAccepted(State, v, InsertionProofOf(low, lowAt, lowSib, newAt, newSib))
             PROVE  /\ v \notin Range(StoredValues)
                    /\ StateAfter(State, v, InsertionProofOf(low, lowAt, lowSib, newAt, newSib))
                         = [root |-> Root(NodesAfterInsert(v)), leaf_count |-> LeafCount + 1]
    BY DEF NoForgedInsertion
<1> DEFINE spliced == NodesWithLowSpliced(v)
<1>1. /\ Whole(lowSib) /\ Whole(newSib) /\ newAt = LeafCount /\ Covers(low, v)
      /\ RootFromPath(LeafHash(low), lowAt, lowSib) = Root(nodes)
      /\ RootFromPath(EmptyLeaf, newAt, newSib)
           = RootFromPath(LeafHash(SplicedLow(low, v, newAt)), lowAt, lowSib)
      /\ LeafCount + 1 <= Capacity
    BY DEF InsertionAccepted, InsertionProofOf, State, CheckPath, Whole
<1>2. /\ lowAt + 1 \in 1 .. LeafCount /\ low = leaves[lowAt + 1]
      /\ \A l \in 1 .. Depth : lowSib[l] = Siblings(nodes, lowAt)[l]
    BY <1>1, PathsEndAtLeaves
<1>3. v \notin Range(StoredValues) /\ ~Contains(v)
    <2>1. \A j \in 1 .. LeafCount : leaves[j].value # v
        BY <1>1, <1>2, CoveringLeafWitnessesAbsence DEF DigestInv
    <2> QED BY <2>1, Stored DEF DigestInv
<1>4. LeafCount \in Nat /\ LeafCount < Capacity
    BY <1>1, LeafTypes, CapacityAssumption DEF DigestInv, ImtInv
<1>5. lowAt = LowLeafIndex(v) /\ low = LowLeaf(v)
    <2>1. lowAt + 1 = LowLeafIndex(v) + 1
        BY <1>1, <1>2, <1>3, OneLeafCovers DEF DigestInv
    <2>2. lowAt \in Nat /\ LowLeafIndex(v) \in 0 .. LeafCount - 1 /\ LowLeaf(v) = leaves[LowLeafIndex(v) + 1]
        BY <1>3, LowLeafCovers, CapacityAssumption DEF DigestInv, LeafIndex
    <2> QED BY <1>2, <1>4, <2>1, <2>2
<1>6. /\ Hashes(spliced) /\ LeafCount \in LeafIndex
      /\ RootFromPath(LeafHash(SplicedLow(low, v, LeafCount)), lowAt, Siblings(nodes, lowAt))
           = Root(spliced)
      /\ RootFromPath(LeafHash(Appended(low, v)), LeafCount, Siblings(spliced, LeafCount))
           = Root(NodesAfterInsert(v))
    BY <1>3, <1>4, <1>5, InsertionRoots
<1> HIDE DEF spliced
<1>7. RootFromPath(EmptyLeaf, LeafCount, newSib) = Root(spliced)
    <2>1. RootFromPath(LeafHash(SplicedLow(low, v, LeafCount)), lowAt, lowSib)
            = RootFromPath(LeafHash(SplicedLow(low, v, LeafCount)), lowAt, Siblings(nodes, lowAt))
        BY <1>1, <1>2, SiblingsShape, SameSiblings
    <2> QED BY <1>1, <1>6, <2>1
<1>8. \A l \in 1 .. Depth : newSib[l] = Siblings(spliced, LeafCount)[l]
    BY <1>1, <1>6, <1>7, OnlyHonestPaths
<1>9. RootFromPath(LeafHash(Appended(low, v)), LeafCount, newSib) = Root(NodesAfterInsert(v))
    <2>1. RootFromPath(LeafHash(Appended(low, v)), LeafCount, newSib)
            = RootFromPath(LeafHash(Appended(low, v)), LeafCount, Siblings(spliced, LeafCount))
        BY <1>1, <1>8, SiblingsShape, SameSiblings
    <2> QED BY <1>6, <2>1
<1>10. StateAfter(State, v, InsertionProofOf(low, lowAt, lowSib, newAt, newSib))
         = [root |-> Root(NodesAfterInsert(v)), leaf_count |-> LeafCount + 1]
    BY <1>1, <1>9 DEF StateAfter, InsertionProofOf, State
<1> QED BY <1>3, <1>10

\* imt.rs, verify_insertion: of the proofs put together from the tree's own
\* leaves and paths, a compact node accepts only the tree's own insertion.
THEOREM AcceptedInsertionsAreCanonical == Spec => []AcceptedInsertionIsCanonical
<1>1. DigestInv => AcceptedInsertionIsCanonical
    <2> SUFFICES ASSUME DigestInv, NEW v \in Value, NEW proof \in CandidateProofs(v),
                        InsertionAccepted(State, v, proof)
                 PROVE  /\ v \notin Range(StoredValues)
                        /\ StateAfter(State, v, proof)
                             = [root |-> Root(NodesAfterInsert(v)), leaf_count |-> LeafCount + 1]
        BY DEF AcceptedInsertionIsCanonical
    <2>1. PICK low \in 0 .. LeafCount - 1, lowAt \in LeafIndex, newAt \in LeafIndex :
              LET spliced == WriteLeaf(nodes, lowAt, SplicedLow(LeafAt(low), v, newAt))
              IN  \E path \in {Siblings(n, k) : n \in {nodes, spliced}, k \in LeafIndex} :
                      proof = InsertionProofOf(LeafAt(low), lowAt, Siblings(nodes, lowAt), newAt, path)
        BY DEF CandidateProofs, InsertionProofOf
    <2>2. PICK path : proof = InsertionProofOf(LeafAt(low), lowAt, Siblings(nodes, lowAt), newAt, path)
        BY <2>1
    <2>3. LeafAt(low) \in Leaf
        <3>1. low + 1 \in 1 .. LeafCount
            BY LeafTypes DEF DigestInv, ImtInv
        <3> QED BY <3>1, LeafTypes DEF DigestInv, ImtInv, LeafAt
    <2> QED BY <2>2, <2>3, InsertionIsSound DEF NoForgedInsertion
<1> QED BY <1>1, DigestAlways, PTL

\* ... and made-up siblings do not help.
THEOREM InsertionCannotBeForged == Spec => []NoForgedInsertion
    BY InsertionIsSound, DigestAlways, PTL

\* The successor that sorting finds is the one the links name.
LEMMA SortingFindsTheLinks ==
    ASSUME ImtInv, NEW i \in 1 .. LeafCount
    PROVE  LinkedLeaf(StoredValues, i) = leaves[i]
<1> DEFINE values == StoredValues
           above  == {j \in DOMAIN values : values[j] > values[i]}
<1>1. TypeOK /\ DistinctValues /\ SuccessorLinks
    BY DEF ImtInv, SortedListWithoutGaps
<1>2. /\ DOMAIN values = 1 .. LeafCount /\ \A j \in 1 .. LeafCount : values[j] = leaves[j].value
    BY DEF StoredValues
<1>3. /\ \A j \in 1 .. LeafCount : leaves[j].value \in Nat /\ leaves[j].next_value \in Nat
      /\ leaves[i] \in Leaf /\ LeafCount \in Nat
    BY <1>1, LeafTypes
<1>4. leaves[i] = [value |-> leaves[i].value, next_value |-> leaves[i].next_value,
                   next_index |-> leaves[i].next_index]
    BY <1>3 DEF Leaf
<1>5. LinkedLeaf(values, i)
        = IF above = {}
          THEN [value |-> values[i], next_value |-> ZERO, next_index |-> 0]
          ELSE LET next == CHOOSE j \in above : \A k \in above : values[j] <= values[k]
               IN  [value |-> values[i], next_value |-> values[next], next_index |-> next - 1]
    BY DEF LinkedLeaf
<1> HIDE DEF values
<1>6. \A j : j \in above <=> j \in 1 .. LeafCount /\ leaves[j].value > leaves[i].value
    BY <1>2
<1>7. CASE leaves[i].next_value = ZERO
    <2>1. leaves[i].next_index = 0 /\ \A j \in 1 .. LeafCount : leaves[j].value <= leaves[i].value
        BY <1>1, <1>7 DEF SuccessorLinks
    <2>2. above = {}
        BY <1>3, <1>6, <2>1
    <2> QED BY <1>2, <1>4, <1>5, <1>7, <2>1, <2>2 DEF values
<1>8. CASE leaves[i].next_value # ZERO
    <2> DEFINE next == leaves[i].next_index + 1
    <2>1. /\ leaves[i].next_index \in 1 .. LeafCount - 1
          /\ leaves[next].value = leaves[i].next_value
          /\ leaves[i].value < leaves[i].next_value
          /\ \A j \in 1 .. LeafCount :
                 ~(leaves[i].value < leaves[j].value /\ leaves[j].value < leaves[i].next_value)
        BY <1>1, <1>8 DEF SuccessorLinks, LeafAt
    <2>2. next \in 1 .. LeafCount /\ next - 1 = leaves[i].next_index
        BY <1>3, <2>1
    <2> HIDE DEF next
    <2>3. next \in above /\ \A k \in above : values[next] <= values[k]
        <3>1. values[next] = leaves[next].value /\ leaves[next].value > leaves[i].value
            BY <1>2, <1>3, <2>1, <2>2
        <3>2. next \in above
            BY <1>6, <2>2, <3>1
        <3>3. ASSUME NEW k \in above PROVE values[next] <= values[k]
            <4>1. k \in 1 .. LeafCount /\ leaves[k].value > leaves[i].value
                BY <1>6
            <4>2. ~(leaves[k].value < leaves[next].value)
                BY <2>1, <4>1, <1>3
            <4> QED BY <1>2, <1>3, <2>2, <3>1, <4>1, <4>2
        <3> QED BY <3>2, <3>3
    <2>4. ASSUME NEW j \in above, \A k \in above : values[j] <= values[k]
          PROVE  j = next
        <3>1. j \in 1 .. LeafCount /\ values[j] <= values[next] /\ values[next] <= values[j]
            BY <1>6, <2>3, <2>4
        <3>2. leaves[j].value = leaves[next].value
            BY <1>2, <1>3, <2>2, <3>1
        <3> QED BY <1>1, <2>2, <3>1, <3>2 DEF DistinctValues
    <2> HIDE DEF above
    <2>5. (CHOOSE j \in above : \A k \in above : values[j] <= values[k]) = next
        BY <2>3, <2>4
    <2>6. above # {}
        BY <2>3
    <2>7. LinkedLeaf(values, i)
            = [value |-> values[i], next_value |-> values[next], next_index |-> next - 1]
        BY <1>5, <2>5, <2>6
    <2> QED BY <1>2, <1>4, <2>1, <2>2, <2>7 DEF values
<1> QED BY <1>7, <1>8

\* What the bottom-up fold computes, over the positions up to a level.
Folds(digest, linked, level) ==
    digest = [at \in (0 .. level) \X LeafIndex |->
                 IF at[2] * 2 ^ at[1] >= Len(linked) THEN Zero[at[1]]
                 ELSE IF at[1] = 0 THEN LeafHash(linked[at[2] + 1])
                 ELSE NodeHash(digest[<<at[1] - 1, 2 * at[2]>>],
                               digest[<<at[1] - 1, 2 * at[2] + 1>>])]

FoldsTo(digest, linked, l, k) ==
    digest[<<l, k>>] = IF k * 2 ^ l >= Len(linked) THEN Zero[l]
                       ELSE IF l = 0 THEN LeafHash(linked[k + 1])
                       ELSE NodeHash(digest[<<l - 1, 2 * k>>], digest[<<l - 1, 2 * k + 1>>])

\* One digest at a time.
LEMMA FoldsPointwise ==
    ASSUME NEW digest, NEW linked, NEW level \in Nat
    PROVE  Folds(digest, linked, level)
               <=> /\ Maps(digest, (0 .. level) \X LeafIndex)
                   /\ \A l \in 0 .. level, k \in LeafIndex : FoldsTo(digest, linked, l, k)
<1> DEFINE value(at) == IF at[2] * 2 ^ at[1] >= Len(linked) THEN Zero[at[1]]
                        ELSE IF at[1] = 0 THEN LeafHash(linked[at[2] + 1])
                        ELSE NodeHash(digest[<<at[1] - 1, 2 * at[2]>>],
                                      digest[<<at[1] - 1, 2 * at[2] + 1>>])
           places == (0 .. level) \X LeafIndex
<1>1. Folds(digest, linked, level) <=> digest = [at \in places |-> value(at)]
    BY DEF Folds
<1>2. ASSUME NEW l \in 0 .. level, NEW k \in LeafIndex
      PROVE  <<l, k>> \in places
             /\ (FoldsTo(digest, linked, l, k) <=> digest[<<l, k>>] = value(<<l, k>>))
    BY DEF FoldsTo
<1>3. \A at \in places : \E l \in 0 .. level, k \in LeafIndex : at = <<l, k>>
    OBVIOUS
<1> HIDE DEF value, places
<1>4. digest = [at \in places |-> value(at)]
          <=> Maps(digest, places) /\ \A at \in places : digest[at] = value(at)
    BY DEF Maps
<1>5. (\A at \in places : digest[at] = value(at))
          <=> \A l \in 0 .. level, k \in LeafIndex : FoldsTo(digest, linked, l, k)
    BY <1>2, <1>3, ZenonT(60)
<1> QED BY <1>1, <1>4, <1>5 DEF places

\* A position above a leaf has both its children in the tree.
LEMMA Children ==
    ASSUME NEW count \in Nat, count <= Capacity, NEW l \in 1 .. Depth, NEW k \in LeafIndex,
           ~(k * 2 ^ l >= count)
    PROVE  2 * k \in LeafIndex /\ 2 * k + 1 \in LeafIndex
<1> DEFINE p == 2 ^ (l - 1)
           half == 2 ^ (Depth - 1)
<1>1. k \in Nat /\ p \in Nat \ {0} /\ half \in Nat /\ 2 ^ l = 2 * p /\ Capacity = 2 * half
    <2>1. l - 1 \in 0 .. Depth /\ Depth - 1 \in 0 .. Depth /\ Depth \in 1 .. Depth
        BY DepthAssumption
    <2>2. 2 ^ l = 2 * 2 ^ (l - 1) /\ 2 ^ Depth = 2 * 2 ^ (Depth - 1) /\ 2 ^ Depth = Capacity
        BY <2>1, Powers
    <2> QED BY <2>1, <2>2, Powers, CapacityAssumption DEF LeafIndex
<1>2. k * (2 * p) < Capacity
    <2>1. k * 2 ^ l \in Nat
        <3> HIDE DEF p
        <3> QED BY <1>1
    <2> QED BY <1>1, <2>1, CapacityAssumption
<1> HIDE DEF p, half
<1>3. 2 * k <= k * (2 * p)
    <2>1. k * (2 * p) = (2 * k) * p
        BY <1>1
    <2>2. (2 * k) * 1 <= (2 * k) * p
        BY <1>1
    <2> QED BY <1>1, <2>1, <2>2
<1>4. 2 * k < Capacity /\ 2 * k + 1 < Capacity
    <2>1. k * (2 * p) \in Nat
        BY <1>1
    <2> QED BY <1>1, <1>2, <1>3, <2>1
<1> QED BY <1>1, <1>4, CapacityAssumption DEF LeafIndex

\* The fold over the leaves is the node map.
LEMMA FoldIsTheTree ==
    ASSUME DigestInv, NEW level \in 0 .. Depth, NEW index \in LeafIndex
    PROVE  FoldedDigest(leaves, level, index) = Node(nodes, level, index)
<1> DEFINE count == Len(leaves)
           tree0 == [at \in (0 .. level) \X LeafIndex |-> Node(nodes, at[1], at[2])]
           folded == CHOOSE digest : Folds(digest, leaves, level)
<1>0. /\ level \in Nat /\ Depth \in Nat /\ count \in Nat /\ count <= Capacity /\ LeafCount = count
      /\ LeafIndex \subseteq Nat
    BY DepthAssumption, LeafTypes, CapacityAssumption DEF DigestInv, ImtInv, TypeOK, LeafIndex
<1>1. Hashes(nodes)
    BY DEF DigestInv, MerkleMap
<1>2. ASSUME NEW l \in 0 .. level, NEW k \in LeafIndex
      PROVE  Node(nodes, l, k) = IF k * 2 ^ l >= count THEN Zero[l]
                                 ELSE IF l = 0 THEN LeafHash(leaves[k + 1])
                                 ELSE NodeHash(Node(nodes, l - 1, 2 * k), Node(nodes, l - 1, 2 * k + 1))
    <2>1. l \in 0 .. Depth /\ k \in Nat
        BY <1>0
    <2>2. CASE k * 2 ^ l >= count
        <3>1. \A j \in Nat : Node(nodes, 0, j) = EmptyLeaf <=> j >= count
            <4> SUFFICES ASSUME NEW j \in Nat
                         PROVE  Node(nodes, 0, j) = EmptyLeaf <=> j >= count
                OBVIOUS
            <4>1. CASE j >= count
                BY <1>0, <4>1, BeyondTheLeaves DEF DigestInv
            <4>2. CASE ~(j >= count)
                <5>1. j \in LeafIndex /\ j < LeafCount /\ j + 1 \in 1 .. LeafCount
                    BY <1>0, <4>2, CapacityAssumption DEF LeafIndex
                <5>2. Node(nodes, 0, j) = LeafHash(LeafAt(j)) /\ LeafAt(j) \in Leaf
                    BY <5>1, LeafDigest, LeafTypes DEF LeafAt, DigestInv, ImtInv
                <5> QED BY <4>2, <5>2, DigestsAreInjective
            <4> QED BY <4>1, <4>2
        <3>2. Node(nodes, l, k) = Zero[l] <=> k * 2 ^ l >= count
            BY <1>0, <1>1, <2>1, <3>1, EmptySubtrees
        <3> QED BY <2>2, <3>2
    <2>3. CASE ~(k * 2 ^ l >= count) /\ l = 0
        <3>1. k < LeafCount
            BY <1>0, <2>1, <2>3, PowerAssumption
        <3> QED BY <2>3, <3>1, LeafDigest DEF LeafAt
    <2>4. CASE ~(k * 2 ^ l >= count) /\ l # 0
        <3>1. l \in 1 .. Depth
            BY <2>1, <2>4
        <3> QED BY <1>1, <2>1, <2>4, <3>1 DEF Hashes
    <2> QED BY <2>2, <2>3, <2>4
<1> HIDE DEF count
<1>3. ASSUME NEW l \in 0 .. level, NEW k \in LeafIndex, ~(k * 2 ^ l >= count), l # 0
      PROVE  <<l - 1, 2 * k>> \in (0 .. level) \X LeafIndex
             /\ <<l - 1, 2 * k + 1>> \in (0 .. level) \X LeafIndex /\ l - 1 \in 0 .. level
             /\ 2 * k \in LeafIndex /\ 2 * k + 1 \in LeafIndex
    <2>1. l \in 1 .. Depth /\ l - 1 \in 0 .. level
        BY <1>0, <1>3
    <2>2. 2 * k \in LeafIndex /\ 2 * k + 1 \in LeafIndex
        BY <1>0, <1>3, <2>1, Children
    <2> QED BY <2>1, <2>2
<1>4. Folds(tree0, leaves, level)
    <2>1. Maps(tree0, (0 .. level) \X LeafIndex)
        BY DEF Maps
    <2>2. \A l \in 0 .. level, k \in LeafIndex : tree0[<<l, k>>] = Node(nodes, l, k)
        OBVIOUS
    <2> HIDE DEF tree0
    <2>3. ASSUME NEW l \in 0 .. level, NEW k \in LeafIndex
          PROVE  FoldsTo(tree0, leaves, l, k)
        <3>1. CASE k * 2 ^ l >= count
            BY <1>2, <2>2, <3>1 DEF FoldsTo, count
        <3>2. CASE ~(k * 2 ^ l >= count) /\ l = 0
            BY <1>2, <2>2, <3>2 DEF FoldsTo, count
        <3>3. CASE ~(k * 2 ^ l >= count) /\ l # 0
            <4>1. /\ tree0[<<l - 1, 2 * k>>] = Node(nodes, l - 1, 2 * k)
                  /\ tree0[<<l - 1, 2 * k + 1>>] = Node(nodes, l - 1, 2 * k + 1)
                BY <1>3, <2>2, <3>3
            <4> QED BY <1>2, <2>2, <3>3, <4>1 DEF FoldsTo, count
        <3> QED BY <3>1, <3>2, <3>3
    <2> QED BY <1>0, <2>1, <2>3, FoldsPointwise
<1>5. Folds(folded, leaves, level)
    BY <1>4
<1>6. FoldedDigest(leaves, level, index) = folded[<<level, index>>]
    BY DEF FoldedDigest, Folds
<1> HIDE DEF folded
<1>7. \A l \in 0 .. level, k \in LeafIndex : FoldsTo(folded, leaves, l, k)
    BY <1>0, <1>5, FoldsPointwise
<1> DEFINE Good == {l \in 0 .. level : \A k \in LeafIndex : folded[<<l, k>>] = Node(nodes, l, k)}
<1>8. 0 \in Good
    <2>1. 0 \in 0 .. level
        BY <1>0
    <2> QED BY <1>2, <1>7, <2>1 DEF FoldsTo, count
<1>9. ASSUME NEW l \in 1 .. level, l - 1 \in Good PROVE l \in Good
    <2> SUFFICES ASSUME NEW k \in LeafIndex PROVE folded[<<l, k>>] = Node(nodes, l, k)
        BY <1>0
    <2>1. l \in 0 .. level /\ l # 0
        BY <1>0
    <2>2. CASE k * 2 ^ l >= count
        BY <1>2, <1>7, <2>1, <2>2 DEF FoldsTo, count
    <2>3. CASE ~(k * 2 ^ l >= count)
        <3>1. /\ folded[<<l - 1, 2 * k>>] = Node(nodes, l - 1, 2 * k)
              /\ folded[<<l - 1, 2 * k + 1>>] = Node(nodes, l - 1, 2 * k + 1)
            BY <1>3, <1>9, <2>1, <2>3
        <3> QED BY <1>2, <1>7, <2>1, <2>3, <3>1 DEF FoldsTo, count
    <2> QED BY <2>2, <2>3
<1>10. \A l \in 0 .. level : l \in Good
    <2> HIDE DEF Good
    <2> QED BY <1>0, <1>8, <1>9, UpTo
<1>11. level \in 0 .. level
    BY <1>0
<1> QED BY <1>6, <1>10, <1>11

\* A function is its values.
LEMMA SameMaps ==
    ASSUME NEW f, NEW g, NEW S, Maps(f, S), Maps(g, S), \A x \in S : f[x] = g[x]
    PROVE  f = g
    BY DEF Maps

\* imt.rs, from_values_bulk and rebuild_root: the tree is the one built from
\* its values, however it was reached.
THEOREM TreeIsAlwaysCanonical == Spec => []TreeIsCanonical
<1>1. DigestInv => TreeIsCanonical
    <2> SUFFICES ASSUME DigestInv PROVE TreeIsCanonical
        OBVIOUS
    <2> DEFINE values == StoredValues
               linked == [i \in DOMAIN values |-> LinkedLeaf(values, i)]
               at     == {k \in (0 .. Depth) \X LeafIndex : k[2] * 2 ^ k[1] < Len(linked)}
               byValue == [v \in Range(values) |-> (CHOOSE i \in DOMAIN values : values[i] = v) - 1]
               map     == [k \in at |-> FoldedDigest(linked, k[1], k[2])]
    <2>1. /\ leaves \in Seq(Leaf) /\ LeafCount = Len(leaves) /\ LeafCount \in Nat
          /\ DistinctValues /\ IndexAgrees /\ ImtInv
        BY LeafTypes DEF DigestInv, ImtInv, SortedListWithoutGaps, TypeOK
    <2>2. DOMAIN values = 1 .. LeafCount /\ \A i \in 1 .. LeafCount : values[i] = leaves[i].value
        BY DEF StoredValues
    <2>3. linked = leaves
        <3>1. leaves = [i \in 1 .. LeafCount |-> leaves[i]]
            BY <2>1
        <3>2. \A i \in 1 .. LeafCount : LinkedLeaf(values, i) = leaves[i]
            BY <2>1, SortingFindsTheLinks
        <3> HIDE DEF values
        <3> QED BY <2>2, <3>1, <3>2
    <2>4. Range(values) = DOMAIN index_by_value
        <3>1. DOMAIN index_by_value = {leaves[i].value : i \in 1 .. LeafCount}
            BY <2>1 DEF IndexAgrees
        <3> HIDE DEF values
        <3> QED BY <2>2, <3>1 DEF Range
    <2>5. byValue = index_by_value
        <3>1. ASSUME NEW v \in DOMAIN index_by_value PROVE byValue[v] = index_by_value[v]
            <4>1. PICK i \in 1 .. LeafCount : leaves[i].value = v
                BY <2>1 DEF IndexAgrees
            <4> HIDE DEF values
            <4>2. \A j \in DOMAIN values : values[j] = v <=> j = i
                BY <2>1, <2>2, <4>1 DEF DistinctValues
            <4>3. (CHOOSE j \in DOMAIN values : values[j] = v) = i
                BY <2>2, <4>2
            <4>4. byValue[v] = i - 1
                BY <2>4, <4>3
            <4>5. index_by_value[v] = i - 1
                BY <2>1, <4>1 DEF IndexAgrees
            <4> QED BY <4>4, <4>5
        <3>2. Maps(byValue, DOMAIN index_by_value) /\ Maps(index_by_value, DOMAIN index_by_value)
            BY <2>4 DEF Maps, DigestInv
        <3> HIDE DEF byValue
        <3> QED BY <3>1, <3>2, SameMaps
    <2>6. map = nodes
        <3>1. at = Covered(Len(leaves))
            BY <2>3 DEF Covered
        <3>2. Maps(nodes, Covered(Len(leaves)))
            BY DEF DigestInv, MerkleMap
        <3>3. Maps(map, Covered(Len(leaves)))
            <4> HIDE DEF linked, at
            <4> QED BY <3>1 DEF Maps
        <3>4. ASSUME NEW place \in Covered(Len(leaves)) PROVE map[place] = nodes[place]
            <4>1. map[place] = FoldedDigest(leaves, place[1], place[2])
                <5> HIDE DEF linked, at
                <5> QED BY <2>3, <3>1
            <4>2. PICK l \in 0 .. Depth, k \in LeafIndex : place = <<l, k>>
                BY DEF Covered
            <4>3. FoldedDigest(leaves, l, k) = Node(nodes, l, k)
                BY FoldIsTheTree
            <4>4. place \in DOMAIN nodes
                BY <3>2 DEF Maps
            <4> QED BY <4>1, <4>2, <4>3, <4>4 DEF Node
        <3> HIDE DEF map, at, linked
        <3> QED BY <3>2, <3>3, <3>4, SameMaps
    <2>7. BulkTree(values) = <<linked, byValue, map>>
        BY DEF BulkTree
    <2>8. tree = BulkTree(values)
        <3> HIDE DEF values, linked, byValue, map
        <3> QED BY <2>3, <2>5, <2>6, <2>7 DEF tree
    <2>9. Root(nodes) = RebuildRoot(values)
        <3>1. Depth \in 0 .. Depth /\ 0 \in LeafIndex
            BY DepthAssumption, CapacityAssumption DEF LeafIndex
        <3>2. RebuildRoot(values) = FoldedDigest(linked, Depth, 0)
            BY DEF RebuildRoot
        <3> HIDE DEF values, linked
        <3> QED BY <2>3, <3>1, <3>2, FoldIsTheTree DEF Root
    <2> QED BY <2>8, <2>9 DEF TreeIsCanonical
<1> QED BY <1>1, DigestAlways, PTL

----------------------------------------------------------------------------
(* Prefix cohorts.                                                         *)

\* A cohort's digests at the leaf level, and at a level from the one below.
FoldBase(cohort) == [i \in DOMAIN cohort.leaves |-> LeafHash(cohort.leaves[i])]

FoldChild(cohort, level, below, k) ==
    IF k \in DOMAIN below THEN below[k] ELSE Node(cohort.nodes, level - 1, k)

FoldStep(cohort, level, below) ==
    [k \in {i \div 2 : i \in DOMAIN below} |->
        NodeHash(FoldChild(cohort, level, below, 2 * k), FoldChild(cohort, level, below, 2 * k + 1))]

FoldsUpTo(held, n, cohort) ==
    held = [level \in 0 .. n |->
               IF level = 0 THEN FoldBase(cohort) ELSE FoldStep(cohort, level, held[level - 1])]

\* The function exists up to every level.
LEMMA FoldsExist ==
    ASSUME NEW cohort
    PROVE  \A n \in Nat : \E held : FoldsUpTo(held, n, cohort)
<1> DEFINE Bad == {n \in Nat : ~ \E held : FoldsUpTo(held, n, cohort)}
           base == FoldBase(cohort)
           step(n, below) == FoldStep(cohort, n, below)
<1> SUFFICES ASSUME Bad # {} PROVE FALSE
    OBVIOUS
<1>1. PICK m \in Bad : \A k \in Bad : m <= k
    <2> Bad \in SUBSET Nat
        OBVIOUS
    <2> HIDE DEF Bad
    <2> QED BY SmallestNat
<1>2. CASE m = 0
    <2>1. FoldsUpTo([n \in 0 .. 0 |-> base], 0, cohort)
        BY DEF FoldsUpTo
    <2> QED BY <2>1, <1>2
<1>3. CASE m # 0
    <2>1. m \in Nat /\ m - 1 \in Nat /\ m - 1 \notin Bad
        BY <1>1, <1>3
    <2>2. PICK f : FoldsUpTo(f, m - 1, cohort)
        BY <2>1
    <2> DEFINE g == [n \in 0 .. m |-> IF n = m THEN step(m, f[m - 1]) ELSE f[n]]
    <2>3. \A n \in 0 .. m - 1 : f[n] = IF n = 0 THEN base ELSE step(n, f[n - 1])
        BY <2>2 DEF FoldsUpTo
    <2> HIDE DEF step, base
    <2>4. (\A n \in 0 .. m - 1 : g[n] = f[n]) /\ g[m] = step(m, f[m - 1])
        BY <2>1
    <2>5. ASSUME NEW n \in 0 .. m
          PROVE  g[n] = IF n = 0 THEN base ELSE step(n, g[n - 1])
        <3> HIDE DEF g
        <3>1. CASE n = m
            <4>1. m - 1 \in 0 .. m - 1
                BY <2>1
            <4> QED BY <2>4, <3>1, <4>1, <1>3
        <3>2. CASE n # m
            <4>1. n \in 0 .. m - 1 /\ (n # 0 => n - 1 \in 0 .. m - 1)
                BY <2>1, <3>2
            <4> QED BY <2>3, <2>4, <4>1
        <3> QED BY <3>1, <3>2
    <2>6. FoldsUpTo(g, m, cohort)
        <3>1. g = [n \in 0 .. m |-> g[n]]
            OBVIOUS
        <3> HIDE DEF g
        <3> QED BY <2>5, <3>1 DEF FoldsUpTo, step, base
    <2> QED BY <2>6, <1>1
<1> QED BY <1>2, <1>3

\* The levels of a fold, one made from the next lower.
AreFolds(held, cohort) ==
    /\ held[0] = FoldBase(cohort)
    /\ \A l \in 1 .. Depth : held[l] = FoldStep(cohort, l, held[l - 1])

\* CohortFold is the top level of one.
LEMMA CohortFoldUnfolds ==
    ASSUME NEW cohort
    PROVE  \E held : AreFolds(held, cohort) /\ CohortFold(cohort) = held[Depth]
<1> DEFINE held == CHOOSE f : FoldsUpTo(f, Depth, cohort)
<1>1. Depth \in Nat
    BY DepthAssumption
<1>2. FoldsUpTo(held, Depth, cohort)
    BY <1>1, FoldsExist
<1>3. CohortFold(cohort) = held[Depth]
    BY DEF CohortFold, FoldsUpTo, FoldBase, FoldStep, FoldChild
<1> HIDE DEF held
<1>4. \A l \in 0 .. Depth :
          held[l] = IF l = 0 THEN FoldBase(cohort) ELSE FoldStep(cohort, l, held[l - 1])
    BY <1>2 DEF FoldsUpTo
<1>5. AreFolds(held, cohort)
    <2>1. 0 \in 0 .. Depth /\ \A l \in 1 .. Depth : l \in 0 .. Depth /\ l # 0
        BY <1>1
    <2> QED BY <1>4, <2>1 DEF AreFolds
<1> QED BY <1>3, <1>5

\* The positions computed at a level are halves of those one level below, and
\* at the top there is one.
LEMMA KnownHalves ==
    ASSUME NEW indices \in SUBSET LeafIndex
    PROVE  /\ KnownAt(indices, 0) = indices
           /\ \A l \in 0 .. Depth : KnownAt(indices, l) \subseteq LeafIndex
           /\ \A l \in 1 .. Depth : KnownAt(indices, l) = {i \div 2 : i \in KnownAt(indices, l - 1)}
           /\ indices # {} => KnownAt(indices, Depth) = {0}
<1>1. \A i \in indices :
          /\ Ancestor(i, 0) = i /\ Ancestor(i, Depth) = 0
          /\ \A l \in 0 .. Depth : Ancestor(i, l) \in LeafIndex
          /\ \A l \in 1 .. Depth : Ancestor(i, l) = Ancestor(i, l - 1) \div 2
    BY WayUp
<1>2. ASSUME NEW l \in 1 .. Depth
      PROVE  KnownAt(indices, l) = {i \div 2 : i \in KnownAt(indices, l - 1)}
    <2>1. \A i \in indices : Ancestor(i, l) = Ancestor(i, l - 1) \div 2
        BY <1>1
    <2>2. ASSUME NEW k \in KnownAt(indices, l) PROVE k \in {i \div 2 : i \in KnownAt(indices, l - 1)}
        BY <2>1 DEF KnownAt
    <2>3. ASSUME NEW k \in {i \div 2 : i \in KnownAt(indices, l - 1)} PROVE k \in KnownAt(indices, l)
        BY <2>1 DEF KnownAt
    <2> QED BY <2>2, <2>3
<1> QED BY <1>1, <1>2 DEF KnownAt

\* So the folds of a cohort have the digests of the known positions.
LEMMA FoldDomains ==
    ASSUME NEW cohort, NEW held, AreFolds(held, cohort), DOMAIN cohort.leaves \in SUBSET LeafIndex
    PROVE  \A l \in 0 .. Depth : DOMAIN held[l] = KnownAt(DOMAIN cohort.leaves, l)
<1> DEFINE indices == DOMAIN cohort.leaves
           Good == {l \in 0 .. Depth : DOMAIN held[l] = KnownAt(indices, l)}
<1>0. Depth \in Nat /\ 0 \in 0 .. Depth
    BY DepthAssumption
<1>1. 0 \in Good
    BY <1>0, KnownHalves DEF AreFolds, FoldBase
<1>2. ASSUME NEW l \in 1 .. Depth, l - 1 \in Good PROVE l \in Good
    <2>1. held[l] = FoldStep(cohort, l, held[l - 1])
        BY DEF AreFolds
    <2>2. DOMAIN held[l] = {i \div 2 : i \in DOMAIN held[l - 1]}
        BY <2>1 DEF FoldStep
    <2>3. DOMAIN held[l] = {i \div 2 : i \in KnownAt(indices, l - 1)}
        BY <1>2, <2>2
    <2>4. KnownAt(indices, l) = {i \div 2 : i \in KnownAt(indices, l - 1)}
        BY KnownHalves
    <2>5. l \in 0 .. Depth
        BY <1>0
    <2> HIDE DEF indices
    <2> QED BY <2>3, <2>4, <2>5
<1>3. \A l \in 0 .. Depth : l \in Good
    <2> HIDE DEF Good
    <2> QED BY <1>0, <1>1, <1>2, UpTo
<1> QED BY <1>3

\* What a computed digest is made of.
LEMMA FoldOnTheWay ==
    ASSUME NEW cohort, NEW held, AreFolds(held, cohort),
           NEW l \in 1 .. Depth, NEW k \in DOMAIN held[l - 1]
    PROVE  LET p == k \div 2
           IN  /\ p \in DOMAIN held[l]
               /\ held[l][p] = NodeHash(FoldChild(cohort, l, held[l - 1], 2 * p),
                                        FoldChild(cohort, l, held[l - 1], 2 * p + 1))
               /\ FoldChild(cohort, l, held[l - 1], k) = held[l - 1][k]
<1>1. held[l] = FoldStep(cohort, l, held[l - 1])
    BY DEF AreFolds
<1>2. k \div 2 \in {i \div 2 : i \in DOMAIN held[l - 1]}
    OBVIOUS
<1> QED BY <1>1, <1>2 DEF FoldStep, FoldChild

\* Soundness: when the fold arrives at the root of a tree, every digest on the
\* way up from one of the tree's positions is the tree's, the leaf's among them.
\* A leaf beyond the tree's width leads elsewhere, and nothing is known of it.
LEMMA OnlyHonestFolds ==
    ASSUME NEW map, Hashes(map), NEW cohort, CohortVerifies(Root(map), cohort),
           NEW i \in DOMAIN cohort.leaves, i \in LeafIndex
    PROVE  LeafHash(cohort.leaves[i]) = Node(map, 0, i)
<1> DEFINE at(l) == Ancestor(i, l)
<1>0. Depth \in Nat /\ 0 \in 0 .. Depth /\ Depth \in 0 .. Depth
    BY DepthAssumption
<1>1. PICK held : AreFolds(held, cohort) /\ CohortFold(cohort) = held[Depth]
    BY CohortFoldUnfolds
<1>2. /\ at(0) = i /\ at(Depth) = 0
      /\ \A l \in 0 .. Depth : at(l) \in LeafIndex
      /\ \A l \in 1 .. Depth : at(l) = at(l - 1) \div 2
    BY WayUp
<1> HIDE DEF at
<1> DEFINE Held == {l \in 0 .. Depth : at(l) \in DOMAIN held[l]}
           Good == {j \in 0 .. Depth : held[Depth - j][at(Depth - j)] = Node(map, Depth - j, at(Depth - j))}
<1>3. \A l \in 0 .. Depth : l \in Held
    <2>1. 0 \in Held
        BY <1>0, <1>1, <1>2 DEF AreFolds, FoldBase
    <2>2. ASSUME NEW l \in 1 .. Depth, l - 1 \in Held PROVE l \in Held
        <3>1. l \in 0 .. Depth /\ at(l - 1) \in DOMAIN held[l - 1] /\ at(l) = at(l - 1) \div 2
            BY <1>0, <1>2, <2>2
        <3> QED BY <1>1, <3>1, FoldOnTheWay
    <2> HIDE DEF Held
    <2> QED BY <1>0, <2>1, <2>2, UpTo
<1>4. 0 \in Good
    <2>1. Depth - 0 = Depth
        BY <1>0
    <2>2. held[Depth][0] = Root(map)
        BY <1>1 DEF CohortVerifies
    <2> QED BY <1>0, <1>2, <2>1, <2>2 DEF Root
<1>5. ASSUME NEW j \in 1 .. Depth, j - 1 \in Good PROVE j \in Good
    <2> DEFINE l == Depth - (j - 1)
               k == at(l - 1)
               p == k \div 2
    <2>1. l \in 1 .. Depth /\ Depth - j = l - 1 /\ j \in 0 .. Depth /\ l \in 0 .. Depth /\ l - 1 \in 0 .. Depth
        BY <1>0
    <2>2. held[l][at(l)] = Node(map, l, at(l))
        BY <1>5
    <2> HIDE DEF l
    <2>3. at(l) = p /\ k \in DOMAIN held[l - 1]
        BY <1>2, <1>3, <2>1
    <2>4. k \in Nat /\ p \in Nat /\ (k = 2 * p \/ k = 2 * p + 1)
        <3>1. k \in Nat
            BY <1>2, <2>1, CapacityAssumption DEF LeafIndex
        <3> QED BY <3>1, Pairs
    <2> HIDE DEF k
    <2>5. /\ held[l][p] = NodeHash(FoldChild(cohort, l, held[l - 1], 2 * p),
                                   FoldChild(cohort, l, held[l - 1], 2 * p + 1))
          /\ FoldChild(cohort, l, held[l - 1], k) = held[l - 1][k]
        BY <1>1, <2>1, <2>3, FoldOnTheWay
    <2>6. Node(map, l, p) = NodeHash(Node(map, l - 1, 2 * p), Node(map, l - 1, 2 * p + 1))
        BY <2>1, <2>4 DEF Hashes
    <2> HIDE DEF p
    <2>7. /\ FoldChild(cohort, l, held[l - 1], 2 * p) = Node(map, l - 1, 2 * p)
          /\ FoldChild(cohort, l, held[l - 1], 2 * p + 1) = Node(map, l - 1, 2 * p + 1)
        BY <2>2, <2>3, <2>5, <2>6, DigestsAreInjective
    <2>8. held[l - 1][k] = Node(map, l - 1, k)
        BY <2>4, <2>5, <2>7
    <2> QED BY <2>1, <2>8 DEF k
<1>6. held[0][i] = Node(map, 0, i)
    <2>1. Depth \in Good
        <3> HIDE DEF Good
        <3> QED BY <1>0, <1>4, <1>5, UpTo
    <2>2. Depth - Depth = 0
        BY <1>0
    <2> QED BY <1>2, <2>1, <2>2
<1> QED BY <1>1, <1>6 DEF AreFolds, FoldBase

\* The digests a cohort must carry: the siblings of known positions, unknown
\* themselves.  One that is not carried counts as an empty subtree.
CarriesFringe(cohort, map) ==
    \A l \in 0 .. Depth - 1, k \in Nat :
        k \notin KnownAt(DOMAIN cohort.leaves, l) /\ Sibling(k) \in KnownAt(DOMAIN cohort.leaves, l)
            => Node(cohort.nodes, l, k) = Node(map, l, k)

\* Completeness: leaves of a tree, with that fringe, fold to its root.
LEMMA HonestFold ==
    ASSUME NEW map, Hashes(map), NEW cohort, DOMAIN cohort.leaves \in SUBSET LeafIndex,
           DOMAIN cohort.leaves # {}, CarriesFringe(cohort, map),
           \A i \in DOMAIN cohort.leaves : LeafHash(cohort.leaves[i]) = Node(map, 0, i)
    PROVE  CohortVerifies(Root(map), cohort)
<1> DEFINE indices == DOMAIN cohort.leaves
           known(l) == KnownAt(indices, l)
<1>0. Depth \in Nat /\ 0 \in 0 .. Depth /\ Depth \in 0 .. Depth
    BY DepthAssumption
<1>1. PICK held : AreFolds(held, cohort) /\ CohortFold(cohort) = held[Depth]
    BY CohortFoldUnfolds
<1>2. /\ known(0) = indices
      /\ \A l \in 0 .. Depth : known(l) \subseteq LeafIndex
      /\ \A l \in 1 .. Depth : known(l) = {i \div 2 : i \in known(l - 1)}
      /\ known(Depth) = {0}
    BY KnownHalves
<1>3. \A l \in 0 .. Depth : DOMAIN held[l] = known(l)
    BY <1>1, FoldDomains
<1> DEFINE Good == {l \in 0 .. Depth : \A k \in known(l) : held[l][k] = Node(map, l, k)}
<1>4. 0 \in Good
    <2>1. held[0] = FoldBase(cohort) /\ known(0) = DOMAIN cohort.leaves
        BY <1>1, <1>2 DEF AreFolds
    <2> QED BY <1>0, <2>1 DEF FoldBase
<1>5. ASSUME NEW l \in 1 .. Depth, l - 1 \in Good PROVE l \in Good
    <2>1. l \in 0 .. Depth /\ l - 1 \in 0 .. Depth /\ l - 1 \in 0 .. Depth - 1
        BY <1>0
    <2>2. \A k \in known(l - 1) : held[l - 1][k] = Node(map, l - 1, k)
        BY <1>5
    <2>3. ASSUME NEW p \in known(l) PROVE held[l][p] = Node(map, l, p)
        <3>1. PICK k \in known(l - 1) : p = k \div 2
            BY <1>2
        <3>2. k \in Nat
            <4>1. k \in LeafIndex
                BY <1>2, <2>1
            <4> QED BY <4>1, CapacityAssumption DEF LeafIndex
        <3>3. p \in Nat /\ 2 * p \in Nat /\ 2 * p + 1 \in Nat
            BY <3>1, <3>2, Pairs
        <3>4. held[l][p] = NodeHash(FoldChild(cohort, l, held[l - 1], 2 * p),
                                    FoldChild(cohort, l, held[l - 1], 2 * p + 1))
            <4>1. k \in DOMAIN held[l - 1]
                BY <1>3, <2>1
            <4> QED BY <1>1, <3>1, <4>1, FoldOnTheWay
        <3>5. Node(map, l, p) = NodeHash(Node(map, l - 1, 2 * p), Node(map, l - 1, 2 * p + 1))
            BY <3>3 DEF Hashes
        <3>6. ASSUME NEW c \in {2 * p, 2 * p + 1}
              PROVE  FoldChild(cohort, l, held[l - 1], c) = Node(map, l - 1, c)
            <4>1. CASE c \in known(l - 1)
                BY <1>3, <2>1, <2>2, <4>1 DEF FoldChild
            <4>2. CASE c \notin known(l - 1)
                <5>1. c \in Nat /\ c # k
                    BY <3>3, <4>2
                <5>2. Sibling(c) = k
                    <6>1. k = 2 * p \/ k = 2 * p + 1
                        BY <3>1, <3>2, Pairs
                    <6>2. c \div 2 = p
                        BY <3>3
                    <6>3. Sibling(c) = IF c = 2 * p THEN 2 * p + 1 ELSE 2 * p
                        BY <5>1, <6>2, Pairs
                    <6> QED BY <3>3, <5>1, <6>1, <6>3
                <5>3. Node(cohort.nodes, l - 1, c) = Node(map, l - 1, c)
                    BY <2>1, <4>2, <5>1, <5>2 DEF CarriesFringe
                <5> QED BY <1>3, <2>1, <4>2, <5>3 DEF FoldChild
            <4> QED BY <4>1, <4>2
        <3> QED BY <3>4, <3>5, <3>6
    <2> QED BY <2>1, <2>3
<1>6. Depth \in Good
    <2> HIDE DEF Good
    <2> QED BY <1>0, <1>4, <1>5, UpTo
<1>7. 0 \in known(Depth) /\ held[Depth][0] = Node(map, Depth, 0)
    BY <1>2, <1>6
<1> QED BY <1>0, <1>1, <1>3, <1>7 DEF CohortVerifies, Root

\* What the bridge sends is that fringe.
LEMMA DedupIsTheFringe ==
    ASSUME NEW cohort, DOMAIN cohort.leaves \in SUBSET LeafIndex,
           cohort.nodes = DedupPaths(DOMAIN cohort.leaves)
    PROVE  CarriesFringe(cohort, nodes)
<1> DEFINE indices == DOMAIN cohort.leaves
<1> SUFFICES ASSUME NEW l \in 0 .. Depth - 1, NEW k \in Nat,
                    k \notin KnownAt(indices, l), Sibling(k) \in KnownAt(indices, l)
             PROVE  Node(cohort.nodes, l, k) = Node(nodes, l, k)
    BY DEF CarriesFringe
<1>1. k \in LeafIndex
    <2>1. Sibling(k) \in LeafIndex
        <3>1. l \in 0 .. Depth
            BY DepthAssumption
        <3> QED BY <3>1, KnownHalves
    <2>2. PICK half \in Nat : Capacity = 2 * half
        <3>1. Depth \in 1 .. Depth /\ Depth - 1 \in 0 .. Depth
            BY DepthAssumption
        <3> QED BY <3>1, Powers
    <2>3. Sibling(k) < 2 * half /\ Sibling(k) \in Nat
        BY <2>1, <2>2, CapacityAssumption DEF LeafIndex
    <2>4. k < 2 * half
        BY <2>2, <2>3, Pairs
    <2> QED BY <2>2, <2>4, CapacityAssumption DEF LeafIndex
<1>2. \A at \in DOMAIN DedupPaths(indices) : DedupPaths(indices)[at] = Node(nodes, at[1], at[2])
    BY DEF DedupPaths
<1>3. <<l, k>> \in DOMAIN DedupPaths(indices) <=> Node(nodes, l, k) # Zero[l]
    BY <1>1 DEF DedupPaths
<1>4. CASE <<l, k>> \in DOMAIN DedupPaths(indices)
    BY <1>2, <1>4 DEF Node
<1>5. CASE <<l, k>> \notin DOMAIN DedupPaths(indices)
    BY <1>3, <1>5 DEF Node
<1> QED BY <1>4, <1>5

\* A cohort as the wallet's types allow it: any leaves at any indices, and any
\* nodes.  Nothing keeps an index below the width of the tree.
Cohorts(cohort) ==
    /\ DOMAIN cohort.leaves \in SUBSET Nat
    /\ \A i \in DOMAIN cohort.leaves : cohort.leaves[i] \in Leaf

\* The indices within the tree's width.
WithinTheTree(cohort) == DOMAIN cohort.leaves \cap LeafIndex

\* What verifies holds, at the tree's indices, the tree's leaves.
LEMMA VerifiedLeavesAreTheTrees ==
    ASSUME DigestInv, NEW cohort, Cohorts(cohort), CohortVerifies(Root(nodes), cohort)
    PROVE  \A i \in WithinTheTree(cohort) :
               i + 1 \in 1 .. LeafCount /\ cohort.leaves[i] = leaves[i + 1]
<1>1. Hashes(nodes)
    BY DEF DigestInv, MerkleMap
<1>2. \A i \in WithinTheTree(cohort) : LeafHash(cohort.leaves[i]) = Node(nodes, 0, i)
    BY <1>1, OnlyHonestFolds DEF WithinTheTree
<1> SUFFICES ASSUME NEW i \in WithinTheTree(cohort)
             PROVE  i + 1 \in 1 .. LeafCount /\ cohort.leaves[i] = leaves[i + 1]
    OBVIOUS
<1> DEFINE leaf == cohort.leaves[i]
<1>3. i \in LeafIndex /\ leaf \in Leaf /\ LeafHash(leaf) = Node(nodes, 0, i)
    BY <1>2 DEF Cohorts, WithinTheTree
<1>4. i \in Nat /\ LeafCount \in Nat
    BY <1>3, LeafTypes, CapacityAssumption DEF DigestInv, ImtInv, LeafIndex
<1>5. i < LeafCount
    <2> SUFFICES ASSUME ~(i < LeafCount) PROVE FALSE
        OBVIOUS
    <2>1. Node(nodes, 0, i) = EmptyLeaf
        BY <1>3, LeafDigest
    <2> QED BY <1>3, <2>1, DigestsAreInjective
<1>6. i + 1 \in 1 .. LeafCount
    BY <1>4, <1>5
<1>7. LeafHash(leaf) = LeafHash(leaves[i + 1]) /\ leaves[i + 1] \in Leaf
    BY <1>3, <1>5, <1>6, LeafDigest, LeafTypes DEF LeafAt, DigestInv, ImtInv
<1> QED BY <1>3, <1>6, <1>7, DigestsAreInjective

\* What the wallet answers, case by case.
LEMMA ResolveCases ==
    ASSUME NEW held, NEW range, NEW v
    PROVE  /\ ~InRange(range, v) => Resolve(held, range, v) = Refused
           /\ InRange(range, v) /\ (\E leaf \in held : leaf.value = v) => Resolve(held, range, v) = Spent
           /\ InRange(range, v) /\ ~(\E leaf \in held : leaf.value = v) =>
                  /\ Resolve(held, range, v) \in {Refused, Unspent}
                  /\ Resolve(held, range, v) = Unspent <=>
                         \E leaf \in held :
                             /\ leaf.value < v /\ Covers(leaf, v)
                             /\ \A other \in held : other.value < v => other.value <= leaf.value
    BY DEF Resolve, Refused, Unspent

\* A range or a list that holds leaves of the tree settles nothing wrongly.
LEMMA LeavesSettleTruly ==
    ASSUME DigestInv, NEW held, \A leaf \in held : \E j \in 1 .. LeafCount : leaf = leaves[j],
           NEW range, NEW v \in Value
    PROVE  Resolve(held, range, v) \in {Refused, Truth(v)}
<1>1. ImtInv
    BY DEF DigestInv
<1>2. CASE ~InRange(range, v)
    BY <1>2, ResolveCases
<1>3. CASE InRange(range, v) /\ \E leaf \in held : leaf.value = v
    <2>1. Contains(v)
        BY <1>1, <1>3, Stored
    <2> QED BY <1>3, <2>1, ResolveCases DEF Truth
<1>4. CASE InRange(range, v) /\ ~(\E leaf \in held : leaf.value = v)
    <2>1. CASE Resolve(held, range, v) = Refused
        BY <2>1
    <2>2. CASE Resolve(held, range, v) = Unspent
        <3>1. PICK leaf \in held : Covers(leaf, v)
            BY <1>4, <2>2, ResolveCases
        <3>2. PICK j \in 1 .. LeafCount : leaf = leaves[j]
            OBVIOUS
        <3>3. ~Contains(v)
            BY <1>1, <3>1, <3>2, CoveringLeafWitnessesAbsence, Stored
        <3> QED BY <2>2, <3>3 DEF Truth
    <2> QED BY <1>4, <2>1, <2>2, ResolveCases
<1> QED BY <1>2, <1>3, <1>4

\* Whatever leaves, indices and digests a cohort is made of: if it verifies, its
\* leaves within the tree's width are the tree's, and settle nothing wrongly.  So
\* a cohort that has no others never misleads.
NoCohortMisleads ==
    \A cohort : Cohorts(cohort) /\ CohortVerifies(Root(nodes), cohort) =>
        /\ \A i \in WithinTheTree(cohort) : i < LeafCount /\ cohort.leaves[i] = LeafAt(i)
        /\ \A v \in Value :
               /\ Resolve({cohort.leaves[i] : i \in WithinTheTree(cohort)}, cohort.range, v)
                      \in {Refused, Truth(v)}
               /\ DOMAIN cohort.leaves \subseteq LeafIndex =>
                      Answer(cohort, v) \in {Refused, Truth(v)}

\* What verifies holds leaves of the tree, and those settle nothing wrongly.
LEMMA CohortsAreSound == DigestInv => NoCohortMisleads
<1> SUFFICES ASSUME DigestInv, NEW cohort, Cohorts(cohort), CohortVerifies(Root(nodes), cohort)
             PROVE  /\ \A i \in WithinTheTree(cohort) :
                           i < LeafCount /\ cohort.leaves[i] = LeafAt(i)
                    /\ \A v \in Value :
                           /\ Resolve({cohort.leaves[i] : i \in WithinTheTree(cohort)},
                                      cohort.range, v) \in {Refused, Truth(v)}
                           /\ DOMAIN cohort.leaves \subseteq LeafIndex =>
                                  Answer(cohort, v) \in {Refused, Truth(v)}
    BY DEF NoCohortMisleads
<1> DEFINE held == {cohort.leaves[i] : i \in WithinTheTree(cohort)}
<1>1. \A i \in WithinTheTree(cohort) : i + 1 \in 1 .. LeafCount /\ cohort.leaves[i] = leaves[i + 1]
    BY VerifiedLeavesAreTheTrees
<1>2. \A i \in WithinTheTree(cohort) : i < LeafCount /\ cohort.leaves[i] = LeafAt(i)
    <2>1. LeafCount \in Nat
        BY LeafTypes DEF DigestInv, ImtInv
    <2>2. \A i \in WithinTheTree(cohort) : i \in Nat
        BY DEF WithinTheTree, Cohorts
    <2> QED BY <1>1, <2>1, <2>2 DEF LeafAt
<1>3. \A leaf \in held : \E j \in 1 .. LeafCount : leaf = leaves[j]
    BY <1>1
<1>4. ASSUME NEW v \in Value PROVE Resolve(held, cohort.range, v) \in {Refused, Truth(v)}
    <2> HIDE DEF held
    <2> QED BY <1>3, LeavesSettleTruly
<1>5. ASSUME NEW v \in Value, DOMAIN cohort.leaves \subseteq LeafIndex
      PROVE  Answer(cohort, v) \in {Refused, Truth(v)}
    <2>1. held = Range(cohort.leaves)
        BY <1>5 DEF WithinTheTree, Range
    <2> HIDE DEF held
    <2> QED BY <1>4, <2>1 DEF Answer
<1> QED BY <1>2, <1>4, <1>5

\* cohort.rs, verify_cohort and resolve: whatever cohort a wallet is handed, what
\* it learns from the leaves whose index is one of the tree's is true, or the
\* cohort does not verify, or the wallet refuses.  Other indices the code neither
\* refuses nor ties to the root.
THEOREM CohortsNeverMislead == Spec => []NoCohortMisleads
    BY CohortsAreSound, DigestAlways, PTL

\* cohort.rs, resolve: a cohort with leaves missing or at each other's
\* positions never settles a value wrongly.
THEOREM ShortCohortsNeverMislead == Spec => []ShortCohortNeverMisleads
<1>1. DigestInv => ShortCohortNeverMisleads
    <2> SUFFICES ASSUME DigestInv, NEW indices \in SUBSET (0 .. LeafCount - 1),
                        NEW at \in indices, NEW other \in 0 .. LeafCount - 1,
                        NEW v \in Value, NEW bits \in PrefixBits
                 PROVE  LET held == [i \in indices |-> IF i = at THEN LeafAt(other) ELSE LeafAt(i)]
                        IN  Answer([range |-> Covering(v, bits), leaves |-> held,
                                    nodes |-> DedupPaths(indices)], v) \in {Refused, Truth(v)}
        BY DEF ShortCohortNeverMisleads
    <2> DEFINE held == [i \in indices |-> IF i = at THEN LeafAt(other) ELSE LeafAt(i)]
               cohort == [range |-> Covering(v, bits), leaves |-> held, nodes |-> DedupPaths(indices)]
    <2>1. \A i \in 0 .. LeafCount - 1 : i \in LeafIndex /\ LeafAt(i) \in Leaf
        <3>1. /\ LeafCount \in Nat /\ LeafCount <= Capacity
              /\ \A i \in 1 .. LeafCount : leaves[i] \in Leaf
            BY LeafTypes DEF DigestInv, ImtInv
        <3> QED BY <3>1, CapacityAssumption DEF LeafIndex, LeafAt
    <2>2. DOMAIN held = indices /\ \A i \in indices : held[i] \in Leaf
        BY <2>1
    <2>3. cohort.leaves = held
        OBVIOUS
    <2> HIDE DEF held
    <2>4. Cohorts(cohort) /\ DOMAIN cohort.leaves \subseteq LeafIndex
        <3>1. indices \in SUBSET LeafIndex /\ indices \in SUBSET Nat
            <4>1. LeafIndex \in SUBSET Nat
                BY CapacityAssumption DEF LeafIndex
            <4> QED BY <2>1, <4>1
        <3> HIDE DEF cohort
        <3> QED BY <2>2, <2>3, <3>1 DEF Cohorts
    <2>5. Answer(cohort, v) \in {Refused, Truth(v)}
        <3> HIDE DEF cohort
        <3>1. CASE CohortVerifies(Root(nodes), cohort)
            BY <2>4, <3>1, CohortsAreSound DEF NoCohortMisleads
        <3>2. CASE ~CohortVerifies(Root(nodes), cohort)
            BY <3>2 DEF Answer
        <3> QED BY <3>1, <3>2
    <2> QED BY <2>5 DEF held
<1> QED BY <1>1, DigestAlways, PTL

\* The value index finds the leaf that holds the value.
LEMMA IndexFinds ==
    ASSUME ImtInv, NEW u \in DOMAIN index_by_value
    PROVE  /\ u \in Nat /\ index_by_value[u] \in LeafIndex /\ index_by_value[u] + 1 \in 1 .. LeafCount
           /\ LeafAt(index_by_value[u]).value = u
<1>1. TypeOK /\ IndexAgrees
    BY DEF ImtInv, SortedListWithoutGaps
<1>2. u \in Nat /\ index_by_value[u] \in LeafIndex
    <2>1. u \in Value \cup {ZERO} /\ index_by_value[u] \in LeafIndex
        BY <1>1 DEF TypeOK
    <2>2. Value \cup {ZERO} \subseteq Nat
        BY ValueAssumption DEF ZERO
    <2> QED BY <2>1, <2>2
<1>3. PICK j \in 1 .. LeafCount : leaves[j].value = u
    BY <1>1 DEF IndexAgrees
<1>4. index_by_value[u] = j - 1
    BY <1>1, <1>3 DEF IndexAgrees
<1>5. (j - 1) + 1 = j
    BY LeafTypes, <1>1
<1> QED BY <1>2, <1>3, <1>4, <1>5 DEF LeafAt

\* The bucket of a value holds it, and everything from its lower bound up to it.
LEMMA BucketHolds ==
    ASSUME NEW v \in Nat, NEW bits \in PrefixBits
    PROVE  /\ InRange(Covering(v, bits), v)
           /\ Covering(v, bits).lo \in Nat
           /\ \A u \in Nat : Covering(v, bits).lo <= u /\ u <= v => InRange(Covering(v, bits), u)
<1> DEFINE width == 2 ^ (ValueBits - bits)
           lo    == v - (v % width)
<1>1. width \in Nat \ {0}
    <2>1. ValueBits - bits \in 0 .. ValueBits
        BY ValueBitsAssumption DEF PrefixBits
    <2> QED BY <2>1, BucketAssumption
<1>2. Covering(v, bits).lo = lo
    BY DEF Covering
<1>3. Covering(v, bits).hi = Unbounded \/ Covering(v, bits).hi = lo + width
    BY DEF Covering
<1> HIDE DEF width
<1>4. v % width \in 0 .. width - 1 /\ v % width <= v
    <2> DEFINE q == v \div width
               r == v % width
    <2>1. r \in 0 .. width - 1
        BY <1>1
    <2>2. v = width * q + r
        BY <1>1
    <2>3. q \in Nat
        BY <1>1
    <2> HIDE DEF q, r
    <2>4. width * q \in Nat
        BY <1>1, <2>3
    <2>5. r <= v
        BY <2>1, <2>2, <2>4, <1>1
    <2> QED BY <2>1, <2>5 DEF r
<1>5. lo \in Nat /\ lo <= v /\ v < lo + width
    BY <1>1, <1>4
<1> HIDE DEF lo
<1>6. \A u \in Nat : lo <= u /\ u <= v => InRange(Covering(v, bits), u)
    BY <1>1, <1>2, <1>3, <1>5 DEF InRange
<1> QED BY <1>2, <1>5, <1>6

\* What the bridge answers: the values of the range and the greatest below it.
LEMMA CohortMembers ==
    ASSUME ImtInv, NEW range, range.lo \in Nat
    PROVE  /\ \A i \in CohortIndices(range) : i \in LeafIndex /\ i + 1 \in 1 .. LeafCount
           /\ \A u \in DOMAIN index_by_value : InRange(range, u) => index_by_value[u] \in CohortIndices(range)
           /\ \A u \in DOMAIN index_by_value :
                  u < range.lo /\ (\A w \in DOMAIN index_by_value : w < range.lo => w <= u)
                      => index_by_value[u] \in CohortIndices(range)
<1> DEFINE stored == DOMAIN index_by_value
           below  == {u \in stored : u < range.lo}
           inside == {u \in stored : InRange(range, u)}
           chosen == IF below = {} THEN inside ELSE inside \cup {Max(below)}
<1>1. CohortIndices(range) = {index_by_value[u] : u \in chosen}
    BY DEF CohortIndices
<1>2. /\ \A u \in stored : u \in Nat /\ index_by_value[u] \in LeafIndex
      /\ \A u \in stored : index_by_value[u] + 1 \in 1 .. LeafCount
    BY IndexFinds
<1>3. below # {} => Max(below) \in below /\ \A w \in below : w <= Max(below)
    <2>1. below \in SUBSET Nat /\ \A u \in below : u <= range.lo
        BY <1>2
    <2> HIDE DEF below
    <2> QED BY <2>1, BoundedMax
<1> HIDE DEF stored
<1>4. chosen \in SUBSET stored
    BY <1>3
<1>5. ASSUME NEW u \in stored, u < range.lo, \A w \in stored : w < range.lo => w <= u
      PROVE  u \in chosen
    <2>1. u \in below /\ below # {}
        BY <1>5
    <2>2. Max(below) \in stored /\ u <= Max(below) /\ Max(below) <= u
        BY <1>3, <1>5, <2>1
    <2>3. Max(below) = u
        BY <1>2, <2>2
    <2> QED BY <2>1, <2>3
<1>6. \A u \in stored : InRange(range, u) => u \in chosen
    OBVIOUS
<1> HIDE DEF chosen
<1> QED BY <1>1, <1>2, <1>4, <1>5, <1>6 DEF stored

\* ... and it verifies.
LEMMA CohortsVerify ==
    ASSUME DigestInv, NEW range, range.lo \in Nat, CohortIndices(range) # {}
    PROVE  CohortVerifies(Root(nodes), ProvePrefixCohort(range))
<1> DEFINE indices == CohortIndices(range)
           cohort  == ProvePrefixCohort(range)
<1>1. ImtInv /\ Hashes(nodes)
    BY DEF DigestInv, MerkleMap
<1>2. \A i \in indices : i \in LeafIndex /\ i + 1 \in 1 .. LeafCount
    BY <1>1, CohortMembers
<1>3. /\ cohort.leaves = [i \in indices |-> LeafAt(i)]
      /\ cohort.nodes = DedupPaths(indices)
    BY DEF ProvePrefixCohort
<1> HIDE DEF indices, cohort
<1>4. DOMAIN cohort.leaves = indices /\ indices \in SUBSET LeafIndex
    BY <1>2, <1>3
<1>5. CarriesFringe(cohort, nodes)
    BY <1>3, <1>4, DedupIsTheFringe
<1>6. ASSUME NEW i \in indices PROVE LeafHash(cohort.leaves[i]) = Node(nodes, 0, i)
    <2>1. i \in LeafIndex /\ i < LeafCount
        BY <1>1, <1>2, LeafTypes, CapacityAssumption DEF ImtInv, LeafIndex
    <2> QED BY <1>3, <2>1, LeafDigest
<1>7. indices # {}
    BY DEF indices
<1> QED BY <1>1, <1>4, <1>5, <1>6, <1>7, HonestFold DEF cohort

\* ... and settles every value of its bucket.
LEMMA CohortsSettle == DigestInv => CohortSettlesEveryValue
<1> SUFFICES ASSUME DigestInv, NEW v \in Value, NEW bits \in PrefixBits
             PROVE  Answer(ProvePrefixCohort(Covering(v, bits)), v) = Truth(v)
    BY DEF CohortSettlesEveryValue
<1> DEFINE range   == Covering(v, bits)
           indices == CohortIndices(range)
           cohort  == ProvePrefixCohort(range)
           held    == Range(cohort.leaves)
<1>1. ImtInv /\ v \in Nat
    BY ValueAssumption DEF DigestInv
<1>2. /\ InRange(range, v) /\ range.lo \in Nat
      /\ \A u \in Nat : range.lo <= u /\ u <= v => InRange(range, u)
    BY <1>1, BucketHolds
<1> HIDE DEF range
<1>3. /\ cohort.leaves = [i \in indices |-> LeafAt(i)]
      /\ cohort.range = range
    BY DEF ProvePrefixCohort
<1>4. held = {LeafAt(i) : i \in indices}
    BY <1>3 DEF Range
<1>5. \A leaf \in held : leaf.value \in DOMAIN index_by_value
    <2>1. \A i \in indices : i + 1 \in 1 .. LeafCount
        BY <1>1, <1>2, CohortMembers
    <2>2. \A j \in 1 .. LeafCount : leaves[j].value \in DOMAIN index_by_value
        BY <1>1, Stored DEF Contains
    <2> QED BY <1>4, <2>1, <2>2 DEF LeafAt
<1> HIDE DEF cohort, held
<1>6. ASSUME indices # {} PROVE Answer(cohort, v) = Resolve(held, range, v)
    BY <1>2, <1>3, <1>6, CohortsVerify DEF Answer, cohort, held
<1>7. CASE Contains(v)
    <2> DEFINE i == index_by_value[v]
    <2>1. v \in DOMAIN index_by_value
        BY <1>7 DEF Contains
    <2>2. i \in indices /\ LeafAt(i).value = v
        BY <1>1, <1>2, <2>1, CohortMembers, IndexFinds
    <2>3. Resolve(held, range, v) = Spent
        BY <1>2, <1>4, <2>2, ResolveCases
    <2> QED BY <1>6, <1>7, <2>2, <2>3 DEF Truth, cohort, range
<1>8. CASE ~Contains(v)
    <2> DEFINE stored == DOMAIN index_by_value
               m   == Max({u \in stored : u <= v})
               low == LowLeaf(v)
    <2>1. m \in stored /\ m <= v /\ \A u \in stored : u <= v => u <= m
        <3> DEFINE below == {u \in stored : u <= v}
        <3>1. below \in SUBSET Nat /\ \A u \in below : u <= v
            BY <1>1, IndexFinds
        <3>2. 0 \in below
            <4>1. 0 \in stored
                BY <1>1, LeafTypes DEF ImtInv, SortedListWithoutGaps, DistinctValues, IndexAgrees, ZERO
            <4> QED BY <1>1, <4>1
        <3>3. Max(below) \in below /\ \A u \in below : u <= Max(below)
            <4> HIDE DEF below
            <4> QED BY <1>1, <3>1, <3>2, BoundedMax
        <3> QED BY <3>3
    <2>2. /\ low = LeafAt(index_by_value[m])
          /\ Covers(low, v)
        BY <1>1, <1>8, LowLeafCovers DEF LowLeaf, LowLeafIndex
    <2> HIDE DEF m, low
    <2>3. m \in Nat /\ low.value = m
        BY <1>1, <2>1, <2>2, IndexFinds
    <2>4. index_by_value[m] \in indices
        <3>1. CASE range.lo <= m
            BY <1>1, <1>2, <2>1, <2>3, <3>1, CohortMembers
        <3>2. CASE ~(range.lo <= m)
            <4>1. m < range.lo
                BY <1>2, <2>3, <3>2
            <4>2. ASSUME NEW w \in stored, w < range.lo PROVE w <= m
                <5>1. w \in Nat
                    BY <1>1, IndexFinds
                <5>2. range.lo <= v
                    BY <1>1, <1>2 DEF InRange
                <5> QED BY <1>1, <1>2, <2>1, <4>2, <5>1, <5>2
            <4> QED BY <1>1, <1>2, <2>1, <4>1, <4>2, CohortMembers
        <3> QED BY <3>1, <3>2
    <2>5. low \in held
        BY <1>4, <2>2, <2>4
    <2>6. \A other \in held : other.value < v => other.value <= low.value
        <3> SUFFICES ASSUME NEW other \in held, other.value < v PROVE other.value <= low.value
            OBVIOUS
        <3>1. other.value \in stored /\ other.value \in Nat
            BY <1>1, <1>5, IndexFinds
        <3> QED BY <1>1, <2>1, <2>3, <3>1
    <2>7. ~ \E leaf \in held : leaf.value = v
        BY <1>5, <1>8 DEF Contains
    <2>8. low.value < v
        BY <2>2 DEF Covers
    <2>9. Resolve(held, range, v) = Unspent
        BY <1>2, <2>2, <2>5, <2>6, <2>7, <2>8, ResolveCases
    <2> QED BY <1>6, <1>8, <2>4, <2>9 DEF Truth, cohort, range
<1> QED BY <1>7, <1>8

\* cohort.rs, prove_prefix_cohort: at every depth, the cohort of any prefix
\* verifies against the tree's root and settles every value with that prefix.
THEOREM CohortsSettleEveryValue == Spec => []CohortSettlesEveryValue
    BY CohortsSettle, DigestAlways, PTL

----------------------------------------------------------------------------
(* Sorted snapshots.                                                       *)

Rank(S, u) == Cardinality({w \in S : w < u})

\* In a finite set of numbers, every rank up to its size is somebody's, and a
\* larger number's rank is larger.
LEMMA Ranks ==
    ASSUME NEW S \in SUBSET Nat, IsFiniteSet(S)
    PROVE  /\ Cardinality(S) \in Nat
           /\ \A r \in 0 .. Cardinality(S) - 1 : \E u \in S : Rank(S, u) = r
           /\ \A u, t \in S : u < t => Rank(S, u) < Rank(S, t)
           /\ \A u \in S : Rank(S, u) \in 0 .. Cardinality(S) - 1
<1> DEFINE n == Cardinality(S)
           below(u) == {w \in S : w < u}
           rank == [u \in S |-> Rank(S, u)]
<1>1. n \in Nat
    BY FS_CardinalityType
<1>2. ASSUME NEW u \in S
      PROVE  IsFiniteSet(below(u)) /\ Rank(S, u) \in Nat /\ Rank(S, u) < n
    <2>1. below(u) \in SUBSET S
        OBVIOUS
    <2>2. u \notin below(u)
        OBVIOUS
    <2> HIDE DEF below
    <2>3. IsFiniteSet(below(u)) /\ Cardinality(below(u)) <= n /\ Cardinality(below(u)) # n
        BY <2>1, <2>2, FS_Subset
    <2>4. Cardinality(below(u)) \in Nat
        BY <2>3, FS_CardinalityType
    <2> QED BY <1>1, <2>3, <2>4 DEF Rank, below
<1>8. \A u \in S : Rank(S, u) \in Nat /\ Rank(S, u) < n
    BY <1>2
<1>3. ASSUME NEW u \in S, NEW t \in S, u < t
      PROVE  Rank(S, u) < Rank(S, t)
    <2>0. u \in Nat /\ t \in Nat
        OBVIOUS
    <2>1. below(u) \in SUBSET below(t) /\ u \in below(t) /\ u \notin below(u)
        <3>1. \A w \in S : w \in Nat /\ (w < u => w < t)
            BY <1>3, <2>0
        <3>2. ~(u < u)
            BY <2>0
        <3> QED BY <1>3, <3>1, <3>2
    <2>2. IsFiniteSet(below(t)) /\ Rank(S, u) \in Nat /\ Rank(S, t) \in Nat
        BY <1>2
    <2> HIDE DEF below
    <2>3. Cardinality(below(u)) <= Cardinality(below(t)) /\ Cardinality(below(u)) # Cardinality(below(t))
        BY <2>1, <2>2, FS_Subset
    <2> QED BY <2>2, <2>3 DEF Rank, below
<1> HIDE DEF n
<1>4. rank \in Injection(S, 0 .. n - 1)
    <2>1. \A u \in S : Rank(S, u) \in 0 .. n - 1
        BY <1>1, <1>8
    <2>2. \A u, t \in S : Rank(S, u) = Rank(S, t) => u = t
        <3> SUFFICES ASSUME NEW u \in S, NEW t \in S, u # t PROVE Rank(S, u) # Rank(S, t)
            OBVIOUS
        <3>1. CASE u < t
            BY <1>8, <1>3, <3>1
        <3>2. CASE t < u
            BY <1>8, <1>3, <3>2
        <3> QED BY <3>1, <3>2
    <2> QED BY <2>1, <2>2 DEF Injection, IsInjective
<1>5. IsFiniteSet(0 .. n - 1) /\ Cardinality(0 .. n - 1) = n
    BY <1>1, FS_Interval
<1>6. rank \in Surjection(S, 0 .. n - 1)
    <2> HIDE DEF rank
    <2> QED BY <1>4, <1>5, FS_Injection DEF n
<1>7. \A r \in 0 .. n - 1 : \E u \in S : Rank(S, u) = r
    BY <1>6 DEF Surjection
<1>9. \A u \in S : Rank(S, u) \in 0 .. n - 1
    BY <1>1, <1>8
<1>10. \A u, t \in S : u < t => Rank(S, u) < Rank(S, t)
    BY <1>3
<1> QED BY <1>1, <1>7, <1>9, <1>10 DEF n

\* The stored values in ascending order, each of them once.
AscendingValues(values) ==
    /\ values \in Seq(Nat) /\ Len(values) = LeafCount
    /\ \A i \in 1 .. LeafCount : values[i] \in DOMAIN index_by_value
    /\ \A u \in DOMAIN index_by_value : \E i \in 1 .. LeafCount : values[i] = u
    /\ \A i, j \in 1 .. LeafCount : i < j => values[i] < values[j]

\* There are as many as there are leaves.
LEMMA StoredCount ==
    ASSUME ImtInv
    PROVE  /\ DOMAIN index_by_value \in SUBSET Nat
           /\ IsFiniteSet(DOMAIN index_by_value)
           /\ Cardinality(DOMAIN index_by_value) = LeafCount
<1> DEFINE stored == DOMAIN index_by_value
           value  == [i \in 1 .. LeafCount |-> leaves[i].value]
<1>1. LeafCount \in Nat /\ stored = {leaves[i].value : i \in 1 .. LeafCount}
    BY LeafTypes DEF ImtInv, SortedListWithoutGaps, IndexAgrees
<1>2. \A i, j \in 1 .. LeafCount : leaves[i].value = leaves[j].value => i = j
    BY DEF ImtInv, SortedListWithoutGaps, DistinctValues
<1>3. value \in Bijection(1 .. LeafCount, stored)
    BY <1>1, <1>2 DEF Bijection, Injection, Surjection, IsInjective
<1> HIDE DEF value
<1>4. ExistsBijection(1 .. LeafCount, stored)
    BY <1>3 DEF ExistsBijection
<1>5. IsFiniteSet(stored) /\ Cardinality(stored) = LeafCount
    BY <1>1, <1>4, FS_NatBijection, FS_CountingElements
<1>6. stored \in SUBSET Nat
    BY IndexFinds
<1> QED BY <1>5, <1>6

\* sorted_values is that order.
LEMMA SortingOrders == ASSUME ImtInv PROVE AscendingValues(SortedValues)
<1> DEFINE stored == DOMAIN index_by_value
           n == LeafCount
           values == SortedValues
           at(i) == CHOOSE u \in stored : Rank(stored, u) = i - 1
<1>1. n \in Nat /\ stored \in SUBSET Nat /\ IsFiniteSet(stored) /\ Cardinality(stored) = n
    BY StoredCount, LeafTypes DEF ImtInv
<1>2. values = [i \in 1 .. n |-> at(i)]
    BY <1>1 DEF SortedValues, Rank
<1> HIDE DEF stored, n
<1>3. /\ \A r \in 0 .. n - 1 : \E u \in stored : Rank(stored, u) = r
      /\ \A u, t \in stored : u < t => Rank(stored, u) < Rank(stored, t)
      /\ \A u \in stored : Rank(stored, u) \in 0 .. n - 1
    BY <1>1, Ranks
<1>4. ASSUME NEW i \in 1 .. n PROVE at(i) \in stored /\ Rank(stored, at(i)) = i - 1
    <2>1. i - 1 \in 0 .. n - 1
        BY <1>1
    <2> QED BY <1>3, <2>1
<1>5. \A i \in 1 .. n : values[i] \in stored /\ Rank(stored, values[i]) = i - 1
    BY <1>2, <1>4
<1> HIDE DEF values, at
<1>6. ASSUME NEW i \in 1 .. n, NEW j \in 1 .. n, i < j PROVE values[i] < values[j]
    <2>1. /\ values[i] \in stored /\ Rank(stored, values[i]) = i - 1
          /\ values[j] \in stored /\ Rank(stored, values[j]) = j - 1
        BY <1>5
    <2>2. values[i] \in Nat /\ values[j] \in Nat
        BY <1>1, <2>1
    <2> SUFFICES ASSUME ~(values[i] < values[j]) PROVE FALSE
        OBVIOUS
    <2>3. CASE values[i] = values[j]
        BY <1>1, <1>6, <2>1, <2>3
    <2>4. CASE values[j] < values[i]
        <3>1. Rank(stored, values[j]) < Rank(stored, values[i])
            BY <1>3, <2>1, <2>4
        <3> QED BY <1>1, <1>6, <2>1, <3>1
    <2> QED BY <2>2, <2>3, <2>4
<1>7. ASSUME NEW u \in stored PROVE \E i \in 1 .. n : values[i] = u
    <2> DEFINE i == Rank(stored, u) + 1
    <2>1. i \in 1 .. n /\ Rank(stored, u) \in 0 .. n - 1 /\ i - 1 = Rank(stored, u)
        BY <1>1, <1>3
    <2> HIDE DEF i
    <2>2. values[i] \in stored /\ Rank(stored, values[i]) = i - 1
        BY <1>5, <2>1
    <2>3. values[i] \in Nat /\ u \in Nat
        BY <1>1, <2>2
    <2>4. CASE values[i] < u
        BY <1>3, <2>1, <2>2, <2>4
    <2>5. CASE u < values[i]
        BY <1>3, <2>1, <2>2, <2>5
    <2> QED BY <2>1, <2>3, <2>4, <2>5
<1>8. values \in Seq(Nat) /\ Len(values) = n
    <2>1. values \in [1 .. n -> Nat]
        BY <1>1, <1>2, <1>5
    <2> QED BY <1>1, <2>1, SeqDef
<1> QED BY <1>5, <1>6, <1>7, <1>8 DEF AscendingValues, stored, n, values

\* How many values are below a bound: those up to a position.
LEMMA CountsPrefix ==
    ASSUME NEW values, AscendingValues(values), ImtInv, NEW bound \in Int
    PROVE  /\ CountBelow(values, bound) \in 0 .. LeafCount
           /\ \A i \in 1 .. LeafCount : values[i] < bound <=> i <= CountBelow(values, bound)
<1> DEFINE n == LeafCount
           S == {i \in 1 .. n : values[i] < bound}
<1>1. /\ n \in Nat /\ CountBelow(values, bound) = Cardinality(S)
      /\ \A i \in 1 .. n : values[i] \in Nat
      /\ \A i, j \in 1 .. n : i < j => values[i] < values[j]
    BY LeafTypes DEF AscendingValues, CountBelow, ImtInv
<1> HIDE DEF n
<1>2. CASE S = {}
    BY <1>1, <1>2, FS_EmptySet DEF n
<1>3. CASE S # {}
    <2> DEFINE m == Max(S)
    <2>1. m \in S /\ \A i \in S : i <= m
        <3>1. S \in SUBSET Nat /\ \A i \in S : i <= n
            BY <1>1
        <3> HIDE DEF S
        <3> QED BY <1>1, <1>3, <3>1, BoundedMax
    <2> HIDE DEF m
    <2>2. S = 1 .. m /\ m \in 1 .. n
        <3>1. ASSUME NEW i \in 1 .. m PROVE i \in S
            <4>1. i \in 1 .. n /\ m \in 1 .. n /\ values[m] < bound
                BY <1>1, <2>1
            <4>2. i = m \/ values[i] < values[m]
                BY <1>1, <4>1
            <4> QED BY <1>1, <4>1, <4>2
        <3> QED BY <1>1, <2>1, <3>1
    <2>3. Cardinality(S) = m
        <3> HIDE DEF S
        <3> QED BY <1>1, <2>2, FS_Interval
    <2> QED BY <1>1, <2>2, <2>3 DEF n
<1> QED BY <1>2, <1>3

\* A run of a list, by position.
LEMMA RunMembers ==
    ASSUME NEW values, AscendingValues(values), ImtInv,
           NEW start \in 0 .. LeafCount - 1, NEW end \in 1 .. LeafCount, start < end
    PROVE  LET run == SubSeq(values, start + 1, end)
           IN  /\ run \in Seq(Nat) /\ Len(run) = end - start
               /\ \A k \in 1 .. end - start : run[k] = values[start + k]
               /\ Range(run) = {values[i] : i \in start + 1 .. end}
<1> DEFINE run == SubSeq(values, start + 1, end)
<1>1. LeafCount \in Nat /\ values \in Seq(Nat) /\ Len(values) = LeafCount
    BY LeafTypes DEF AscendingValues, ImtInv
<1>2. start + 1 \in 1 .. Len(values) /\ end \in 1 .. Len(values) /\ start \in Nat /\ end \in Nat
    BY <1>1
<1>3. /\ run \in Seq(Nat) /\ Len(run) = end - start
      /\ \A k \in 1 .. end - start : run[k] = values[start + k]
    <2>1. /\ run \in Seq(Nat)
          /\ Len(run) = IF start + 1 <= end THEN end - (start + 1) + 1 ELSE 0
          /\ \A k \in 1 .. end - (start + 1) + 1 : run[k] = values[(start + 1) + k - 1]
        BY <1>1, <1>2, SubSeqProperties
    <2>2. end - (start + 1) + 1 = end - start /\ start + 1 <= end
        BY <1>2
    <2>3. \A k \in 1 .. end - start : (start + 1) + k - 1 = start + k
        BY <1>2
    <2> HIDE DEF run
    <2> QED BY <2>1, <2>2, <2>3
<1> HIDE DEF run
<1>4. DOMAIN run = 1 .. end - start
    BY <1>3
<1>5. Range(run) = {values[i] : i \in start + 1 .. end}
    <2>1. ASSUME NEW u \in Range(run) PROVE u \in {values[i] : i \in start + 1 .. end}
        <3>1. PICK k \in 1 .. end - start : u = run[k]
            BY <1>4 DEF Range
        <3>2. start + k \in start + 1 .. end
            BY <1>2
        <3> QED BY <1>3, <3>1, <3>2
    <2>2. ASSUME NEW i \in start + 1 .. end PROVE values[i] \in Range(run)
        <3>1. i - start \in 1 .. end - start /\ start + (i - start) = i
            BY <1>2
        <3>2. run[i - start] = values[i]
            BY <1>3, <3>1
        <3> QED BY <1>4, <3>1, <3>2 DEF Range
    <2> QED BY <2>1, <2>2
<1> QED BY <1>3, <1>5 DEF run

\* What the wallet answers, case by case.
LEMMA SortedResolveCases ==
    ASSUME NEW values, NEW range, NEW v, InRange(range, v)
    PROVE  /\ v \in Range(values) => SortedResolve(values, range, v) = Spent
           /\ v \notin Range(values) =>
                  SortedResolve(values, range, v)
                    = IF \E u \in Range(values) : u < v THEN Unspent ELSE Refused
    BY DEF SortedResolve

\* A run of the sorted values settles nothing wrongly up to its last value, and
\* beyond it only when more values in the range follow.
LEMMA RunsSettleUpToTheirEnd ==
    ASSUME NEW values, AscendingValues(values), ImtInv,
           NEW start \in 0 .. LeafCount - 1, NEW end \in 1 .. LeafCount, start < end,
           NEW range, range.hi \in Int, NEW v \in Value, InRange(range, v)
    PROVE  LET run    == SubSeq(values, start + 1, end)
               answer == SortedResolve(run, range, v)
           IN  \/ answer \in {Refused, Truth(v)}
               \/ /\ answer = Unspent /\ end < LeafCount
                  /\ \A u \in Range(run) : u < v
                  /\ range.hi = Unbounded \/ values[end] < range.hi
<1> DEFINE run == SubSeq(values, start + 1, end)
           answer == SortedResolve(run, range, v)
           n == LeafCount
<1>1. /\ n \in Nat /\ v \in Nat /\ v # 0
      /\ \A i \in 1 .. n : values[i] \in Nat
      /\ \A i, j \in 1 .. n : i < j => values[i] < values[j]
      /\ \A i \in 1 .. n : values[i] \in DOMAIN index_by_value
      /\ \A u \in DOMAIN index_by_value : \E i \in 1 .. n : values[i] = u
    BY LeafTypes, ValueAssumption DEF AscendingValues, ImtInv
<1>2. Range(run) = {values[i] : i \in start + 1 .. end}
    BY RunMembers
<1>3. start + 1 .. end \subseteq 1 .. n /\ end \in start + 1 .. end
    BY <1>1
<1>4. range.hi = Unbounded \/ v < range.hi
    BY DEF InRange
<1> HIDE DEF run, n
<1>5. /\ v \in Range(run) => answer = Spent
      /\ v \notin Range(run) => answer = IF \E u \in Range(run) : u < v THEN Unspent ELSE Refused
    BY SortedResolveCases
<1> HIDE DEF answer
<1>6. CASE ~Contains(v)
    <2>1. v \notin Range(run)
        BY <1>1, <1>2, <1>3, <1>6 DEF Contains
    <2>2. Truth(v) = Unspent /\ answer \in {Refused, Unspent}
        BY <1>5, <1>6, <2>1 DEF Truth
    <2> QED BY <2>2 DEF answer, run
<1>7. CASE Contains(v)
    <2>1. PICK i \in 1 .. n : values[i] = v
        BY <1>1, <1>7 DEF Contains
    <2>2. CASE i \in start + 1 .. end
        <3>1. v \in Range(run)
            BY <1>2, <2>1, <2>2
        <3> QED BY <1>5, <1>7, <3>1 DEF Truth, answer, run
    <2>3. CASE i < start + 1
        <3>1. ASSUME NEW u \in Range(run) PROVE u \in Nat /\ v < u
            <4>1. PICK j \in start + 1 .. end : u = values[j]
                BY <1>2
            <4>2. j \in 1 .. n /\ i < j
                BY <1>1, <1>3, <2>1, <2>3
            <4> QED BY <1>1, <2>1, <4>1, <4>2
        <3>2. answer = Refused
            BY <1>1, <1>5, <3>1
        <3> QED BY <3>2 DEF answer, run
    <2>4. CASE end < i
        <3>1. \A j \in start + 1 .. end : j \in 1 .. n /\ j < i
            BY <1>1, <1>3, <2>1, <2>4
        <3>2. \A u \in Range(run) : u < v
            BY <1>1, <1>2, <2>1, <3>1
        <3>3. end < n /\ values[end] \in Nat /\ values[end] < v /\ values[end] \in Range(run)
            BY <1>1, <1>2, <1>3, <2>1, <2>4, <3>1
        <3>4. v \notin Range(run)
            BY <1>1, <3>2
        <3>5. answer = Unspent
            BY <1>5, <3>2, <3>3, <3>4
        <3>6. range.hi = Unbounded \/ values[end] < range.hi
            BY <1>1, <1>4, <3>3
        <3> QED BY <3>2, <3>3, <3>5, <3>6 DEF answer, run, n
    <2> QED BY <1>1, <2>1, <2>2, <2>3, <2>4
<1> QED BY <1>6, <1>7

\* A run that begins below its range and reaches past it settles all of it.
LEMMA RunsSettle ==
    ASSUME NEW values, AscendingValues(values), ImtInv,
           NEW start \in 0 .. LeafCount - 1, NEW end \in 1 .. LeafCount, start < end,
           NEW range, range.hi \in Int, range.lo \in Int, NEW v \in Value, InRange(range, v),
           end = LeafCount \/ (range.hi # Unbounded /\ values[end] >= range.hi),
           start = 0 \/ values[start + 1] < range.lo
    PROVE  SortedResolve(SubSeq(values, start + 1, end), range, v) = Truth(v)
<1> DEFINE run == SubSeq(values, start + 1, end)
           n == LeafCount
<1>1. /\ n \in Nat /\ v \in Nat /\ v # 0
      /\ \A i \in 1 .. n : values[i] \in Nat
      /\ \A i, j \in 1 .. n : i < j => values[i] < values[j]
      /\ \A u \in DOMAIN index_by_value : \E i \in 1 .. n : values[i] = u
    BY LeafTypes, ValueAssumption DEF AscendingValues, ImtInv
<1>2. Range(run) = {values[i] : i \in start + 1 .. end} /\ start + 1 \in start + 1 .. end
    <2>1. Range(run) = {values[i] : i \in start + 1 .. end}
        BY RunMembers
    <2>2. start + 1 \in start + 1 .. end
        BY <1>1
    <2> QED BY <2>1, <2>2
<1>3. end \in 1 .. n /\ start + 1 \in 1 .. n /\ values[end] \in Nat /\ values[start + 1] \in Nat
    BY <1>1
<1>4. SortedResolve(run, range, v) \in {Refused, Truth(v)}
    <2>1. ~(end < LeafCount /\ (range.hi = Unbounded \/ values[end] < range.hi))
        BY <1>3
    <2> QED BY <2>1, RunsSettleUpToTheirEnd
<1> HIDE DEF run, n
<1>5. values[start + 1] < v
    <2>1. CASE start = 0
        <3>1. 0 \in DOMAIN index_by_value
            BY LeafTypes DEF ImtInv, SortedListWithoutGaps, DistinctValues, IndexAgrees, ZERO
        <3>2. PICK i \in 1 .. n : values[i] = 0
            BY <1>1, <3>1
        <3>3. i = 1
            <4>1. 1 \in 1 .. n /\ values[1] \in Nat
                BY <1>1, <3>2
            <4>2. 1 < i => values[1] < values[i]
                BY <1>1, <3>2, <4>1
            <4> QED BY <1>1, <3>2, <4>1, <4>2
        <3> QED BY <1>1, <2>1, <3>2, <3>3
    <2>2. CASE values[start + 1] < range.lo
        <3>1. range.lo <= v
            BY <1>1 DEF InRange
        <3> QED BY <1>1, <1>3, <2>2, <3>1
    <2> QED BY <2>1, <2>2
<1>6. SortedResolve(run, range, v) # Refused
    <2>1. values[start + 1] \in Range(run)
        BY <1>2
    <2> QED BY <1>5, <2>1, SortedResolveCases DEF Refused, Spent, Unspent
<1> QED BY <1>4, <1>6 DEF run

\* The bounds of a bucket are numbers.
LEMMA BucketBounds ==
    ASSUME NEW v \in Nat, NEW bits \in PrefixBits
    PROVE  Covering(v, bits).lo \in Int /\ Covering(v, bits).hi \in Int
<1> DEFINE width == 2 ^ (ValueBits - bits)
<1>1. ValueBits - bits \in 0 .. ValueBits
    BY ValueBitsAssumption DEF PrefixBits
<1>2. width \in Nat \ {0}
    BY <1>1, BucketAssumption
<1> HIDE DEF width
<1>3. v - (v % width) \in Int
    BY <1>2
<1>4. Covering(v, bits).lo = v - (v % width)
    BY DEF Covering, width
<1>5. Covering(v, bits).hi = Unbounded \/ Covering(v, bits).hi = v - (v % width) + width
    BY DEF Covering, width
<1> QED BY <1>2, <1>3, <1>4, <1>5 DEF Unbounded

\* A snapshot's values and depth.
LEMMA SnapshotValues ==
    ASSUME ImtInv
    PROVE  /\ SnapshotTree.values = SortedValues /\ SnapshotTree.depth = DepthFor(LeafCount)
           /\ AscendingValues(SortedValues) /\ Len(SortedValues) = LeafCount
<1>1. SnapshotTree.values = SortedValues /\ SnapshotTree.depth = DepthFor(Len(SortedValues))
    BY DEF SnapshotTree
<1>2. AscendingValues(SortedValues)
    BY SortingOrders
<1> QED BY <1>1, <1>2 DEF AscendingValues

\* The chosen depth holds the leaves.
LEMMA DepthHolds ==
    ASSUME NEW count \in Nat, count <= Capacity
    PROVE  DepthFor(count) \in 0 .. Depth /\ 2 ^ DepthFor(count) >= count
<1> DEFINE S == {d \in 0 .. Depth : 2 ^ d >= count}
           Fits(d) == 2 ^ d >= count /\ (d = 0 \/ 2 ^ (d - 1) < count)
<1>1. Depth \in S /\ Depth \in Nat
    BY Powers, DepthAssumption
<1>2. PICK m \in S : \A k \in S : m <= k
    <2>1. S \in SUBSET Nat
        BY <1>1
    <2> HIDE DEF S
    <2> QED BY <1>1, <2>1, SmallestNat
<1>3. m = 0 \/ 2 ^ (m - 1) < count
    <2> SUFFICES ASSUME m # 0, ~(2 ^ (m - 1) < count) PROVE FALSE
        OBVIOUS
    <2>1. m - 1 \in 0 .. Depth /\ ~(m <= m - 1)
        BY <1>1, <1>2
    <2>2. 2 ^ (m - 1) \in Nat
        BY <2>1, Powers
    <2> QED BY <1>2, <2>1, <2>2
<1>4. \E d \in 0 .. Depth : Fits(d)
    BY <1>2, <1>3
<1>5. DepthFor(count) = CHOOSE d \in 0 .. Depth : Fits(d)
    BY DEF DepthFor
<1> HIDE DEF Fits
<1>6. DepthFor(count) \in 0 .. Depth /\ Fits(DepthFor(count))
    BY <1>4, <1>5
<1> QED BY <1>6 DEF Fits

\* A snapshot tree's leaf level, and a level from the one below.
LevelBase(values, depth) ==
    [k \in 0 .. 2 ^ depth - 1 |-> IF k < Len(values) THEN SortedLeaf(values[k + 1]) ELSE SortedPad]

LevelStep(depth, l, below) ==
    [k \in 0 .. 2 ^ (depth - l) - 1 |-> SortedNode(below[2 * k], below[2 * k + 1])]

LevelsUpTo(f, n, values, depth) ==
    f = [l \in 0 .. n |-> IF l = 0 THEN LevelBase(values, depth) ELSE LevelStep(depth, l, f[l - 1])]

\* The function exists up to every level.
LEMMA LevelsExist ==
    ASSUME NEW values, NEW depth
    PROVE  \A n \in Nat : \E f : LevelsUpTo(f, n, values, depth)
<1> DEFINE Bad == {n \in Nat : ~ \E f : LevelsUpTo(f, n, values, depth)}
           base == LevelBase(values, depth)
           step(n, below) == LevelStep(depth, n, below)
<1> SUFFICES ASSUME Bad # {} PROVE FALSE
    OBVIOUS
<1>1. PICK m \in Bad : \A k \in Bad : m <= k
    <2> Bad \in SUBSET Nat
        OBVIOUS
    <2> HIDE DEF Bad
    <2> QED BY SmallestNat
<1>2. CASE m = 0
    <2>1. LevelsUpTo([n \in 0 .. 0 |-> base], 0, values, depth)
        BY DEF LevelsUpTo
    <2> QED BY <2>1, <1>2
<1>3. CASE m # 0
    <2>1. m \in Nat /\ m - 1 \in Nat /\ m - 1 \notin Bad
        BY <1>1, <1>3
    <2>2. PICK f : LevelsUpTo(f, m - 1, values, depth)
        BY <2>1
    <2> DEFINE g == [n \in 0 .. m |-> IF n = m THEN step(m, f[m - 1]) ELSE f[n]]
    <2>3. \A n \in 0 .. m - 1 : f[n] = IF n = 0 THEN base ELSE step(n, f[n - 1])
        BY <2>2 DEF LevelsUpTo
    <2> HIDE DEF step, base
    <2>4. (\A n \in 0 .. m - 1 : g[n] = f[n]) /\ g[m] = step(m, f[m - 1])
        BY <2>1
    <2>5. ASSUME NEW n \in 0 .. m
          PROVE  g[n] = IF n = 0 THEN base ELSE step(n, g[n - 1])
        <3> HIDE DEF g
        <3>1. CASE n = m
            <4>1. m - 1 \in 0 .. m - 1
                BY <2>1
            <4> QED BY <2>4, <3>1, <4>1, <1>3
        <3>2. CASE n # m
            <4>1. n \in 0 .. m - 1 /\ (n # 0 => n - 1 \in 0 .. m - 1)
                BY <2>1, <3>2
            <4> QED BY <2>3, <2>4, <4>1
        <3> QED BY <3>1, <3>2
    <2>6. LevelsUpTo(g, m, values, depth)
        <3>1. g = [n \in 0 .. m |-> g[n]]
            OBVIOUS
        <3> HIDE DEF g
        <3> QED BY <2>5, <3>1 DEF LevelsUpTo, step, base
    <2> QED BY <2>6, <1>1
<1> QED BY <1>2, <1>3

\* The tree of a snapshot, level by level.
AreLevels(levels, values, depth) ==
    /\ \A k \in 0 .. 2 ^ depth - 1 :
           levels[0][k] = IF k < Len(values) THEN SortedLeaf(values[k + 1]) ELSE SortedPad
    /\ \A l \in 1 .. depth : \A k \in 0 .. 2 ^ (depth - l) - 1 :
           levels[l][k] = SortedNode(levels[l - 1][2 * k], levels[l - 1][2 * k + 1])

LEMMA SnapshotLevels ==
    ASSUME ImtInv
    PROVE  /\ SnapshotTree.depth \in 0 .. Depth /\ 2 ^ SnapshotTree.depth >= LeafCount
           /\ AreLevels(SnapshotTree.levels, SortedValues, SnapshotTree.depth)
<1> DEFINE values == SortedValues
           depth  == DepthFor(Len(values))
           levels == CHOOSE f : LevelsUpTo(f, depth, values, depth)
<1>1. SnapshotTree = [values |-> values, depth |-> depth, levels |-> levels]
    BY DEF SnapshotTree, LevelsUpTo, LevelBase, LevelStep
<1>2. Len(values) = LeafCount /\ LeafCount \in Nat /\ LeafCount <= Capacity
    BY SnapshotValues, LeafTypes DEF ImtInv
<1>3. depth \in 0 .. Depth /\ 2 ^ depth >= LeafCount
    BY <1>2, DepthHolds
<1>4. depth \in Nat
    BY <1>3, DepthAssumption
<1> HIDE DEF values, depth
<1>5. LevelsUpTo(levels, depth, values, depth)
    BY <1>4, LevelsExist
<1> HIDE DEF levels
<1>6. \A l \in 0 .. depth :
          levels[l] = IF l = 0 THEN LevelBase(values, depth) ELSE LevelStep(depth, l, levels[l - 1])
    BY <1>5 DEF LevelsUpTo
<1>7. 0 \in 0 .. depth /\ \A l \in 1 .. depth : l \in 0 .. depth /\ l # 0
    BY <1>4
<1>8. AreLevels(levels, values, depth)
    <2>1. levels[0] = LevelBase(values, depth)
        BY <1>6, <1>7
    <2>2. \A l \in 1 .. depth : levels[l] = LevelStep(depth, l, levels[l - 1])
        BY <1>6, <1>7
    <2> QED BY <2>1, <2>2 DEF AreLevels, LevelBase, LevelStep
<1> QED BY <1>1, <1>3, <1>8 DEF values

\* The levels of a wallet's fold of a run.
RunLast(run) == run.start_index + Len(run.values) - 1

RunBase(run) ==
    [k \in run.start_index .. RunLast(run) |-> SortedLeaf(run.values[k - run.start_index + 1])]

RunChild(run, l, below, k) ==
    CASE k \in DOMAIN below -> below[k]
      [] k \notin DOMAIN below /\ <<l - 1, k>> \in DOMAIN run.siblings -> run.siblings[<<l - 1, k>>]
      [] OTHER -> SortedPad

RunStep(run, l, below) ==
    [k \in Ancestor(run.start_index, l) .. Ancestor(RunLast(run), l) |->
        SortedNode(RunChild(run, l, below, 2 * k), RunChild(run, l, below, 2 * k + 1))]

RunFoldsUpTo(held, n, run) ==
    held = [l \in 0 .. n |-> IF l = 0 THEN RunBase(run) ELSE RunStep(run, l, held[l - 1])]

\* The function exists up to every level.
LEMMA RunFoldsExist ==
    ASSUME NEW run
    PROVE  \A n \in Nat : \E f : RunFoldsUpTo(f, n, run)
<1> DEFINE Bad == {n \in Nat : ~ \E f : RunFoldsUpTo(f, n, run)}
           base == RunBase(run)
           step(n, below) == RunStep(run, n, below)
<1> SUFFICES ASSUME Bad # {} PROVE FALSE
    OBVIOUS
<1>1. PICK m \in Bad : \A k \in Bad : m <= k
    <2> Bad \in SUBSET Nat
        OBVIOUS
    <2> HIDE DEF Bad
    <2> QED BY SmallestNat
<1>2. CASE m = 0
    <2>1. RunFoldsUpTo([n \in 0 .. 0 |-> base], 0, run)
        BY DEF RunFoldsUpTo
    <2> QED BY <2>1, <1>2
<1>3. CASE m # 0
    <2>1. m \in Nat /\ m - 1 \in Nat /\ m - 1 \notin Bad
        BY <1>1, <1>3
    <2>2. PICK f : RunFoldsUpTo(f, m - 1, run)
        BY <2>1
    <2> DEFINE g == [n \in 0 .. m |-> IF n = m THEN step(m, f[m - 1]) ELSE f[n]]
    <2>3. \A n \in 0 .. m - 1 : f[n] = IF n = 0 THEN base ELSE step(n, f[n - 1])
        BY <2>2 DEF RunFoldsUpTo
    <2> HIDE DEF step, base
    <2>4. (\A n \in 0 .. m - 1 : g[n] = f[n]) /\ g[m] = step(m, f[m - 1])
        BY <2>1
    <2>5. ASSUME NEW n \in 0 .. m
          PROVE  g[n] = IF n = 0 THEN base ELSE step(n, g[n - 1])
        <3> HIDE DEF g
        <3>1. CASE n = m
            <4>1. m - 1 \in 0 .. m - 1
                BY <2>1
            <4> QED BY <2>4, <3>1, <4>1, <1>3
        <3>2. CASE n # m
            <4>1. n \in 0 .. m - 1 /\ (n # 0 => n - 1 \in 0 .. m - 1)
                BY <2>1, <3>2
            <4> QED BY <2>3, <2>4, <4>1
        <3> QED BY <3>1, <3>2
    <2>6. RunFoldsUpTo(g, m, run)
        <3>1. g = [n \in 0 .. m |-> g[n]]
            OBVIOUS
        <3> HIDE DEF g
        <3> QED BY <2>5, <3>1 DEF RunFoldsUpTo, step, base
    <2> QED BY <2>6, <1>1
<1> QED BY <1>2, <1>3

\* SortedFold is the top of one.
LEMMA SortedFoldUnfolds ==
    ASSUME NEW run, run.depth \in Nat
    PROVE  \E held :
               /\ held[0] = RunBase(run)
               /\ \A l \in 1 .. run.depth : held[l] = RunStep(run, l, held[l - 1])
               /\ SortedFold(run) = held[run.depth][Ancestor(run.start_index, run.depth)]
<1> DEFINE held == CHOOSE f : RunFoldsUpTo(f, run.depth, run)
<1>1. RunFoldsUpTo(held, run.depth, run)
    BY RunFoldsExist
<1>2. SortedFold(run) = held[run.depth][Ancestor(run.start_index, run.depth)]
    BY DEF SortedFold, RunFoldsUpTo, RunBase, RunStep, RunChild, RunLast
<1> HIDE DEF held
<1>3. \A l \in 0 .. run.depth :
          held[l] = IF l = 0 THEN RunBase(run) ELSE RunStep(run, l, held[l - 1])
    BY <1>1 DEF RunFoldsUpTo
<1>4. 0 \in 0 .. run.depth /\ \A l \in 1 .. run.depth : l \in 0 .. run.depth /\ l # 0
    OBVIOUS
<1>5. held[0] = RunBase(run) /\ \A l \in 1 .. run.depth : held[l] = RunStep(run, l, held[l - 1])
    BY <1>3, <1>4
<1> QED BY <1>2, <1>5

\* The way up from two leaves in order: the positions stay in order, and in
\* the tree.
LEMMA WaysUpInOrder ==
    ASSUME NEW depth \in 0 .. Depth, NEW first \in Nat, NEW last \in Nat,
           first <= last, last < 2 ^ depth
    PROVE  /\ first \in LeafIndex /\ last \in LeafIndex
           /\ \A l \in 0 .. depth :
                  /\ Ancestor(first, l) \in Nat /\ Ancestor(last, l) \in Nat
                  /\ Ancestor(first, l) <= Ancestor(last, l)
                  /\ Ancestor(last, l) < 2 ^ (depth - l) /\ 2 ^ (depth - l) \in Nat
           /\ \A l \in 1 .. depth :
                  /\ Ancestor(first, l) = Ancestor(first, l - 1) \div 2
                  /\ Ancestor(last, l) = Ancestor(last, l - 1) \div 2
                  /\ 2 ^ (depth - (l - 1)) = 2 * 2 ^ (depth - l)
<1>1. depth \in Nat /\ Depth \in Nat
    BY DepthAssumption
<1>2. \A l \in 0 .. depth : l \in 0 .. Depth /\ depth - l \in 0 .. Depth /\ 2 ^ (depth - l) \in Nat
    BY <1>1, Powers
<1>3. ASSUME NEW l \in 1 .. depth PROVE 2 ^ (depth - (l - 1)) = 2 * 2 ^ (depth - l)
    <2>1. depth - (l - 1) \in 1 .. Depth /\ (depth - (l - 1)) - 1 = depth - l
        BY <1>1
    <2> QED BY <2>1, Powers
<1>4. 2 ^ depth <= Capacity
    <2> DEFINE Good == {d \in 0 .. Depth : 2 ^ (Depth - d) <= Capacity}
    <2>1. 0 \in Good
        <3>1. Depth - 0 = Depth /\ 0 \in 0 .. Depth
            BY <1>1
        <3> QED BY <3>1, Powers, CapacityAssumption
    <2>2. ASSUME NEW d \in 1 .. Depth, d - 1 \in Good PROVE d \in Good
        <3>1. Depth - (d - 1) \in 1 .. Depth /\ (Depth - (d - 1)) - 1 = Depth - d /\ Depth - d \in 0 .. Depth
            BY <1>1
        <3>2. 2 ^ (Depth - (d - 1)) = 2 * 2 ^ (Depth - d) /\ 2 ^ (Depth - d) \in Nat
            BY <3>1, Powers
        <3>3. 2 ^ (Depth - (d - 1)) <= Capacity
            BY <2>2
        <3>4. 2 ^ (Depth - d) <= Capacity
            BY <3>2, <3>3, CapacityAssumption
        <3> QED BY <1>1, <3>4
    <2>3. Depth - depth \in Good
        <3>1. Depth - depth \in 0 .. Depth
            BY <1>1
        <3> HIDE DEF Good
        <3> QED BY <1>1, <2>1, <2>2, <3>1, UpTo
    <2>4. Depth - (Depth - depth) = depth
        BY <1>1
    <2> QED BY <2>3, <2>4
<1>5. first \in LeafIndex /\ last \in LeafIndex
    <2>1. 2 ^ depth \in Nat
        <3>1. 0 \in 0 .. depth /\ depth - 0 = depth
            BY <1>1
        <3> QED BY <1>2, <3>1
    <2> QED BY <1>4, <2>1, CapacityAssumption DEF LeafIndex
<1>6. /\ \A l \in 0 .. Depth : Ancestor(first, l) \in LeafIndex /\ Ancestor(last, l) \in LeafIndex
      /\ \A l \in 1 .. Depth : /\ Ancestor(first, l) = Ancestor(first, l - 1) \div 2
                               /\ Ancestor(last, l) = Ancestor(last, l - 1) \div 2
      /\ Ancestor(first, 0) = first /\ Ancestor(last, 0) = last
    BY <1>5, WayUp
<1>7. /\ \A l \in 0 .. depth : Ancestor(first, l) \in Nat /\ Ancestor(last, l) \in Nat
      /\ \A l \in 1 .. depth : /\ Ancestor(first, l) = Ancestor(first, l - 1) \div 2
                               /\ Ancestor(last, l) = Ancestor(last, l - 1) \div 2
    <2>1. \A l \in 1 .. depth : l \in 1 .. Depth
        BY <1>1
    <2> QED BY <1>2, <1>6, <2>1, CapacityAssumption DEF LeafIndex
<1> DEFINE Good == {l \in 0 .. depth : /\ Ancestor(first, l) <= Ancestor(last, l)
                                       /\ Ancestor(last, l) < 2 ^ (depth - l)}
<1>8. 0 \in Good
    <2>1. depth - 0 = depth /\ 0 \in 0 .. depth
        BY <1>1
    <2> QED BY <1>6, <2>1
<1>9. ASSUME NEW l \in 1 .. depth, l - 1 \in Good PROVE l \in Good
    <2> DEFINE a == Ancestor(first, l - 1)
               b == Ancestor(last, l - 1)
               p == 2 ^ (depth - l)
    <2>1. l \in 0 .. depth /\ l - 1 \in 0 .. depth
        BY <1>1
    <2>2. a \in Nat /\ b \in Nat /\ p \in Nat /\ a <= b /\ b < 2 * p
        BY <1>2, <1>3, <1>7, <1>9, <2>1
    <2>3. Ancestor(first, l) = a \div 2 /\ Ancestor(last, l) = b \div 2
        BY <1>7
    <2> HIDE DEF a, b, p
    <2>4. a \div 2 <= b \div 2 /\ b \div 2 < p
        BY <2>2
    <2> QED BY <2>1, <2>3, <2>4 DEF p
<1>10. \A l \in 0 .. depth : l \in Good
    <2> HIDE DEF Good
    <2> QED BY <1>1, <1>8, <1>9, UpTo
<1> QED BY <1>2, <1>3, <1>5, <1>7, <1>10

\* The digests of a snapshot tree in the span of a run, level by level.
InSpan(held, levels, l, first, last) ==
    \A k \in Ancestor(first, l) .. Ancestor(last, l) : held[k] = levels[l][k]

\* A child of a position in the span is in the span below or at its edge.
LEMMA ChildrenOfTheSpan ==
    ASSUME NEW a \in Nat, NEW b \in Nat, a <= b, NEW k \in a \div 2 .. b \div 2,
           NEW c \in {2 * k, 2 * k + 1}
    PROVE  /\ c \in Nat
           /\ c \in a .. b \/ (c = a - 1 /\ a % 2 = 1) \/ (c = b + 1 /\ b % 2 = 0)
<1>1. k \in Nat /\ a \div 2 \in Nat /\ b \div 2 \in Nat /\ a \div 2 <= k /\ k <= b \div 2
    OBVIOUS
<1>2. /\ a = 2 * (a \div 2) \/ (a = 2 * (a \div 2) + 1 /\ a % 2 = 1)
      /\ b = 2 * (b \div 2) + 1 \/ (b = 2 * (b \div 2) /\ b % 2 = 0)
    OBVIOUS
<1>3. c \in Nat
    BY <1>1
<1>4. CASE c < a
    BY <1>1, <1>2, <1>3, <1>4
<1>5. CASE c > b
    BY <1>1, <1>2, <1>3, <1>5
<1> QED BY <1>3, <1>4, <1>5

\* The positions beside a run's ends that its own digests do not give.
Beside(start, end, l, c) ==
    \/ c = Ancestor(start, l) - 1 /\ Ancestor(start, l) % 2 = 1
    \/ c = Ancestor(end - 1, l) + 1 /\ Ancestor(end - 1, l) % 2 = 0

\* What the bridge sends with a run.
LEMMA EdgesAreSent ==
    ASSUME NEW snapshot, snapshot.depth \in Nat, NEW start, NEW end,
           NEW l \in 0 .. snapshot.depth - 1, NEW c, Beside(start, end, l, c)
    PROVE  /\ <<l, c>> \in DOMAIN RangeSiblings(snapshot, start, end)
           /\ RangeSiblings(snapshot, start, end)[<<l, c>>] = snapshot.levels[l][c]
<1> DEFINE left  == {<<j, Ancestor(start, j) - 1>> :
                         j \in {i \in 0 .. snapshot.depth - 1 : Ancestor(start, i) % 2 = 1}}
           right == {<<j, Ancestor(end - 1, j) + 1>> :
                         j \in {i \in 0 .. snapshot.depth - 1 : Ancestor(end - 1, i) % 2 = 0}}
<1>1. <<l, c>> \in left \cup right
    BY DEF Beside
<1>2. RangeSiblings(snapshot, start, end)
        = [at \in left \cup right |-> snapshot.levels[at[1]][at[2]]]
    BY DEF RangeSiblings
<1> HIDE DEF left, right
<1> QED BY <1>1, <1>2

\* A run of the snapshot folds to its root.
LEMMA HonestRun ==
    ASSUME ImtInv, NEW range, NEW start \in 0 .. LeafCount - 1, NEW end \in 1 .. LeafCount, start < end
    PROVE  SortedFold(RunOf(SnapshotTree, range, start, end)) = SnapshotRoot(SnapshotTree)
<1> DEFINE values == SortedValues
           depth  == SnapshotTree.depth
           levels == SnapshotTree.levels
           run    == RunOf(SnapshotTree, range, start, end)
           last   == end - 1
<1>1. /\ SnapshotTree.values = values /\ AscendingValues(values) /\ Len(values) = LeafCount
      /\ depth \in 0 .. Depth /\ 2 ^ depth >= LeafCount
      /\ AreLevels(levels, values, depth)
    BY SnapshotValues, SnapshotLevels
<1>2. /\ run.values = SubSeq(SnapshotTree.values, start + 1, end) /\ run.start_index = start
      /\ run.depth = depth
      /\ run.siblings = RangeSiblings(SnapshotTree, start, end)
    BY DEF RunOf
<1>3. SnapshotRoot(SnapshotTree) = levels[depth][0]
    BY DEF SnapshotRoot
<1>4. depth \in Nat /\ 2 ^ depth \in Nat /\ LeafCount \in Nat
    <2>1. Depth \in Nat /\ LeafCount \in Nat
        <3>1. LeafCount \in Nat
            BY LeafTypes DEF ImtInv
        <3>2. Depth \in Nat
            BY DepthAssumption
        <3> QED BY <3>1, <3>2
    <2>2. 2 ^ depth \in Nat
        <3> HIDE DEF depth
        <3> QED BY <1>1, Powers
    <2> HIDE DEF depth
    <2> QED BY <1>1, <2>1, <2>2
<1>5. ASSUME NEW l \in 0 .. depth - 1, NEW c,
             \/ c = Ancestor(start, l) - 1 /\ Ancestor(start, l) % 2 = 1
             \/ c = Ancestor(last, l) + 1 /\ Ancestor(last, l) % 2 = 0
      PROVE  <<l, c>> \in DOMAIN run.siblings /\ run.siblings[<<l, c>>] = levels[l][c]
    <2>1. SnapshotTree.depth \in Nat /\ l \in 0 .. SnapshotTree.depth - 1
        BY <1>4
    <2>2. /\ <<l, c>> \in DOMAIN RangeSiblings(SnapshotTree, start, end)
          /\ RangeSiblings(SnapshotTree, start, end)[<<l, c>>] = SnapshotTree.levels[l][c]
        <3>1. Beside(start, end, l, c)
            BY <1>5 DEF Beside
        <3> QED BY <2>1, <3>1, EdgesAreSent
    <2> HIDE DEF run
    <2> QED BY <1>2, <2>2
<1> HIDE DEF run, depth, levels, values
<1>6. /\ Len(run.values) = end - start
      /\ \A k \in 1 .. end - start : run.values[k] = values[start + k]
    BY <1>1, <1>2, RunMembers
<1>7. start \in Nat /\ last \in Nat /\ start <= last /\ last < 2 ^ depth /\ last < LeafCount
    BY <1>1, <1>4
<1>8. RunLast(run) = last
    BY <1>2, <1>4, <1>6 DEF RunLast
<1> HIDE DEF last
<1>9. /\ start \in LeafIndex /\ last \in LeafIndex
      /\ \A l \in 0 .. depth :
             /\ Ancestor(start, l) \in Nat /\ Ancestor(last, l) \in Nat
             /\ Ancestor(start, l) <= Ancestor(last, l)
             /\ Ancestor(last, l) < 2 ^ (depth - l) /\ 2 ^ (depth - l) \in Nat
      /\ \A l \in 1 .. depth :
             /\ Ancestor(start, l) = Ancestor(start, l - 1) \div 2
             /\ Ancestor(last, l) = Ancestor(last, l - 1) \div 2
    BY <1>1, <1>7, WaysUpInOrder
<1>10. PICK held :
           /\ held[0] = RunBase(run)
           /\ \A l \in 1 .. depth : held[l] = RunStep(run, l, held[l - 1])
           /\ SortedFold(run) = held[depth][Ancestor(start, depth)]
    <2>1. run.depth \in Nat
        BY <1>2, <1>4
    <2> QED BY <1>2, <2>1, SortedFoldUnfolds
<1> DEFINE span(l) == Ancestor(start, l) .. Ancestor(last, l)
           Good == {l \in 0 .. depth : /\ DOMAIN held[l] = span(l)
                                       /\ \A k \in span(l) : held[l][k] = levels[l][k]}
<1>11. 0 \in Good
    <2>1. Ancestor(start, 0) = start /\ Ancestor(last, 0) = last
        BY <1>9, WayUp
    <2>2. held[0] = [k \in start .. last |-> SortedLeaf(run.values[k - start + 1])]
        BY <1>2, <1>8, <1>10 DEF RunBase
    <2>3. ASSUME NEW k \in start .. last PROVE held[0][k] = levels[0][k]
        <3>1. k - start + 1 \in 1 .. end - start /\ start + (k - start + 1) = k + 1
              /\ k \in 0 .. 2 ^ depth - 1 /\ k < LeafCount
            BY <1>4, <1>7 DEF last
        <3>2. run.values[k - start + 1] = values[k + 1]
            BY <1>6, <3>1
        <3>3. levels[0][k] = SortedLeaf(values[k + 1])
            BY <1>1, <3>1 DEF AreLevels
        <3> QED BY <2>2, <3>2, <3>3
    <2>4. 0 \in 0 .. depth /\ span(0) = start .. last
        BY <1>4, <2>1
    <2> HIDE DEF span
    <2> QED BY <2>2, <2>3, <2>4
<1>12. ASSUME NEW l \in 1 .. depth, l - 1 \in Good PROVE l \in Good
    <2> DEFINE below == held[l - 1]
               child(c) == RunChild(run, l, below, c)
    <2>1. l \in 0 .. depth /\ l - 1 \in 0 .. depth /\ l - 1 \in 0 .. depth - 1
        BY <1>4
    <2>2. DOMAIN below = span(l - 1) /\ \A k \in span(l - 1) : below[k] = levels[l - 1][k]
        BY <1>12
    <2>3. held[l] = RunStep(run, l, below)
        BY <1>10
    <2>4. held[l] = [k \in span(l) |-> SortedNode(child(2 * k), child(2 * k + 1))]
        BY <1>2, <1>8, <2>3 DEF RunStep
    <2> HIDE DEF below
    <2>5. ASSUME NEW k \in span(l), NEW c \in {2 * k, 2 * k + 1}
          PROVE  child(c) = levels[l - 1][c]
        <3> DEFINE a == Ancestor(start, l - 1)
                   b == Ancestor(last, l - 1)
        <3>1. a \in Nat /\ b \in Nat /\ a <= b /\ k \in a \div 2 .. b \div 2
            BY <1>9, <2>1
        <3>2. c \in a .. b \/ (c = a - 1 /\ a % 2 = 1) \/ (c = b + 1 /\ b % 2 = 0)
            <4> HIDE DEF a, b
            <4> QED BY <3>1, ChildrenOfTheSpan
        <3>3. CASE c \in span(l - 1)
            BY <2>2, <3>3 DEF RunChild
        <3>4. CASE c \notin span(l - 1)
            <4>1. <<l - 1, c>> \in DOMAIN run.siblings /\ run.siblings[<<l - 1, c>>] = levels[l - 1][c]
                BY <1>5, <2>1, <3>2, <3>4
            <4>2. c \notin DOMAIN below
                BY <2>2, <3>4
            <4> QED BY <4>1, <4>2 DEF RunChild
        <3> QED BY <3>3, <3>4
    <2>6. ASSUME NEW k \in span(l) PROVE held[l][k] = levels[l][k]
        <3>1. k \in 0 .. 2 ^ (depth - l) - 1
            BY <1>9, <2>1
        <3>2. levels[l][k] = SortedNode(levels[l - 1][2 * k], levels[l - 1][2 * k + 1])
            BY <1>1, <3>1 DEF AreLevels
        <3>3. child(2 * k) = levels[l - 1][2 * k] /\ child(2 * k + 1) = levels[l - 1][2 * k + 1]
            BY <2>5
        <3> HIDE DEF child, span
        <3> QED BY <2>4, <3>2, <3>3
    <2> HIDE DEF span, child
    <2> QED BY <2>1, <2>4, <2>6
<1>13. depth \in Good
    <2> HIDE DEF Good
    <2> QED BY <1>4, <1>11, <1>12, UpTo
<1>14. Ancestor(start, depth) = 0 /\ Ancestor(start, depth) \in span(depth)
    <2>1. depth \in 0 .. depth /\ depth - depth = 0 /\ 2 ^ 0 = 1
        BY <1>4, Powers
    <2>2. /\ Ancestor(start, depth) \in Nat /\ Ancestor(last, depth) \in Nat
          /\ Ancestor(start, depth) <= Ancestor(last, depth)
          /\ Ancestor(last, depth) < 2 ^ (depth - depth)
        BY <1>9, <2>1
    <2>3. 2 ^ (depth - depth) = 1
        BY <2>1
    <2>4. Ancestor(last, depth) < 1
        BY <2>2, <2>3
    <2> HIDE DEF span
    <2>5. Ancestor(start, depth) = 0
        BY <2>2, <2>4
    <2> QED BY <2>2, <2>5 DEF span
<1>15. held[depth][0] = levels[depth][0]
    BY <1>13, <1>14
<1> QED BY <1>3, <1>10, <1>14, <1>15 DEF run, depth, levels

\* The run the bridge sends for a range, from the value below it to the one
\* past it.
RunFor(range, start, end) ==
    /\ start \in 0 .. LeafCount - 1 /\ end \in 1 .. LeafCount /\ start < end
    /\ ProveSortedCohort(SnapshotTree, range) = RunOf(SnapshotTree, range, start, end)
    /\ start = 0 \/ SortedValues[start + 1] < range.lo
    /\ end = LeafCount \/ (range.hi # Unbounded /\ SortedValues[end] >= range.hi)

LEMMA RunsSpan ==
    ASSUME ImtInv, NEW range, range.lo \in Int, range.hi \in Int
    PROVE  \E start, end : RunFor(range, start, end)
<1> DEFINE values == SortedValues
           n     == LeafCount
           c     == CountBelow(values, range.lo)
           start == Max({c - 1, 0})
           past  == IF range.hi = Unbounded THEN n ELSE CountBelow(values, range.hi) + 1
           most  == Max({past, start + 1})
           end   == Min({most, n})
<1>1. n \in Nat /\ n >= 1
    BY LeafTypes DEF ImtInv
<1>2. AscendingValues(values) /\ SnapshotTree.values = values /\ Len(values) = n
    BY SnapshotValues
<1>3. ProveSortedCohort(SnapshotTree, range) = RunOf(SnapshotTree, range, start, end)
    BY <1>2 DEF ProveSortedCohort
<1> HIDE DEF values
<1>4. c \in 0 .. n /\ \A i \in 1 .. n : values[i] < range.lo <=> i <= c
    BY <1>2, CountsPrefix
<1>5. /\ CountBelow(values, range.hi) \in 0 .. n
      /\ \A i \in 1 .. n : values[i] < range.hi <=> i <= CountBelow(values, range.hi)
    BY <1>2, CountsPrefix
<1>6. \A i \in 1 .. n : values[i] \in Nat
    BY <1>2 DEF AscendingValues
<1> HIDE DEF n, c
<1>7. start = IF c - 1 >= 0 THEN c - 1 ELSE 0
    BY <1>1, <1>4, MaxOfTwo
<1> HIDE DEF start
<1>8. start \in 0 .. n - 1 /\ past \in Int
    BY <1>1, <1>4, <1>5, <1>7
<1>9. most = IF past >= start + 1 THEN past ELSE start + 1
    <2> HIDE DEF past
    <2> QED BY <1>8, MaxOfTwo
<1> HIDE DEF most
<1>10. most \in Int /\ most >= start + 1 /\ most >= past
    <2> HIDE DEF past
    <2> QED BY <1>8, <1>9
<1>11. end = IF most <= n THEN most ELSE n
    BY <1>1, <1>10, MinOfTwo
<1> HIDE DEF end
<1>12. end \in 1 .. n /\ start < end
    BY <1>1, <1>8, <1>10, <1>11
<1>13. start = 0 \/ values[start + 1] < range.lo
    <2> SUFFICES ASSUME start # 0 PROVE values[start + 1] < range.lo
        OBVIOUS
    <2>1. start + 1 = c /\ c \in 1 .. n
        BY <1>1, <1>4, <1>7
    <2> QED BY <1>4, <2>1
<1>14. end = n \/ (range.hi # Unbounded /\ values[end] >= range.hi)
    <2> SUFFICES ASSUME end # n PROVE range.hi # Unbounded /\ values[end] >= range.hi
        OBVIOUS
    <2>1. end = most /\ most < n
        BY <1>1, <1>10, <1>11
    <2>2. range.hi # Unbounded
        BY <1>1, <1>10, <2>1
    <2>3. end > CountBelow(values, range.hi)
        BY <1>5, <1>10, <1>12, <2>1, <2>2
    <2>4. ~(values[end] < range.hi)
        BY <1>1, <1>5, <1>12, <2>3
    <2> QED BY <1>6, <1>12, <2>2, <2>4
<1>15. RunFor(range, start, end)
    BY <1>3, <1>8, <1>12, <1>13, <1>14 DEF RunFor, n, values
<1> QED BY <1>15

\* It verifies.
LEMMA RunsVerify ==
    ASSUME ImtInv, NEW range, range.lo \in Int, range.hi \in Int,
           NEW start, NEW end, RunFor(range, start, end)
    PROVE  SortedVerifies(SnapshotRoot(SnapshotTree), RunOf(SnapshotTree, range, start, end))
<1> DEFINE values == SortedValues
           run    == RunOf(SnapshotTree, range, start, end)
<1>1. /\ start \in 0 .. LeafCount - 1 /\ end \in 1 .. LeafCount /\ start < end
      /\ start = 0 \/ values[start + 1] < range.lo
      /\ end = LeafCount \/ (range.hi # Unbounded /\ values[end] >= range.hi)
      /\ LeafCount \in Nat
    BY LeafTypes DEF RunFor, ImtInv
<1>2. /\ SnapshotTree.values = values /\ AscendingValues(values) /\ Len(values) = LeafCount
      /\ SnapshotTree.depth \in 0 .. Depth /\ 2 ^ SnapshotTree.depth >= LeafCount
    BY SnapshotValues, SnapshotLevels
<1>3. /\ run.values = SubSeq(SnapshotTree.values, start + 1, end) /\ run.range = range
      /\ run.start_index = start /\ run.leaf_count = Len(SnapshotTree.values)
      /\ run.depth = SnapshotTree.depth
    BY DEF RunOf
<1>4. SortedFold(run) = SnapshotRoot(SnapshotTree)
    BY <1>1, HonestRun
<1> HIDE DEF run, values
<1>5. /\ run.values \in Seq(Nat) /\ Len(run.values) = end - start
      /\ \A k \in 1 .. end - start : run.values[k] = values[start + k]
    BY <1>1, <1>2, <1>3, RunMembers
<1>6. /\ \A i \in 1 .. LeafCount : values[i] \in Nat
      /\ \A i, j \in 1 .. LeafCount : i < j => values[i] < values[j]
    BY <1>2 DEF AscendingValues
<1>7. Ascending(run.values)
    <2> SUFFICES ASSUME NEW k \in 1 .. end - start - 1 PROVE run.values[k] < run.values[k + 1]
        BY <1>5 DEF Ascending
    <2>1. /\ k \in 1 .. end - start /\ k + 1 \in 1 .. end - start
          /\ start + k \in 1 .. LeafCount /\ start + (k + 1) \in 1 .. LeafCount
          /\ start + k < start + (k + 1)
        BY <1>1
    <2> QED BY <1>5, <1>6, <2>1
<1>8. SpansRange(run)
    <2>1. InRange(run.range, run.values[1]) => run.start_index = 0
        <3>1. 1 \in 1 .. end - start /\ start + 1 \in 1 .. LeafCount
            BY <1>1
        <3>2. run.values[1] = values[start + 1] /\ values[start + 1] \in Nat
            BY <1>5, <1>6, <3>1
        <3>3. values[start + 1] < range.lo => ~InRange(range, values[start + 1])
            BY <3>2 DEF InRange
        <3> QED BY <1>1, <1>3, <3>2, <3>3
    <2>2. \/ run.start_index + Len(run.values) >= run.leaf_count
          \/ run.values[Len(run.values)] >= run.range.hi
        <3>1. start + (end - start) = end /\ end - start \in 1 .. end - start
            BY <1>1
        <3>2. run.values[end - start] = values[end]
            BY <1>5, <3>1
        <3> QED BY <1>1, <1>2, <1>3, <1>5, <3>1, <3>2
    <2> QED BY <2>1, <2>2 DEF SpansRange
<1>9. run.values # <<>>
    BY <1>1, <1>5
<1>10. /\ run.start_index + Len(run.values) <= 2 ^ run.depth
       /\ run.leaf_count <= 2 ^ run.depth
    <2>1. start + (end - start) = end /\ end <= LeafCount
        BY <1>1
    <2>2. 2 ^ run.depth \in Nat /\ 2 ^ run.depth >= LeafCount
        BY <1>2, <1>3, Powers
    <2> QED BY <1>1, <1>2, <1>3, <1>5, <2>1, <2>2
<1> QED BY <1>4, <1>7, <1>8, <1>9, <1>10 DEF SortedVerifies, run

\* The snapshot answers every query truly, as the tree does.
LEMMA SnapshotsSettle == DigestInv => SortedAgreesWithCohort
<1> SUFFICES ASSUME DigestInv, NEW v \in Value, NEW bits \in PrefixBits
             PROVE  SortedAnswer(SnapshotRoot(SnapshotTree),
                                 ProveSortedCohort(SnapshotTree, Covering(v, bits)), v)
                      = Answer(ProvePrefixCohort(Covering(v, bits)), v)
    BY DEF SortedAgreesWithCohort
<1> DEFINE range == Covering(v, bits)
           root  == SnapshotRoot(SnapshotTree)
           sent  == ProveSortedCohort(SnapshotTree, range)
<1>1. ImtInv /\ v \in Nat
    BY ValueAssumption DEF DigestInv
<1>2. InRange(range, v) /\ range.lo \in Int /\ range.hi \in Int
    BY <1>1, BucketHolds, BucketBounds
<1>3. Answer(ProvePrefixCohort(range), v) = Truth(v)
    BY CohortsSettle DEF CohortSettlesEveryValue
<1> HIDE DEF range
<1>4. PICK start, end : RunFor(range, start, end)
    BY <1>1, <1>2, RunsSpan
<1>5. sent = RunOf(SnapshotTree, range, start, end)
    BY <1>4 DEF RunFor
<1>6. SortedVerifies(root, sent)
    BY <1>1, <1>2, <1>4, <1>5, RunsVerify
<1>7. /\ SnapshotTree.values = SortedValues /\ AscendingValues(SortedValues)
    BY <1>1, SnapshotValues
<1>8. sent.values = SubSeq(SortedValues, start + 1, end) /\ sent.range = range
    <2>1. /\ RunOf(SnapshotTree, range, start, end).values
                = SubSeq(SnapshotTree.values, start + 1, end)
          /\ RunOf(SnapshotTree, range, start, end).range = range
        BY DEF RunOf
    <2> HIDE DEF sent
    <2> QED BY <1>5, <1>7, <2>1
<1>9. SortedResolve(SubSeq(SortedValues, start + 1, end), range, v) = Truth(v)
    <2>1. /\ start \in 0 .. LeafCount - 1 /\ end \in 1 .. LeafCount /\ start < end
          /\ start = 0 \/ SortedValues[start + 1] < range.lo
          /\ end = LeafCount \/ (range.hi # Unbounded /\ SortedValues[end] >= range.hi)
        BY <1>4 DEF RunFor
    <2> QED BY <1>1, <1>2, <1>7, <2>1, RunsSettle
<1> HIDE DEF root, sent
<1>10. SortedAnswer(root, sent, v) = Truth(v)
    BY <1>6, <1>8, <1>9 DEF SortedAnswer
<1> QED BY <1>3, <1>10 DEF root, sent, range

\* sorted.rs, from_imt and prove_prefix_cohort: at every depth, the snapshot
\* settles every value the tree's own cohorts settle, and in the same way.
THEOREM SnapshotsAgree == Spec => []SortedAgreesWithCohort
    BY SnapshotsSettle, DigestAlways, PTL

\* A snapshot's digests are terms too.
LEMMA SortedDigestsAreInjective ==
    /\ \A a, b, c, d : SortedNode(a, b) = SortedNode(c, d) => a = c /\ b = d
    /\ \A a, b \in Nat : SortedLeaf(a) = SortedLeaf(b) => a = b
    /\ \A a \in Nat : SortedLeaf(a) # SortedPad
    /\ \A a \in Nat : \A b, c : SortedLeaf(a) # SortedNode(b, c)
    /\ \A b, c : SortedPad # SortedNode(b, c)
<1>1. ASSUME NEW a, NEW b, NEW c, NEW d, SortedNode(a, b) = SortedNode(c, d)
      PROVE  a = c /\ b = d
    BY <1>1 DEF SortedNode
<1>2. ASSUME NEW a \in Nat, NEW b \in Nat, SortedLeaf(a) = SortedLeaf(b)
      PROVE  a = b
    BY <1>2 DEF SortedLeaf
<1>3. ASSUME NEW a \in Nat, SortedLeaf(a) = SortedPad PROVE FALSE
    BY <1>3 DEF SortedLeaf, SortedPad
<1>4. ASSUME NEW a \in Nat, NEW b, NEW c, SortedLeaf(a) = SortedNode(b, c) PROVE FALSE
    BY <1>4 DEF SortedLeaf, SortedNode
<1>5. ASSUME NEW b, NEW c, SortedPad = SortedNode(b, c) PROVE FALSE
    BY <1>5 DEF SortedPad, SortedNode
<1> QED BY <1>1, <1>2, <1>3, <1>4, <1>5

\* A run as the wallet's types allow it: any values from any position, any
\* digests, any bucket, any leaf count, and any depth up to the indexed tree's.
WalletRuns(run) ==
    /\ run.start_index \in Nat /\ run.values \in Seq(Nat)
    /\ run.depth \in 0 .. Depth /\ run.leaf_count \in Nat
    /\ run.range.lo \in Int /\ run.range.hi \in Int

\* The positions of a run that verifies are a tree's of its depth.
LEMMA RunPositions ==
    ASSUME NEW root, NEW run, WalletRuns(run), SortedVerifies(root, run)
    PROVE  LET first == run.start_index
               last  == RunLast(run)
           IN  /\ first \in Nat /\ last \in Nat /\ first <= last /\ last < 2 ^ run.depth
               /\ Len(run.values) \in Nat /\ Len(run.values) >= 1
<1>1. /\ run.start_index \in Nat /\ run.values \in Seq(Nat) /\ run.values # <<>>
      /\ run.start_index + Len(run.values) <= 2 ^ run.depth
    BY DEF WalletRuns, SortedVerifies
<1>2. Len(run.values) \in Nat /\ Len(run.values) # 0
    BY <1>1, EmptySeq
<1>3. 2 ^ run.depth \in Nat
    BY Powers DEF WalletRuns
<1> QED BY <1>1, <1>2, <1>3 DEF RunLast

\* The depth a run claims is the snapshot's: a leaf's digest is no node's.
LEMMA DepthIsPinned ==
    ASSUME ImtInv, NEW run, WalletRuns(run), SortedVerifies(SnapshotRoot(SnapshotTree), run)
    PROVE  run.depth = SnapshotTree.depth
<1> DEFINE claimed == run.depth
           depth   == SnapshotTree.depth
           levels  == SnapshotTree.levels
           values  == SortedValues
           at(l)   == Ancestor(run.start_index, l)
<1>1. claimed \in Nat /\ depth \in Nat /\ claimed \in 0 .. Depth /\ depth \in 0 .. Depth
    BY SnapshotLevels, DepthAssumption DEF WalletRuns
<1>2. AreLevels(levels, values, depth) /\ SortedFold(run) = levels[depth][0]
    BY SnapshotLevels, SnapshotValues DEF SortedVerifies, SnapshotRoot
<1>3. PICK held :
          /\ held[0] = RunBase(run)
          /\ \A l \in 1 .. claimed : held[l] = RunStep(run, l, held[l - 1])
          /\ SortedFold(run) = held[claimed][at(claimed)]
    BY <1>1, SortedFoldUnfolds
<1>4. /\ run.start_index \in LeafIndex
      /\ run.start_index \in Nat /\ RunLast(run) \in Nat /\ run.start_index <= RunLast(run)
      /\ \A l \in 0 .. claimed :
             /\ at(l) \in Nat /\ Ancestor(RunLast(run), l) \in Nat
             /\ at(l) <= Ancestor(RunLast(run), l)
      /\ \A l \in 1 .. claimed : at(l) = at(l - 1) \div 2
    <2> DEFINE first == run.start_index
               last  == RunLast(run)
    <2>1. first \in Nat /\ last \in Nat /\ first <= last /\ last < 2 ^ claimed
        BY RunPositions
    <2> HIDE DEF first, last, claimed
    <2>2. first \in LeafIndex
        BY <1>1, <2>1, WaysUpInOrder
    <2>3. /\ \A l \in 0 .. claimed :
                 /\ Ancestor(first, l) \in Nat /\ Ancestor(last, l) \in Nat
                 /\ Ancestor(first, l) <= Ancestor(last, l)
          /\ \A l \in 1 .. claimed : Ancestor(first, l) = Ancestor(first, l - 1) \div 2
        BY <1>1, <2>1, WaysUpInOrder
    <2> QED BY <2>1, <2>2, <2>3 DEF first, last
<1>5. at(0) = run.start_index
    BY <1>4, WayUp
<1>6. Len(run.values) \in Nat /\ Len(run.values) >= 1
    BY RunPositions
<1> HIDE DEF claimed, depth, levels, values, at
<1>7. ASSUME NEW l \in 1 .. claimed
      PROVE  /\ held[l][at(l)] = SortedNode(RunChild(run, l, held[l - 1], 2 * at(l)),
                                            RunChild(run, l, held[l - 1], 2 * at(l) + 1))
             /\ RunChild(run, l, held[l - 1], at(l - 1)) = held[l - 1][at(l - 1)]
             /\ at(l - 1) = 2 * at(l) \/ at(l - 1) = 2 * at(l) + 1
    <2>1. l \in 0 .. claimed /\ l - 1 \in 0 .. claimed
        BY <1>1
    <2>2. held[l] = RunStep(run, l, held[l - 1]) /\ at(l) \in at(l) .. Ancestor(RunLast(run), l)
        BY <1>3, <1>4, <2>1
    <2>3. at(l - 1) \in DOMAIN held[l - 1]
        <3>1. at(l - 1) \in at(l - 1) .. Ancestor(RunLast(run), l - 1)
            BY <1>4, <2>1
        <3>2. CASE l - 1 = 0
            BY <1>3, <1>4, <1>5, <3>2 DEF RunBase
        <3>3. CASE l - 1 # 0
            <4>1. l - 1 \in 1 .. claimed
                BY <2>1, <3>3
            <4>2. held[l - 1] = RunStep(run, l - 1, held[(l - 1) - 1])
                BY <1>3, <4>1
            <4> QED BY <3>1, <4>2 DEF RunStep, at
        <3> QED BY <3>2, <3>3
    <2>4. at(l - 1) \in Nat /\ at(l) = at(l - 1) \div 2
        BY <1>4, <2>1
    <2>5. at(l - 1) = 2 * at(l) \/ at(l - 1) = 2 * at(l) + 1
        BY <2>4, Pairs
    <2> QED BY <2>2, <2>3, <2>5 DEF RunStep, RunChild, at
<1> DEFINE Good == {j \in 0 .. Depth :
               j <= claimed /\ j <= depth =>
                   \E k \in 0 .. 2 ^ j - 1 : held[claimed - j][at(claimed - j)] = levels[depth - j][k]}
<1>8. 0 \in Good
    <2>1. claimed - 0 = claimed /\ depth - 0 = depth /\ 0 \in 0 .. Depth
        BY <1>1, DepthAssumption
    <2>2. 0 \in 0 .. 2 ^ 0 - 1
        <3>1. 2 ^ 0 = 1
            BY Powers
        <3> QED BY <3>1
    <2> QED BY <1>2, <1>3, <2>1, <2>2
<1>9. ASSUME NEW j \in 1 .. Depth, j - 1 \in Good PROVE j \in Good
    <2> SUFFICES ASSUME j <= claimed, j <= depth
                 PROVE  \E k \in 0 .. 2 ^ j - 1 :
                            held[claimed - j][at(claimed - j)] = levels[depth - j][k]
        BY <1>1
    <2> DEFINE l == claimed - (j - 1)
               m == depth - (j - 1)
    <2>1. /\ l \in 1 .. claimed /\ l - 1 = claimed - j /\ m \in 1 .. depth /\ m - 1 = depth - j
          /\ depth - m = j - 1 /\ j - 1 <= claimed /\ j - 1 <= depth
        BY <1>1
    <2>2. PICK k \in 0 .. 2 ^ (j - 1) - 1 : held[l][at(l)] = levels[m][k]
        BY <1>9, <2>1
    <2> HIDE DEF l, m
    <2>3. levels[m][k] = SortedNode(levels[m - 1][2 * k], levels[m - 1][2 * k + 1])
        BY <1>2, <2>1, <2>2 DEF AreLevels
    <2>4. /\ RunChild(run, l, held[l - 1], 2 * at(l)) = levels[m - 1][2 * k]
          /\ RunChild(run, l, held[l - 1], 2 * at(l) + 1) = levels[m - 1][2 * k + 1]
        BY <1>7, <2>1, <2>2, <2>3, SortedDigestsAreInjective
    <2>5. \E c \in {2 * k, 2 * k + 1} : held[l - 1][at(l - 1)] = levels[m - 1][c]
        BY <1>7, <2>1, <2>4
    <2>6. \A c \in {2 * k, 2 * k + 1} : c \in 0 .. 2 ^ j - 1
        <3>1. 2 ^ j = 2 * 2 ^ (j - 1)
            BY Powers
        <3>2. 2 ^ (j - 1) \in Nat
            <4>1. j - 1 \in 0 .. Depth
                BY DepthAssumption
            <4> QED BY <4>1, Powers
        <3> QED BY <2>2, <3>1, <3>2
    <2> QED BY <2>1, <2>5, <2>6
<1>10. \A j \in 0 .. Depth : j \in Good
    <2>1. Depth \in Nat
        BY DepthAssumption
    <2> HIDE DEF Good
    <2> QED BY <1>8, <1>9, <2>1, UpTo
<1>11. CASE claimed < depth
    <2>1. PICK k \in 0 .. 2 ^ claimed - 1 : held[0][at(0)] = levels[depth - claimed][k]
        <3>1. claimed \in Good /\ claimed - claimed = 0
            BY <1>1, <1>10
        <3> QED BY <1>1, <1>11, <3>1
    <2>2. /\ depth - claimed \in 1 .. depth /\ depth - (depth - claimed) = claimed
        BY <1>1, <1>11
    <2>3. \E a, b : levels[depth - claimed][k] = SortedNode(a, b)
        BY <1>2, <2>1, <2>2 DEF AreLevels
    <2>4. held[0][at(0)] = SortedLeaf(run.values[1]) /\ run.values[1] \in Nat
        <3>1. run.start_index - run.start_index + 1 = 1 /\ 1 \in 1 .. Len(run.values)
            BY <1>4, <1>6
        <3>2. run.start_index \in run.start_index .. RunLast(run)
            BY <1>4
        <3>3. run.values \in Seq(Nat)
            BY DEF WalletRuns
        <3> QED BY <1>3, <1>5, <3>1, <3>2, <3>3 DEF RunBase
    <2> QED BY <2>1, <2>3, <2>4, SortedDigestsAreInjective
<1>12. CASE depth < claimed
    <2>1. PICK k \in 0 .. 2 ^ depth - 1 : held[claimed - depth][at(claimed - depth)] = levels[0][k]
        <3>1. depth \in Good /\ depth - depth = 0
            BY <1>1, <1>10
        <3> QED BY <1>1, <1>12, <3>1
    <2>2. \E a, b : held[claimed - depth][at(claimed - depth)] = SortedNode(a, b)
        <3>1. claimed - depth \in 1 .. claimed
            BY <1>1, <1>12
        <3> QED BY <1>7, <3>1
    <2>3. levels[0][k] = IF k < Len(values) THEN SortedLeaf(values[k + 1]) ELSE SortedPad
        BY <1>2, <2>1 DEF AreLevels
    <2>4. k < Len(values) => values[k + 1] \in Nat
        <3>1. AscendingValues(values) /\ Len(values) = LeafCount /\ LeafCount \in Nat
            BY SnapshotValues, LeafTypes DEF ImtInv, values
        <3>2. 2 ^ depth \in Nat
            BY <1>1, Powers
        <3> SUFFICES ASSUME k < Len(values) PROVE values[k + 1] \in Nat
            OBVIOUS
        <3>3. k + 1 \in 1 .. LeafCount
            BY <2>1, <3>1, <3>2
        <3> QED BY <3>1, <3>3 DEF AscendingValues
    <2>5. PICK a, b : levels[0][k] = SortedNode(a, b)
        BY <2>1, <2>2
    <2>6. CASE k < Len(values)
        BY <2>3, <2>4, <2>5, <2>6, SortedDigestsAreInjective
    <2>7. CASE ~(k < Len(values))
        BY <2>3, <2>5, <2>7, SortedDigestsAreInjective
    <2> QED BY <2>6, <2>7
<1> QED BY <1>1, <1>11, <1>12 DEF claimed, depth

\* Soundness: what verifies is a run of the snapshot's own values.
LEMMA OnlyHonestRuns ==
    ASSUME ImtInv, NEW run, WalletRuns(run), SortedVerifies(SnapshotRoot(SnapshotTree), run)
    PROVE  LET start == run.start_index
               end   == run.start_index + Len(run.values)
           IN  /\ start \in 0 .. LeafCount - 1 /\ end \in 1 .. LeafCount /\ start < end
               /\ run.values = SubSeq(SortedValues, start + 1, end)
<1> DEFINE values == SortedValues
           depth  == SnapshotTree.depth
           levels == SnapshotTree.levels
           first  == run.start_index
           last   == RunLast(run)
           size   == Len(run.values)
<1>1. /\ AscendingValues(values) /\ Len(values) = LeafCount
      /\ depth \in 0 .. Depth /\ AreLevels(levels, values, depth)
    BY SnapshotValues, SnapshotLevels
<1>2. /\ first \in Nat /\ run.values \in Seq(Nat) /\ run.depth = depth
      /\ run.values # <<>> /\ first + size <= 2 ^ depth
      /\ SortedFold(run) = levels[depth][0]
    BY DepthIsPinned DEF WalletRuns, SortedVerifies, SnapshotRoot
<1> HIDE DEF values, depth, levels
<1>3. depth \in Nat /\ 2 ^ depth \in Nat /\ LeafCount \in Nat
    <2>1. LeafCount \in Nat
        BY LeafTypes DEF ImtInv
    <2>2. Depth \in Nat
        BY DepthAssumption
    <2>3. 2 ^ depth \in Nat
        BY <1>1, Powers
    <2> QED BY <1>1, <2>1, <2>2, <2>3
<1>4. size \in Nat /\ size >= 1
    <2>1. size \in Nat
        BY <1>2
    <2>2. size # 0
        BY <1>2, EmptySeq
    <2> QED BY <2>1, <2>2
<1>5. last = first + size - 1
    BY DEF RunLast
<1>6. last \in Nat /\ first <= last /\ last < 2 ^ depth
    BY <1>2, <1>3, <1>4, <1>5
<1> HIDE DEF first, last, size
<1>7. /\ first \in LeafIndex /\ last \in LeafIndex
      /\ \A l \in 0 .. depth :
             /\ Ancestor(first, l) \in Nat /\ Ancestor(last, l) \in Nat
             /\ Ancestor(first, l) <= Ancestor(last, l)
             /\ Ancestor(last, l) < 2 ^ (depth - l) /\ 2 ^ (depth - l) \in Nat
      /\ \A l \in 1 .. depth :
             /\ Ancestor(first, l) = Ancestor(first, l - 1) \div 2
             /\ Ancestor(last, l) = Ancestor(last, l - 1) \div 2
    BY <1>1, <1>2, <1>6, WaysUpInOrder
<1>8. PICK held :
          /\ held[0] = RunBase(run)
          /\ \A l \in 1 .. depth : held[l] = RunStep(run, l, held[l - 1])
          /\ SortedFold(run) = held[depth][Ancestor(first, depth)]
    <2>1. run.depth \in Nat
        BY <1>2, <1>3
    <2> QED BY <1>2, <2>1, SortedFoldUnfolds DEF first
<1> DEFINE span(l) == Ancestor(first, l) .. Ancestor(last, l)
<1>9. Ancestor(first, 0) = first /\ Ancestor(last, 0) = last
    BY <1>7, WayUp
<1>10. held[0] = [k \in first .. last |-> SortedLeaf(run.values[k - first + 1])]
    BY <1>8 DEF RunBase, first, last
<1>11. \A l \in 1 .. depth :
           held[l] = [k \in span(l) |-> SortedNode(RunChild(run, l, held[l - 1], 2 * k),
                                                   RunChild(run, l, held[l - 1], 2 * k + 1))]
    BY <1>8 DEF RunStep, first, last
<1>12. \A l \in 0 .. depth : DOMAIN held[l] = span(l)
    <2> SUFFICES ASSUME NEW l \in 0 .. depth PROVE DOMAIN held[l] = span(l)
        OBVIOUS
    <2>1. CASE l = 0
        BY <1>9, <1>10, <2>1
    <2>2. CASE l # 0
        <3>1. l \in 1 .. depth
            BY <1>3, <2>2
        <3> HIDE DEF span
        <3> QED BY <1>11, <3>1
    <2> QED BY <2>1, <2>2
<1> DEFINE Good == {j \in 0 .. depth : \A k \in span(depth - j) : held[depth - j][k] = levels[depth - j][k]}
<1>13. 0 \in Good
    <2>1. depth - 0 = depth /\ 0 \in 0 .. depth /\ depth \in 0 .. depth /\ depth - depth = 0 /\ 2 ^ 0 = 1
        BY <1>3, Powers
    <2>2. 2 ^ (depth - depth) = 1
        BY <2>1
    <2>3. Ancestor(first, depth) = 0 /\ Ancestor(last, depth) = 0
        BY <1>7, <2>1, <2>2
    <2>4. held[depth][0] = levels[depth][0]
        BY <1>2, <1>8, <2>3
    <2>5. span(depth) = {0}
        BY <2>3
    <2> HIDE DEF span
    <2> QED BY <2>1, <2>4, <2>5
<1>14. ASSUME NEW j \in 1 .. depth, j - 1 \in Good PROVE j \in Good
    <2> DEFINE l == depth - (j - 1)
               child(c) == RunChild(run, l, held[l - 1], c)
    <2>1. /\ l \in 1 .. depth /\ l \in 0 .. depth /\ l - 1 \in 0 .. depth
          /\ depth - j = l - 1 /\ j \in 0 .. depth
        BY <1>3
    <2>2. \A k \in span(l) : held[l][k] = levels[l][k]
        BY <1>14
    <2> HIDE DEF l
    <2>3. ASSUME NEW k \in span(l - 1) PROVE held[l - 1][k] = levels[l - 1][k]
        <3> DEFINE p == k \div 2
        <3>1. k \in Nat /\ p \in Nat /\ (k = 2 * p \/ k = 2 * p + 1)
            <4>1. k \in Nat
                BY <1>7, <2>1
            <4> QED BY <4>1, Pairs
        <3>2. p \in span(l) /\ p \in 0 .. 2 ^ (depth - l) - 1
            <4> DEFINE a == Ancestor(first, l - 1)
                       b == Ancestor(last, l - 1)
            <4>1. a \in Nat /\ b \in Nat /\ a <= k /\ k <= b
                BY <1>7, <2>1
            <4>2. /\ Ancestor(first, l) = a \div 2 /\ Ancestor(last, l) = b \div 2
                  /\ Ancestor(last, l) < 2 ^ (depth - l) /\ 2 ^ (depth - l) \in Nat
                  /\ Ancestor(last, l) \in Nat
                BY <1>7, <2>1
            <4> HIDE DEF a, b
            <4>3. a \div 2 <= p /\ p <= b \div 2 /\ a \div 2 \in Nat
                BY <3>1, <4>1
            <4> HIDE DEF p
            <4> QED BY <3>1, <4>2, <4>3
        <3>3. held[l][p] = SortedNode(child(2 * p), child(2 * p + 1))
            <4> HIDE DEF span, p
            <4> QED BY <1>11, <2>1, <3>2
        <3>4. levels[l][p] = SortedNode(levels[l - 1][2 * p], levels[l - 1][2 * p + 1])
            BY <1>1, <2>1, <3>2 DEF AreLevels
        <3>5. child(k) = held[l - 1][k]
            <4>1. k \in DOMAIN held[l - 1]
                BY <1>12, <2>1
            <4> QED BY <4>1 DEF RunChild
        <3> HIDE DEF p, child
        <3>6. /\ child(2 * p) = levels[l - 1][2 * p]
              /\ child(2 * p + 1) = levels[l - 1][2 * p + 1]
            BY <2>2, <3>2, <3>3, <3>4, SortedDigestsAreInjective
        <3> QED BY <3>1, <3>5, <3>6
    <2> HIDE DEF span
    <2> QED BY <2>1, <2>3
<1>15. \A k \in first .. last : held[0][k] = levels[0][k]
    <2>1. depth \in Good
        <3>1. depth \in 0 .. depth
            BY <1>3
        <3> HIDE DEF Good
        <3> QED BY <1>3, <1>13, <1>14, <3>1, UpTo
    <2>2. depth - depth = 0 /\ span(0) = first .. last
        BY <1>3, <1>9
    <2> HIDE DEF span
    <2> QED BY <2>1, <2>2
<1>16. ASSUME NEW k \in first .. last
       PROVE  k < LeafCount /\ run.values[k - first + 1] = values[k + 1]
    <2> DEFINE u == run.values[k - first + 1]
    <2>1. k \in 0 .. 2 ^ depth - 1 /\ k - first + 1 \in 1 .. size /\ k \in Nat
        BY <1>2, <1>3, <1>4, <1>5, <1>6
    <2>2. u \in Nat
        BY <1>2, <2>1 DEF size
    <2>3. SortedLeaf(u) = levels[0][k]
        BY <1>10, <1>15
    <2>4. levels[0][k] = IF k < LeafCount THEN SortedLeaf(values[k + 1]) ELSE SortedPad
        BY <1>1, <2>1 DEF AreLevels
    <2> HIDE DEF u
    <2>5. k < LeafCount
        BY <2>2, <2>3, <2>4, SortedDigestsAreInjective
    <2>6. values[k + 1] \in Nat
        <3>1. k + 1 \in 1 .. LeafCount
            BY <1>3, <2>1, <2>5
        <3> QED BY <1>1, <3>1 DEF AscendingValues
    <2>7. u = values[k + 1]
        BY <2>2, <2>3, <2>4, <2>5, <2>6, SortedDigestsAreInjective
    <2> QED BY <2>5, <2>7 DEF u
<1> DEFINE end == first + size
<1>17. last < LeafCount
    <2>1. last \in first .. last
        BY <1>2, <1>6
    <2> QED BY <1>16, <2>1
<1>18. first \in 0 .. LeafCount - 1 /\ end \in 1 .. LeafCount /\ first < end /\ end - first = size
    BY <1>2, <1>3, <1>4, <1>5, <1>6, <1>17
<1>19. run.values = SubSeq(values, first + 1, end)
    <2> DEFINE part == SubSeq(values, first + 1, end)
    <2>1. /\ part \in Seq(Nat) /\ Len(part) = size
          /\ \A i \in 1 .. size : part[i] = values[first + i]
        <3> HIDE DEF end
        <3> QED BY <1>1, <1>18, RunMembers
    <2>2. \A i \in 1 .. size : run.values[i] = values[first + i]
        <3> SUFFICES ASSUME NEW i \in 1 .. size PROVE run.values[i] = values[first + i]
            OBVIOUS
        <3> DEFINE k == first + i - 1
        <3>1. k \in first .. last /\ k - first + 1 = i /\ k + 1 = first + i
            BY <1>2, <1>4, <1>5
        <3> HIDE DEF k
        <3>2. run.values[k - first + 1] = values[k + 1]
            BY <1>16, <3>1
        <3> QED BY <3>1, <3>2
    <2>3. run.values \in Seq(Nat) /\ Len(run.values) = size
        BY <1>2 DEF size
    <2> DEFINE list == run.values
    <2> HIDE DEF part, end, size, first, last, values
    <2>4. Len(list) = Len(part) /\ \A i \in 1 .. Len(list) : list[i] = part[i]
        BY <2>1, <2>2, <2>3
    <2>5. list \in Seq(Nat)
        BY <2>3
    <2> HIDE DEF list
    <2>6. list = part
        BY <2>1, <2>4, <2>5, SeqEqual
    <2> QED BY <2>6 DEF list, part
<1> QED BY <1>18, <1>19 DEF first, size, values

\* Whatever values, digests, depth and leaf count a run is made of: if it
\* verifies, it settles nothing wrongly up to its last value; beyond that, only
\* in the topmost bucket or with too few leaves claimed.
NoRunMisleads ==
    \A run : WalletRuns(run) /\ SortedVerifies(SnapshotRoot(SnapshotTree), run) =>
        \A v \in Value :
            \/ Settles(run, v)
            \/ PastTheEnd(run, v) /\ (run.range.hi = Unbounded \/ run.leaf_count < LeafCount)

\* The values are the snapshot's, and the checks of the end bite elsewhere.
LEMMA RunsAreSound == ImtInv => NoRunMisleads
<1> SUFFICES ASSUME ImtInv, NEW run, WalletRuns(run), NEW v \in Value,
                    SortedVerifies(SnapshotRoot(SnapshotTree), run), ~Settles(run, v)
             PROVE  PastTheEnd(run, v) /\ (run.range.hi = Unbounded \/ run.leaf_count < LeafCount)
    BY DEF NoRunMisleads
<1> DEFINE start == run.start_index
           end   == run.start_index + Len(run.values)
           range == run.range
<1>1. /\ start \in 0 .. LeafCount - 1 /\ end \in 1 .. LeafCount /\ start < end
      /\ run.values = SubSeq(SortedValues, start + 1, end)
    BY OnlyHonestRuns
<1>2. AscendingValues(SortedValues) /\ LeafCount \in Nat
    BY SnapshotValues, LeafTypes DEF ImtInv
<1>3. range.hi \in Int /\ run.leaf_count \in Nat
    BY DEF WalletRuns
<1>4. InRange(range, v)
    BY DEF Settles, SortedResolve
<1>5. \/ end >= run.leaf_count \/ range.hi = Unbounded
      \/ run.values[Len(run.values)] >= range.hi
    BY DEF SortedVerifies, SpansRange
<1> HIDE DEF range
<1>6. Len(run.values) = end - start /\ run.values[end - start] = SortedValues[end]
    <2> HIDE DEF start, end
    <2>1. /\ Len(SubSeq(SortedValues, start + 1, end)) = end - start
          /\ \A k \in 1 .. end - start :
                 SubSeq(SortedValues, start + 1, end)[k] = SortedValues[start + k]
        BY <1>1, <1>2, RunMembers
    <2>2. end - start \in 1 .. end - start /\ start + (end - start) = end
        BY <1>1
    <2> QED BY <1>1, <2>1, <2>2
<1> HIDE DEF start, end
<1>7. /\ end < LeafCount /\ PastTheEnd(run, v)
      /\ range.hi = Unbounded \/ SortedValues[end] < range.hi
    BY <1>1, <1>2, <1>3, <1>4, RunsSettleUpToTheirEnd DEF Settles, PastTheEnd, range
<1>8. SortedValues[end] \in Nat /\ end \in Nat
    BY <1>1, <1>2 DEF AscendingValues
<1>9. range.hi = Unbounded \/ run.leaf_count < LeafCount
    BY <1>2, <1>3, <1>5, <1>6, <1>7, <1>8
<1> QED BY <1>7, <1>9 DEF range

\* sorted.rs, verify_cohort and resolve: whatever run a wallet is handed does
\* not verify, or its answers are true up to its last value; beyond, they are
\* true or refused in every bucket but the topmost, unless the run claims fewer
\* leaves than the tree has.
THEOREM RunsNeverMislead == Spec => []NoRunMisleads
<1>1. DigestInv => NoRunMisleads
    BY RunsAreSound DEF DigestInv
<1> QED BY <1>1, DigestAlways, PTL

\* A run of the snapshot, under whatever count, is one a wallet may be handed.
LEMMA RunsAreHandedOver ==
    ASSUME ImtInv, NEW run \in RunsTakenToBeWhole(PrefixRange, Counts)
    PROVE  WalletRuns(run) /\ SortedVerifies(SnapshotRoot(SnapshotTree), run)
<1>1. /\ SnapshotTree.values = SortedValues /\ AscendingValues(SortedValues)
      /\ Len(SortedValues) = LeafCount /\ LeafCount \in Nat
      /\ SnapshotTree.depth \in 0 .. Depth
    BY SnapshotValues, SnapshotLevels, LeafTypes DEF ImtInv
<1>2. SortedVerifies(SnapshotRoot(SnapshotTree), run)
    BY DEF RunsTakenToBeWhole
<1>3. PICK start \in 0 .. LeafCount - 1, end \in 1 .. LeafCount,
           range \in PrefixRange, count \in Counts :
               start < end /\ run = Claiming(RunOf(SnapshotTree, range, start, end), count)
    BY <1>1 DEF RunsTakenToBeWhole
<1>4. /\ run.start_index = start /\ run.values = SubSeq(SortedValues, start + 1, end)
      /\ run.depth = SnapshotTree.depth /\ run.leaf_count = count /\ run.range = range
    BY <1>1, <1>3 DEF Claiming, RunOf
<1>5. SubSeq(SortedValues, start + 1, end) \in Seq(Nat)
    BY <1>1, <1>3, RunMembers
<1>6. count \in Nat
    <2>1. 2 ^ SnapshotTree.depth \in Nat
        BY <1>1, Powers
    <2> QED BY <2>1 DEF Counts
<1>7. range.lo \in Int /\ range.hi \in Int
    <2>1. PICK u \in 0 .. 2 ^ ValueBits - 1, bits \in PrefixBits : range = Covering(u, bits)
        BY DEF PrefixRange
    <2>2. u \in Nat
        <3>1. ValueBits \in 0 .. ValueBits
            BY ValueBitsAssumption
        <3>2. 2 ^ ValueBits \in Nat
            BY <3>1, BucketAssumption
        <3> QED BY <3>2
    <2> QED BY <2>1, <2>2, BucketBounds
<1> QED BY <1>1, <1>2, <1>4, <1>5, <1>6, <1>7 DEF WalletRuns

\* The runs of the snapshot itself among them: under any claimed count, one
\* misleads past its end only, and only where no check of the end bites.
THEOREM SnapshotRunsMisleadOnlyPastTheirEnd == Spec => []RunsMisleadOnlyPastTheirEnd
<1>1. DigestInv => RunsMisleadOnlyPastTheirEnd
    <2> SUFFICES ASSUME DigestInv, NEW run \in RunsTakenToBeWhole(PrefixRange, Counts),
                        NEW v \in Value
                 PROVE  \/ Settles(run, v)
                        \/ PastTheEnd(run, v)
                           /\ (run.range.hi = Unbounded \/ run.leaf_count < LeafCount)
        BY DEF RunsMisleadOnlyPastTheirEnd
    <2>1. NoRunMisleads /\ WalletRuns(run) /\ SortedVerifies(SnapshotRoot(SnapshotTree), run)
        BY RunsAreSound, RunsAreHandedOver DEF DigestInv
    <2> QED BY <2>1 DEF NoRunMisleads
<1> QED BY <1>1, DigestAlways, PTL
=============================================================================
