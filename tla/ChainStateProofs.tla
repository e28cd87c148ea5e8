-------------------------- MODULE ChainStateProofs --------------------------
(***************************************************************************)
(* Lemmas about the operators of ChainState, for every set of outputs and  *)
(* values, every order of pools and every capacity: what a block does to   *)
(* the type of a state, to its outpoint index and to its nullifier trees.  *)
(***************************************************************************)
EXTENDS ChainState, Numbers, FiniteSetTheorems, SequenceTheorems, TLAPS

----------------------------------------------------------------------------
(* Filtered.  Its recursion is over the length of a prefix, and what it    *)
(* computes is shown for the shortest prefix it would be wrong about.      *)

\* f is the recursive function of Filtered, up to a prefix of length m.
Filters(f, s, wanted, m) ==
    f = [n \in 0 .. m |->
            IF n = 0 THEN <<>>
            ELSE IF s[n] \in wanted THEN Append(f[n - 1], s[n])
            ELSE f[n - 1]]

\* What f is at each length.
LEMMA FiltersAt ==
    ASSUME NEW f, NEW s, NEW wanted, NEW m, Filters(f, s, wanted, m), NEW n \in 0 .. m
    PROVE  f[n] = IF n = 0 THEN <<>>
                  ELSE IF s[n] \in wanted THEN Append(f[n - 1], s[n])
                  ELSE f[n - 1]
BY DEF Filters

\* There is such a function up to every length.
LEMMA FiltersExist ==
    ASSUME NEW S, NEW s \in Seq(S), NEW wanted
    PROVE  \A m \in 0 .. Len(s) : \E f : Filters(f, s, wanted, m)
<1> DEFINE Bad == {m \in 0 .. Len(s) : ~ \E f : Filters(f, s, wanted, m)}
<1> SUFFICES ASSUME Bad # {} PROVE FALSE
    OBVIOUS
<1>1. PICK m \in Bad : \A k \in Bad : m <= k
    <2> Bad \in SUBSET Nat
        OBVIOUS
    <2> HIDE DEF Bad
    <2> QED BY SmallestNat
<1>2. CASE m = 0
    <2>1. Filters([n \in 0 .. 0 |-> <<>>], s, wanted, 0)
        BY DEF Filters
    <2> QED BY <2>1, <1>2
<1>3. CASE m # 0
    <2>1. m - 1 \in 0 .. Len(s) /\ m - 1 \notin Bad
        BY <1>1, <1>3
    <2>2. PICK f : Filters(f, s, wanted, m - 1)
        BY <2>1
    <2> DEFINE last == IF s[m] \in wanted THEN Append(f[m - 1], s[m]) ELSE f[m - 1]
               g    == [n \in 0 .. m |-> IF n = m THEN last ELSE f[n]]
    <2>3. m \in Nat /\ \A n \in 0 .. m - 1 : g[n] = f[n]
        BY <1>3
    <2>4. ASSUME NEW n \in 0 .. m
          PROVE  g[n] = IF n = 0 THEN <<>>
                        ELSE IF s[n] \in wanted THEN Append(g[n - 1], s[n])
                        ELSE g[n - 1]
        <3>1. CASE n = m
            BY <2>3, <3>1, <1>3
        <3>2. CASE n # m
            <4>1. n \in 0 .. m - 1 /\ g[n] = f[n] /\ (n # 0 => g[n - 1] = f[n - 1])
                BY <2>3, <3>2
            <4>2. f[n] = IF n = 0 THEN <<>>
                         ELSE IF s[n] \in wanted THEN Append(f[n - 1], s[n])
                         ELSE f[n - 1]
                BY <2>2, <4>1, FiltersAt
            <4> HIDE DEF g
            <4> QED BY <4>1, <4>2
        <3> QED BY <3>1, <3>2
    <2>5. Filters(g, s, wanted, m)
        <3>1. g = [n \in 0 .. m |-> g[n]]
            OBVIOUS
        <3> HIDE DEF g
        <3> QED BY <2>4, <3>1 DEF Filters
    <2> QED BY <2>5, <1>1
<1> QED BY <1>2, <1>3

\* So Filtered is its last value.
LEMMA FilteredUnfolds ==
    ASSUME NEW S, NEW s \in Seq(S), NEW wanted
    PROVE  \E f : Filters(f, s, wanted, Len(s)) /\ Filtered(s, wanted) = f[Len(s)]
<1> DEFINE filtered == CHOOSE f : Filters(f, s, wanted, Len(s))
<1>1. \E f : Filters(f, s, wanted, Len(s))
    <2>1. Len(s) \in 0 .. Len(s)
        BY LenProperties
    <2> QED BY <2>1, FiltersExist
<1>2. Filters(filtered, s, wanted, Len(s))
    BY <1>1
<1>3. Filtered(s, wanted) = filtered[Len(s)]
    BY DEF Filtered, Filters
<1> QED BY <1>2, <1>3

\* Filtered keeps exactly the wanted members.
LEMMA FilteredMembers ==
    ASSUME NEW S, NEW s \in Seq(S), NEW wanted
    PROVE  /\ Filtered(s, wanted) \in Seq(S)
           /\ Range(Filtered(s, wanted)) = Range(s) \cap wanted
<1>1. PICK f : Filters(f, s, wanted, Len(s)) /\ Filtered(s, wanted) = f[Len(s)]
    BY FilteredUnfolds
<1>2. Len(s) \in Nat /\ DOMAIN s = 1 .. Len(s) /\ \A i \in 1 .. Len(s) : s[i] \in S
    BY LenProperties
<1>3. /\ f[0] = <<>>
      /\ \A n \in 1 .. Len(s) :
             f[n] = IF s[n] \in wanted THEN Append(f[n - 1], s[n]) ELSE f[n - 1]
    <2>1. \A n \in 0 .. Len(s) :
              f[n] = IF n = 0 THEN <<>>
                     ELSE IF s[n] \in wanted THEN Append(f[n - 1], s[n])
                     ELSE f[n - 1]
        BY <1>1, FiltersAt
    <2> QED BY <1>2, <2>1
<1> DEFINE Good(n) == /\ f[n] \in Seq(S)
                      /\ Range(f[n]) = {s[i] : i \in 1 .. n} \cap wanted
           Bad == {n \in 0 .. Len(s) : ~Good(n)}
<1>4. Bad = {}
    <2> SUFFICES ASSUME Bad # {} PROVE FALSE
        OBVIOUS
    <2>1. PICK n \in Bad : \A k \in Bad : n <= k
        <3> Bad \in SUBSET Nat
            OBVIOUS
        <3> HIDE DEF Bad
        <3> QED BY SmallestNat
    <2>2. n # 0
        <3>1. Good(0)
            BY <1>3 DEF Range
        <3> QED BY <3>1
    <2>3. n \in 1 .. Len(s) /\ Good(n - 1)
        <3>1. n \in 1 .. Len(s) /\ n - 1 \in 0 .. Len(s) /\ ~(n <= n - 1)
            BY <2>2, <1>2
        <3> HIDE DEF Good
        <3> QED BY <2>1, <3>1
    <2>4. {s[i] : i \in 1 .. n} = {s[i] : i \in 1 .. n - 1} \cup {s[n]}
        BY <2>3, <1>2
    <2>5. CASE s[n] \in wanted
        <3>1. f[n] = Append(f[n - 1], s[n])
            BY <1>3, <2>3, <2>5
        <3>2. f[n] \in Seq(S) /\ Range(f[n]) = Range(f[n - 1]) \cup {s[n]}
            <4>1. f[n - 1] \in Seq(S) /\ s[n] \in S /\ <<s[n]>> \in Seq(S)
                BY <2>3, <1>2
            <4>2. f[n] = f[n - 1] \o <<s[n]>> /\ f[n] \in Seq(S)
                BY <3>1, <4>1, AppendIsConcat, AppendProperties
            <4>3. Range(<<s[n]>>) = {s[n]}
                BY DEF Range
            <4>4. Range(f[n - 1] \o <<s[n]>>) = Range(f[n - 1]) \cup Range(<<s[n]>>)
                BY <4>1, RangeConcatenation, ZenonT(60)
            <4> QED BY <4>2, <4>3, <4>4
        <3>3. Good(n)
            BY <2>3, <2>4, <2>5, <3>2
        <3> QED BY <3>3
    <2>6. CASE s[n] \notin wanted
        <3>1. f[n] = f[n - 1]
            BY <1>3, <2>3, <2>6
        <3>2. Good(n)
            BY <2>3, <2>4, <2>6, <3>1
        <3> QED BY <3>2
    <2> QED BY <2>5, <2>6
<1>5. Good(Len(s))
    <2> HIDE DEF Good
    <2> QED BY <1>2, <1>4
<1>6. Range(s) = {s[i] : i \in 1 .. Len(s)}
    BY RangeEquality
<1> QED BY <1>1, <1>5, <1>6

\* Filtered keeps the order: its members are at increasing places of s.
LEMMA FilteredInOrder ==
    ASSUME NEW S, NEW s \in Seq(S), NEW wanted
    PROVE  \E e \in [1 .. Len(Filtered(s, wanted)) -> 1 .. Len(s)] :
               /\ \A i, j \in 1 .. Len(Filtered(s, wanted)) : i < j => e[i] < e[j]
               /\ \A i \in 1 .. Len(Filtered(s, wanted)) : Filtered(s, wanted)[i] = s[e[i]]
<1>1. PICK f : Filters(f, s, wanted, Len(s)) /\ Filtered(s, wanted) = f[Len(s)]
    BY FilteredUnfolds
<1>2. Len(s) \in Nat /\ \A i \in 1 .. Len(s) : s[i] \in S
    BY LenProperties
<1>3. /\ f[0] = <<>>
      /\ \A n \in 1 .. Len(s) :
             f[n] = IF s[n] \in wanted THEN Append(f[n - 1], s[n]) ELSE f[n - 1]
    <2>1. \A n \in 0 .. Len(s) :
              f[n] = IF n = 0 THEN <<>>
                     ELSE IF s[n] \in wanted THEN Append(f[n - 1], s[n])
                     ELSE f[n - 1]
        BY <1>1, FiltersAt
    <2> QED BY <1>2, <2>1
<1> DEFINE Places(e, n) ==
               /\ e \in [1 .. Len(f[n]) -> 1 .. n]
               /\ \A i, j \in 1 .. Len(f[n]) : i < j => e[i] < e[j]
               /\ \A i \in 1 .. Len(f[n]) : f[n][i] = s[e[i]]
           Good == {n \in 0 .. Len(s) : f[n] \in Seq(S) /\ \E e : Places(e, n)}
<1>4. 0 \in Good
    <2>1. f[0] \in Seq(S) /\ Len(f[0]) = 0
        BY <1>3
    <2> DEFINE e == [i \in 1 .. 0 |-> i]
    <2>2. Places(e, 0)
        BY <2>1
    <2> QED BY <1>2, <2>1, <2>2
<1>5. ASSUME NEW n \in 1 .. Len(s), n - 1 \in Good PROVE n \in Good
    <2>1. n \in 0 .. Len(s)
        BY <1>2
    <2>2. PICK e : Places(e, n - 1)
        BY <1>5
    <2>3. CASE s[n] \notin wanted
        <3>1. f[n] = f[n - 1]
            BY <1>3, <2>3
        <3>2. Places(e, n)
            BY <2>2, <3>1
        <3> QED BY <1>5, <2>1, <3>1, <3>2
    <2>4. CASE s[n] \in wanted
        <3>1. f[n] = Append(f[n - 1], s[n]) /\ f[n - 1] \in Seq(S) /\ s[n] \in S
            BY <1>2, <1>3, <1>5, <2>4
        <3>2. /\ f[n] \in Seq(S) /\ Len(f[n]) = Len(f[n - 1]) + 1 /\ Len(f[n - 1]) \in Nat
              /\ \A i \in 1 .. Len(f[n - 1]) : f[n][i] = f[n - 1][i]
              /\ f[n][Len(f[n - 1]) + 1] = s[n]
            BY <3>1, AppendProperties
        <3> DEFINE l == Len(f[n - 1])
                   g == [i \in 1 .. l + 1 |-> IF i = l + 1 THEN n ELSE e[i]]
        <3>3. /\ l \in Nat /\ e \in [1 .. l -> 1 .. n - 1]
              /\ \A i, j \in 1 .. l : i < j => e[i] < e[j]
              /\ \A i \in 1 .. l : f[n - 1][i] = s[e[i]]
            BY <2>2, <3>2
        <3>4. Len(f[n]) = l + 1
            BY <3>2
        <3>5. \A i \in 1 .. l : f[n][i] = f[n - 1][i]
            BY <3>2
        <3>6. f[n][l + 1] = s[n]
            BY <3>2
        <3> HIDE DEF l
        <3>7. g \in [1 .. l + 1 -> 1 .. n]
            BY <3>3
        <3>8. \A i, j \in 1 .. l + 1 : i < j => g[i] < g[j]
            BY <3>3
        <3>9. ASSUME NEW i \in 1 .. l + 1 PROVE f[n][i] = s[g[i]]
            <4>1. CASE i = l + 1
                BY <3>6, <4>1
            <4>2. CASE i # l + 1
                <5>1. i \in 1 .. l /\ g[i] = e[i]
                    BY <3>3, <4>2
                <5> HIDE DEF g
                <5> QED BY <3>3, <3>5, <5>1
            <4> QED BY <4>1, <4>2
        <3> HIDE DEF g
        <3>10. Places(g, n)
            BY <3>4, <3>7, <3>8, <3>9
        <3> QED BY <2>1, <3>2, <3>10
    <2> QED BY <2>3, <2>4
<1>6. Len(s) \in Good
    <2> HIDE DEF Good
    <2>1. \A k \in 0 .. Len(s) : k \in Good
        BY <1>2, <1>4, <1>5, UpTo
    <2> QED BY <1>2, <2>1
<1>7. PICK e : Places(e, Len(s))
    BY <1>6
<1> QED BY <1>1, <1>7

\* What is not repeated in s is not repeated in Filtered.
LEMMA FilteredNoRepeat ==
    ASSUME NEW S, NEW s \in Seq(S), NEW wanted, NoRepeat(s)
    PROVE  NoRepeat(Filtered(s, wanted))
<1>1. PICK e \in [1 .. Len(Filtered(s, wanted)) -> 1 .. Len(s)] :
          /\ \A i, j \in 1 .. Len(Filtered(s, wanted)) : i < j => e[i] < e[j]
          /\ \A i \in 1 .. Len(Filtered(s, wanted)) : Filtered(s, wanted)[i] = s[e[i]]
    BY FilteredInOrder
<1>2. Filtered(s, wanted) \in Seq(S)
    BY FilteredMembers
<1> DEFINE r == Filtered(s, wanted)
<1> HIDE DEF r
<1>3. ASSUME NEW i \in DOMAIN r, NEW j \in DOMAIN r, r[i] = r[j] PROVE i = j
    <2>1. i \in 1 .. Len(r) /\ j \in 1 .. Len(r) /\ Len(r) \in Nat
        BY <1>2 DEF r
    <2>2. s[e[i]] = s[e[j]] /\ e[i] \in DOMAIN s /\ e[j] \in DOMAIN s
        BY <1>1, <1>3, <2>1 DEF r
    <2>3. e[i] = e[j]
        BY <2>2 DEF NoRepeat, IsInjective
    <2>4. ~(e[i] < e[j]) /\ ~(e[j] < e[i])
        <3>1. e[i] \in Int
            BY <1>1, <2>1 DEF r
        <3> QED BY <2>3, <3>1
    <2>5. ~(i < j) /\ ~(j < i)
        BY <1>1, <2>1, <2>4 DEF r
    <2> QED BY <2>1, <2>5
<1> QED BY <1>3 DEF NoRepeat, IsInjective, r

----------------------------------------------------------------------------
(* The type of a state.                                                    *)

CallForest == [calls : Seq({"delete", "insert"} \X Seq(Leaf)), live : SUBSET Leaf]
Index  == UNION {[outpoints -> Leaf] : outpoints \in SUBSET OutPoint}
State  == [utxos : CallForest, utxo_index : Index, nullifiers : [Pool -> Seq(Value)],
           tip : Nat \cup {NoTip}]

\* What a new state holds.
LEMMA NewStateType ==
    /\ NewState \in State
    /\ NewState.utxos.live = {} /\ DOMAIN NewState.utxo_index = {}
    /\ NewState.tip = NoTip
    /\ \A p \in Pool : NewState.nullifiers[p] = <<>>
<1>1. EmptyForest \in CallForest
    BY DEF EmptyForest, CallForest
<1>2. [o \in {} |-> o] \in Index
    <2>1. [o \in {} |-> o] \in [{} -> Leaf]
        OBVIOUS
    <2> QED BY <2>1 DEF Index
<1>3. [p \in Pool |-> <<>>] \in [Pool -> Seq(Value)]
    OBVIOUS
<1> QED BY <1>1, <1>2, <1>3 DEF NewState, State, EmptyForest

\* What an index is made of.
LEMMA IndexType ==
    ASSUME NEW index \in Index
    PROVE  /\ DOMAIN index \subseteq OutPoint
           /\ \A o \in DOMAIN index : index[o] \in Leaf
           /\ index \in [DOMAIN index -> Leaf]
<1>1. PICK outpoints \in SUBSET OutPoint : index \in [outpoints -> Leaf]
    BY DEF Index
<1> QED BY <1>1

\* A map from outpoints to leaves is an index.
LEMMA IndexIntro ==
    ASSUME NEW outpoints \in SUBSET OutPoint, NEW index \in [outpoints -> Leaf]
    PROVE  index \in Index
BY DEF Index

\* What a block is made of.
LEMMA BlockType ==
    ASSUME NEW block \in BlockSummary
    PROVE  /\ block.height \in Nat
           /\ block.transparent_spends \in Seq(OutPoint)
           /\ block.transparent_creates \in Seq(OutPoint)
           /\ block.nullifiers \in [Pool -> Seq(Value)]
           /\ \A p \in Pool : block.nullifiers[p] \in Seq(Value)
BY DEF BlockSummary

\* A block spends the indexed leaves of its spends.
LEMMA SpentLeavesFacts ==
    ASSUME NEW state \in State, NEW block \in BlockSummary
    PROVE  /\ SpentLeaves(state, block) \in Seq(Leaf)
           /\ Range(SpentLeaves(state, block)) =
                  {state.utxo_index[o] :
                      o \in Range(block.transparent_spends) \cap DOMAIN state.utxo_index}
<1> DEFINE hits == Filtered(block.transparent_spends, DOMAIN state.utxo_index)
           index == state.utxo_index
<1>1. /\ hits \in Seq(OutPoint)
      /\ Range(hits) = Range(block.transparent_spends) \cap DOMAIN index
    BY BlockType, FilteredMembers
<1>2. index \in Index
    BY DEF State
<1> HIDE DEF hits, index
<1>3. DOMAIN hits = 1 .. Len(hits) /\ Len(hits) \in Nat /\ Range(hits) = {hits[i] : i \in 1 .. Len(hits)}
    BY <1>1, LenProperties, RangeEquality
<1>4. \A i \in 1 .. Len(hits) : index[hits[i]] \in Leaf
    BY <1>1, <1>2, <1>3, IndexType
<1> DEFINE leaves == [i \in DOMAIN hits |-> index[hits[i]]]
<1>5. leaves \in Seq(Leaf)
    BY <1>3, <1>4
<1>6. Range(leaves) = {index[o] : o \in Range(hits)}
    BY <1>3 DEF Range
<1>7. SpentLeaves(state, block) = leaves
    BY DEF SpentLeaves, hits, index
<1> QED BY <1>1, <1>5, <1>6, <1>7 DEF index

\* A block adds a leaf of its height for every output it does not itself spend.
LEMMA CreatedLeavesFacts ==
    ASSUME NEW state, NEW block \in BlockSummary
    PROVE  /\ CreatedLeaves(state, block) \in Seq(Leaf)
           /\ Range(CreatedLeaves(state, block)) =
                  {[outpoint |-> o, height |-> block.height] :
                      o \in Range(block.transparent_creates) \ Cancelled(state, block)}
<1> DEFINE creates == block.transparent_creates
           kept == Filtered(creates, Range(creates) \ Cancelled(state, block))
           leaf(o) == [outpoint |-> o, height |-> block.height]
<1>1. /\ kept \in Seq(OutPoint)
      /\ Range(kept) = Range(creates) \ Cancelled(state, block)
    <2>1. creates \in Seq(OutPoint)
        BY BlockType
    <2> HIDE DEF creates
    <2>2. kept \in Seq(OutPoint)
        BY <2>1, FilteredMembers
    <2>3. Range(kept) = Range(creates) \cap (Range(creates) \ Cancelled(state, block))
        BY <2>1, FilteredMembers
    <2> HIDE DEF kept
    <2> QED BY <2>2, <2>3
<1> HIDE DEF kept
<1>2. DOMAIN kept = 1 .. Len(kept) /\ Len(kept) \in Nat /\ \A i \in 1 .. Len(kept) : kept[i] \in OutPoint
    BY <1>1, LenProperties
<1>3. \A i \in 1 .. Len(kept) : leaf(kept[i]) \in Leaf
    BY <1>2, BlockType DEF Leaf
<1> DEFINE leaves == [i \in DOMAIN kept |-> leaf(kept[i])]
<1>4. leaves \in Seq(Leaf)
    BY <1>2, <1>3
<1>5. Range(leaves) = {leaf(o) : o \in Range(kept)}
    BY DEF Range
<1>6. CreatedLeaves(state, block) = leaves
    BY DEF CreatedLeaves, kept
<1> QED BY <1>1, <1>4, <1>5, <1>6

----------------------------------------------------------------------------
(* The forest and the index under a block.                                 *)

\* Sequences of the same length that continue in the same way were the same.
LEMMA ConcatCancels ==
    ASSUME NEW S, NEW s \in Seq(S), NEW t \in Seq(S), NEW u \in Seq(S), NEW v \in Seq(S),
           Len(s) = Len(t), s \o u = t \o v
    PROVE  s = t /\ u = v
<1>1. /\ Len(s) \in Nat /\ Len(u) \in Nat /\ Len(v) \in Nat
      /\ Len(s \o u) = Len(s) + Len(u) /\ Len(t \o v) = Len(s) + Len(v)
    BY LenProperties, ConcatProperties
<1>2. Len(u) = Len(v)
    BY <1>1
<1>3. \A i \in 1 .. Len(s) : s[i] = t[i]
    <2> TAKE i \in 1 .. Len(s)
    <2>1. (s \o u)[i] = s[i] /\ (t \o v)[i] = t[i]
        BY <1>1, <1>2, ConcatProperties
    <2> QED BY <2>1
<1>4. \A i \in 1 .. Len(u) : u[i] = v[i]
    <2> TAKE i \in 1 .. Len(u)
    <2>1. Len(s) + i \in 1 .. Len(s) + Len(u) /\ ~(Len(s) + i <= Len(s))
          /\ Len(s) + i - Len(s) = i
        BY <1>1
    <2>2. (s \o u)[Len(s) + i] = u[i] /\ (t \o v)[Len(s) + i] = v[i]
        BY <1>1, <1>2, <2>1, ConcatProperties
    <2> QED BY <2>2
<1> QED BY <1>2, <1>3, <1>4, SeqEqual

\* A sequence has finitely many members.
LEMMA FiniteRange ==
    ASSUME NEW S, NEW s \in Seq(S)
    PROVE  IsFiniteSet(Range(s)) /\ Range(s) \subseteq S
<1>1. Len(s) \in Nat /\ DOMAIN s = 1 .. Len(s) /\ \A i \in 1 .. Len(s) : s[i] \in S
    BY LenProperties
<1>2. IsFiniteSet(DOMAIN s)
    BY <1>1, FS_Interval
<1>3. s \in Surjection(DOMAIN s, Range(s))
    <2>1. s \in [DOMAIN s -> Range(s)]
        <3>1. s = [i \in DOMAIN s |-> s[i]]
            BY <1>1
        <3> QED BY <3>1 DEF Range
    <2> QED BY <2>1 DEF Surjection, Range
<1> QED BY <1>1, <1>2, <1>3, FS_Surjection DEF Range

\* An empty sequence has no members.
LEMMA EmptyRange == Range(<<>>) = {}
BY DEF Range

\* What deleting leaves makes of a forest.
LEMMA ForestDeletesFacts ==
    ASSUME NEW forest \in CallForest, NEW hashes \in Seq(Leaf)
    PROVE  /\ ForestDeletes(forest, hashes) \in CallForest
           /\ ForestDeletes(forest, hashes).live = forest.live \ Range(hashes)
<1>1. CASE hashes = <<>>
    BY <1>1, EmptyRange DEF ForestDeletes, CallForest
<1>2. CASE hashes # <<>>
    <2>1. <<"delete", hashes>> \in {"delete", "insert"} \X Seq(Leaf)
        OBVIOUS
    <2>2. Append(forest.calls, <<"delete", hashes>>) \in Seq({"delete", "insert"} \X Seq(Leaf))
        BY <2>1, AppendProperties DEF CallForest
    <2> QED BY <1>2, <2>2 DEF ForestDeletes, CallForest
<1> QED BY <1>1, <1>2

\* What inserting leaves makes of a forest.
LEMMA ForestInsertsFacts ==
    ASSUME NEW forest \in CallForest, NEW hashes \in Seq(Leaf)
    PROVE  /\ ForestInserts(forest, hashes) \in CallForest
           /\ ForestInserts(forest, hashes).live = forest.live \cup Range(hashes)
<1>1. CASE hashes = <<>>
    BY <1>1, EmptyRange DEF ForestInserts, CallForest
<1>2. CASE hashes # <<>>
    <2>1. <<"insert", hashes>> \in {"delete", "insert"} \X Seq(Leaf)
        OBVIOUS
    <2>2. Append(forest.calls, <<"insert", hashes>>) \in Seq({"delete", "insert"} \X Seq(Leaf))
        BY <2>1, AppendProperties DEF CallForest
    <2>3. Range(hashes) \subseteq Leaf
        BY RangeOfSeq
    <2> QED BY <1>2, <2>2, <2>3 DEF ForestInserts, CallForest
<1> QED BY <1>1, <1>2

\* What removing outpoints makes of an index.
LEMMA IndexWithoutFacts ==
    ASSUME NEW index \in Index, NEW outpoints
    PROVE  /\ IndexWithout(index, outpoints) \in Index
           /\ DOMAIN IndexWithout(index, outpoints) = DOMAIN index \ outpoints
           /\ \A o \in DOMAIN index \ outpoints : IndexWithout(index, outpoints)[o] = index[o]
<1>1. DOMAIN index \ outpoints \in SUBSET OutPoint
    BY IndexType
<1>2. IndexWithout(index, outpoints) \in [DOMAIN index \ outpoints -> Leaf]
    BY IndexType DEF IndexWithout
<1> QED BY <1>1, <1>2, IndexIntro DEF IndexWithout

\* Leaves whose outpoints differ all find their way into the index.
LEMMA IndexWithFacts ==
    ASSUME NEW index \in Index, NEW created \in Seq(Leaf),
           \A x, y \in Range(created) : x.outpoint = y.outpoint => x = y
    PROVE  /\ IndexWith(index, created) \in Index
           /\ DOMAIN IndexWith(index, created) = DOMAIN index \cup Outpoints(created)
           /\ \A x \in Range(created) : IndexWith(index, created)[x.outpoint] = x
           /\ \A o \in DOMAIN index \ Outpoints(created) :
                  IndexWith(index, created)[o] = index[o]
<1> DEFINE added(o) == CHOOSE leaf \in Range(created) : leaf.outpoint = o
           f == [o \in DOMAIN index \cup Outpoints(created) |->
                    IF o \in Outpoints(created) THEN added(o) ELSE index[o]]
<1>1. Range(created) \subseteq Leaf
    BY RangeOfSeq
<1>2. \A x \in Range(created) : x.outpoint \in OutPoint /\ x.outpoint \in Outpoints(created)
    BY <1>1 DEF Leaf, Outpoints
<1>3. \A o \in Outpoints(created) : o \in OutPoint /\ \E x \in Range(created) : x.outpoint = o
    BY <1>2 DEF Outpoints
<1>4. \A o \in Outpoints(created) : added(o) \in Range(created) /\ added(o).outpoint = o
    BY <1>3
<1>5. \A x \in Range(created) : added(x.outpoint) = x
    BY <1>2, <1>4
<1> HIDE DEF added
<1>6. DOMAIN index \cup Outpoints(created) \in SUBSET OutPoint
    BY <1>3, IndexType
<1>7. \A o \in DOMAIN index \cup Outpoints(created) :
          (IF o \in Outpoints(created) THEN added(o) ELSE index[o]) \in Leaf
    BY <1>1, <1>4, IndexType
<1>8. f \in [DOMAIN index \cup Outpoints(created) -> Leaf]
    BY <1>7
<1>9. f \in Index
    <2> HIDE DEF f
    <2> QED BY <1>6, <1>8, IndexIntro
<1>10. IndexWith(index, created) = f
    BY DEF IndexWith, Outpoints, added
<1> QED BY <1>2, <1>5, <1>9, <1>10

\* The forest holds exactly the leaves of the index, each under its outpoint.
Matching(state) ==
    /\ {state.utxo_index[o] : o \in DOMAIN state.utxo_index} = state.utxos.live
    /\ \A o \in DOMAIN state.utxo_index : state.utxo_index[o].outpoint = o

\* The outputs a block leaves in a state, and the leaves they are indexed under.
UnspentAfter(state, block) ==
    (DOMAIN state.utxo_index \ Range(block.transparent_spends))
        \cup (Range(block.transparent_creates) \ Cancelled(state, block))

\* The transparent half of a block: the index is left with the outputs unspent,
\* and the forest with their leaves.
LEMMA TransparentFacts ==
    ASSUME NEW state \in State, NEW block \in BlockSummary, Matching(state),
           Range(block.transparent_creates) \cap DOMAIN state.utxo_index = {}
    PROVE  LET next == WithTransparent(state, Delta(state, block))
           IN  /\ next \in State
               /\ next.nullifiers = state.nullifiers /\ next.tip = state.tip
               /\ DOMAIN next.utxo_index = UnspentAfter(state, block)
               /\ \A o \in DOMAIN state.utxo_index \ Range(block.transparent_spends) :
                      next.utxo_index[o] = state.utxo_index[o]
               /\ \A o \in Range(block.transparent_creates) \ Cancelled(state, block) :
                      next.utxo_index[o] = [outpoint |-> o, height |-> block.height]
               /\ Matching(next)
<1> DEFINE spent == SpentLeaves(state, block)
           created == CreatedLeaves(state, block)
           spends == Range(block.transparent_spends)
           new == Range(block.transparent_creates) \ Cancelled(state, block)
           leaf(o) == [outpoint |-> o, height |-> block.height]
           index == state.utxo_index
           less == IndexWithout(index, Outpoints(spent))
           more == IndexWith(less, created)
           pruned == ForestDeletes(state.utxos, spent)
           grown == ForestInserts(pruned, created)
           next == WithTransparent(state, Delta(state, block))
<1>1. /\ index \in Index /\ state.utxos \in CallForest
      /\ state = [utxos |-> state.utxos, utxo_index |-> index,
                  nullifiers |-> state.nullifiers, tip |-> state.tip]
    BY DEF State
<1>2. /\ spent \in Seq(Leaf) /\ created \in Seq(Leaf)
      /\ Range(spent) = {index[o] : o \in spends \cap DOMAIN index}
      /\ Range(created) = {leaf(o) : o \in new}
    BY SpentLeavesFacts, CreatedLeavesFacts
<1>3. next = [utxos |-> grown, utxo_index |-> more,
              nullifiers |-> state.nullifiers, tip |-> state.tip]
    <2>1. /\ Delta(state, block).spent = spent
          /\ Delta(state, block).created = created
        BY DEF Delta
    <2>2. next = [state EXCEPT
                    !.utxos      = ForestInserts(ForestDeletes(@, spent), created),
                    !.utxo_index = IndexWith(IndexWithout(@, Outpoints(spent)), created)]
        BY <2>1 DEF WithTransparent
    <2> HIDE DEF spent, created, next
    <2> QED BY <1>1, <2>2
<1> HIDE DEF spent, created, next
<1>4. Outpoints(spent) = spends \cap DOMAIN index
    <2>1. \A o \in spends \cap DOMAIN index : index[o].outpoint = o
        BY DEF Matching
    <2> HIDE DEF index, spends
    <2>2. Outpoints(spent) = {x.outpoint : x \in Range(spent)}
        BY DEF Outpoints
    <2>3. ASSUME NEW x \in Range(spent) PROVE x.outpoint \in spends \cap DOMAIN index
        BY <1>2, <2>1
    <2>4. ASSUME NEW o \in spends \cap DOMAIN index PROVE o \in {x.outpoint : x \in Range(spent)}
        <3>1. index[o] \in Range(spent) /\ index[o].outpoint = o
            BY <1>2, <2>1
        <3> QED BY <3>1
    <2> QED BY <2>2, <2>3, <2>4
<1> HIDE DEF new
<1>5. Outpoints(created) = new
    <2>1. ASSUME NEW x \in Range(created) PROVE x.outpoint \in new
        BY <1>2
    <2>2. ASSUME NEW o \in new PROVE o \in {x.outpoint : x \in Range(created)}
        <3>1. leaf(o) \in Range(created) /\ leaf(o).outpoint = o
            BY <1>2
        <3> QED BY <3>1
    <2> QED BY <2>1, <2>2 DEF Outpoints
<1>6. /\ less \in Index /\ DOMAIN less = DOMAIN index \ spends
      /\ \A o \in DOMAIN index \ spends : less[o] = index[o]
    <2> HIDE DEF index, spends
    <2>1. less = IndexWithout(index, spends \cap DOMAIN index)
        BY <1>4
    <2>2. DOMAIN index \ (spends \cap DOMAIN index) = DOMAIN index \ spends
        OBVIOUS
    <2> HIDE DEF less
    <2>3. LET gone == spends \cap DOMAIN index
          IN  /\ IndexWithout(index, gone) \in Index
              /\ DOMAIN IndexWithout(index, gone) = DOMAIN index \ gone
              /\ \A o \in DOMAIN index \ gone : IndexWithout(index, gone)[o] = index[o]
        BY <1>1, IndexWithoutFacts
    <2> QED BY <2>1, <2>2, <2>3
<1>7. /\ pruned \in CallForest /\ pruned.live = state.utxos.live \ Range(spent)
      /\ grown \in CallForest /\ grown.live = pruned.live \cup Range(created)
    BY <1>1, <1>2, ForestDeletesFacts, ForestInsertsFacts
<1>8. \A x, y \in Range(created) : x.outpoint = y.outpoint => x = y
    BY <1>2
<1> HIDE DEF less, pruned
<1>9. /\ more \in Index /\ DOMAIN more = DOMAIN less \cup new
      /\ \A x \in Range(created) : more[x.outpoint] = x
      /\ \A o \in DOMAIN less \ new : more[o] = less[o]
    BY <1>2, <1>5, <1>6, <1>8, IndexWithFacts
<1> HIDE DEF more, grown
<1>10. \A o \in new : more[o] = leaf(o)
    BY <1>2, <1>9
<1>11. new \cap DOMAIN index = {}
    BY DEF new
<1>12. \A o \in DOMAIN index \ spends : more[o] = index[o]
    BY <1>6, <1>9, <1>11
<1>13. DOMAIN more = (DOMAIN index \ spends) \cup new
    BY <1>6, <1>9
<1>14. {more[o] : o \in DOMAIN more}
           = {index[o] : o \in DOMAIN index \ spends} \cup {leaf(o) : o \in new}
    BY <1>10, <1>12, <1>13
<1>15. {index[o] : o \in DOMAIN index \ spends} = state.utxos.live \ Range(spent)
    BY <1>2 DEF Matching
<1>16. {more[o] : o \in DOMAIN more} = grown.live
    BY <1>2, <1>7, <1>14, <1>15
<1>17. \A o \in DOMAIN more : more[o].outpoint = o
    BY <1>10, <1>12, <1>13 DEF Matching
<1>18. Matching(next)
    BY <1>3, <1>16, <1>17 DEF Matching
<1>19. next \in State
    BY <1>3, <1>7, <1>9 DEF State
<1>20. DOMAIN next.utxo_index = UnspentAfter(state, block)
    BY <1>3, <1>13 DEF UnspentAfter, new
<1>21. next.utxo_index = more /\ next.nullifiers = state.nullifiers /\ next.tip = state.tip
    BY <1>3
<1> QED BY <1>10, <1>12, <1>18, <1>19, <1>20, <1>21 DEF next, new

\* A whole block: the transparent half, then the nullifiers.
LEMMA AppliedFacts ==
    ASSUME NEW state \in State, NEW block \in BlockSummary, Matching(state),
           Range(block.transparent_creates) \cap DOMAIN state.utxo_index = {}
    PROVE  LET transparent == WithTransparent(state, Delta(state, block))
               next == Applied(state, block)
           IN  /\ next \in State
               /\ next.tip = block.height
               /\ next.utxos = transparent.utxos /\ next.utxo_index = transparent.utxo_index
               /\ \A p \in Pool : next.nullifiers[p] = state.nullifiers[p] \o block.nullifiers[p]
               /\ Matching(next)
<1> DEFINE transparent == WithTransparent(state, Delta(state, block))
           longer == [p \in Pool |-> state.nullifiers[p] \o block.nullifiers[p]]
<1>1. /\ transparent \in State /\ Matching(transparent)
      /\ transparent.nullifiers = state.nullifiers
    BY TransparentFacts
<1>2. Applied(state, block) = [utxos |-> transparent.utxos, utxo_index |-> transparent.utxo_index,
                               nullifiers |-> longer, tip |-> block.height]
    <2> HIDE DEF transparent
    <2>1. transparent = [utxos |-> transparent.utxos, utxo_index |-> transparent.utxo_index,
                         nullifiers |-> transparent.nullifiers, tip |-> transparent.tip]
        BY <1>1 DEF State
    <2>2. Applied(state, block) =
              [transparent EXCEPT !.nullifiers = [p \in Pool |-> @[p] \o block.nullifiers[p]],
                                  !.tip = block.height]
        BY DEF Applied, transparent
    <2> QED BY <1>1, <2>1, <2>2, ZenonT(60)
<1> HIDE DEF transparent
<1>3. longer \in [Pool -> Seq(Value)]
    <2>1. \A p \in Pool : state.nullifiers[p] \in Seq(Value) /\ block.nullifiers[p] \in Seq(Value)
        BY BlockType DEF State
    <2> QED BY <2>1, ConcatProperties
<1>4. Applied(state, block) \in State
    BY <1>1, <1>2, <1>3, BlockType DEF State
<1>5. Matching(Applied(state, block))
    BY <1>1, <1>2 DEF Matching
<1>6. /\ Applied(state, block).tip = block.height
      /\ Applied(state, block).utxos = transparent.utxos
      /\ Applied(state, block).utxo_index = transparent.utxo_index
      /\ \A p \in Pool : Applied(state, block).nullifiers[p] = longer[p]
    <2> HIDE DEF longer
    <2> QED BY <1>2
<1> QED BY <1>4, <1>5, <1>6 DEF transparent
=============================================================================
