--------------------------- MODULE CompactProofs ----------------------------
(***************************************************************************)
(* Proofs about module Compact: a compact node that keeps no outputs and   *)
(* no nullifiers, and is served bundles from any branch, holds what a cold *)
(* replay of the blocks it accepted holds, and accepts valid chains only;  *)
(* a node in step with the bridge can follow it; and the bridge keeps the  *)
(* bundles of its newest blocks.                                           *)
(*                                                                         *)
(* A proof that verifies against the node's roots can only be about leaves *)
(* of its own chain, so that the spends of a block fall into those proved  *)
(* and those of the block's own outputs exactly as they would for a node   *)
(* with an index of the outputs.                                           *)
(***************************************************************************)
EXTENDS Compact, ChainStateProofs, FiniteSetTheorems

----------------------------------------------------------------------------
(* The recursive operators, one more element at a time.                    *)

\* f is the recursive function of Added, up to a prefix of length m.
Adds(f, forest, s, m) ==
    f = [n \in 0 .. m |-> IF n = 0 THEN forest ELSE AddedLeaf(f[n - 1], s[n])]

\* It exists,
LEMMA AddsExist ==
    ASSUME NEW forest, NEW s, NEW m \in Nat
    PROVE  \E f : Adds(f, forest, s, m)
<1> DEFINE Good == {k \in 0 .. m : \E f : Adds(f, forest, s, k)}
<1>1. 0 \in Good
    <2>1. Adds([n \in 0 .. 0 |-> forest], forest, s, 0)
        BY DEF Adds
    <2> QED BY <2>1
<1>2. ASSUME NEW k \in 1 .. m, k - 1 \in Good PROVE k \in Good
    <2>1. PICK f : Adds(f, forest, s, k - 1)
        BY <1>2
    <2> DEFINE g == [n \in 0 .. k |-> IF n = k THEN AddedLeaf(f[k - 1], s[k]) ELSE f[n]]
    <2>2. k \in Nat /\ \A n \in 0 .. k - 1 : g[n] = f[n]
        BY <1>2
    <2>3. ASSUME NEW n \in 0 .. k
          PROVE  g[n] = IF n = 0 THEN forest ELSE AddedLeaf(g[n - 1], s[n])
        <3>1. CASE n = k
            BY <1>2, <2>2, <3>1
        <3>2. CASE n # k
            <4>1. n \in 0 .. k - 1 /\ g[n] = f[n] /\ (n # 0 => g[n - 1] = f[n - 1])
                BY <2>2, <3>2
            <4>2. f[n] = IF n = 0 THEN forest ELSE AddedLeaf(f[n - 1], s[n])
                BY <2>1, <4>1 DEF Adds
            <4> HIDE DEF g
            <4> QED BY <4>1, <4>2
        <3> QED BY <3>1, <3>2
    <2>4. g = [n \in 0 .. k |-> g[n]]
        OBVIOUS
    <2> HIDE DEF g
    <2>5. Adds(g, forest, s, k)
        BY <2>3, <2>4 DEF Adds
    <2> QED BY <2>2, <2>5, <1>2
<1> HIDE DEF Good
<1>3. m \in Good
    BY <1>1, <1>2, UpTo
<1> QED BY <1>3 DEF Good

\* and sees nothing but the prefix.
LEMMA AddsAgree ==
    ASSUME NEW forest, NEW s, NEW t, NEW f, NEW g, NEW m \in Nat, NEW n \in Nat, m <= n,
           Adds(f, forest, s, m), Adds(g, forest, t, n), \A i \in 1 .. m : s[i] = t[i]
    PROVE  f[m] = g[m]
<1> DEFINE Good == {k \in 0 .. m : f[k] = g[k]}
<1>1. \A k \in 0 .. m :
          /\ f[k] = IF k = 0 THEN forest ELSE AddedLeaf(f[k - 1], s[k])
          /\ g[k] = IF k = 0 THEN forest ELSE AddedLeaf(g[k - 1], t[k])
    <2>1. \A k \in 0 .. m : f[k] = IF k = 0 THEN forest ELSE AddedLeaf(f[k - 1], s[k])
        BY DEF Adds
    <2>2. \A k \in 0 .. n : g[k] = IF k = 0 THEN forest ELSE AddedLeaf(g[k - 1], t[k])
        BY DEF Adds
    <2> QED BY <2>1, <2>2
<1>2. 0 \in Good
    BY <1>1
<1>3. ASSUME NEW k \in 1 .. m, k - 1 \in Good PROVE k \in Good
    BY <1>1, <1>3
<1> HIDE DEF Good
<1>4. m \in Good
    BY <1>2, <1>3, UpTo
<1> QED BY <1>4 DEF Good

\* Leaves are added one after the other.
LEMMA AddedUnfolds ==
    ASSUME NEW forest, NEW S, NEW s \in Seq(S), NEW x \in S
    PROVE  /\ Added(forest, <<>>) = forest
           /\ Added(forest, Append(s, x)) = AddedLeaf(Added(forest, s), x)
<1> DEFINE Run(t) == CHOOSE f : Adds(f, forest, t, Len(t))
<1>1. ASSUME NEW t \in Seq(S)
      PROVE  /\ Len(t) \in Nat /\ Adds(Run(t), forest, t, Len(t))
             /\ Added(forest, t) = Run(t)[Len(t)]
    <2>1. Len(t) \in Nat
        OBVIOUS
    <2>2. \E f : Adds(f, forest, t, Len(t))
        BY <2>1, AddsExist
    <2>3. Adds(Run(t), forest, t, Len(t))
        BY <2>2
    <2>4. Added(forest, t) = Run(t)[Len(t)]
        BY DEF Added, Adds
    <2> HIDE DEF Run
    <2> QED BY <2>1, <2>3, <2>4
<1> HIDE DEF Run
<1>2. Added(forest, <<>>) = forest
    <2>1. <<>> \in Seq(S) /\ Len(<<>>) = 0
        BY EmptySeq
    <2>2. Adds(Run(<<>>), forest, <<>>, 0) /\ Added(forest, <<>>) = Run(<<>>)[0]
        BY <1>1, <2>1
    <2> QED BY <2>2 DEF Adds
<1>3. Added(forest, Append(s, x)) = AddedLeaf(Added(forest, s), x)
    <2> DEFINE t == Append(s, x)
               l == Len(s)
    <2>1. /\ t \in Seq(S) /\ Len(t) = l + 1 /\ l \in Nat
          /\ \A i \in 1 .. l : s[i] = t[i]
          /\ t[l + 1] = x
        BY AppendProperties
    <2> HIDE DEF t, l
    <2>2. Adds(Run(t), forest, t, l + 1) /\ Added(forest, t) = Run(t)[l + 1]
        BY <1>1, <2>1
    <2>3. Adds(Run(s), forest, s, l) /\ Added(forest, s) = Run(s)[l]
        BY <1>1 DEF l
    <2>4. Run(t)[l] = Added(forest, s)
        <3>1. l + 1 \in Nat /\ l <= l + 1
            BY <2>1
        <3>2. Run(s)[l] = Run(t)[l]
            <4>1. ASSUME NEW m \in Nat, NEW n \in Nat, m <= n, Adds(Run(s), forest, s, m),
                         Adds(Run(t), forest, t, n), \A i \in 1 .. m : s[i] = t[i]
                  PROVE  Run(s)[m] = Run(t)[m]
                BY <4>1, AddsAgree
            <4> QED BY <2>1, <2>2, <2>3, <3>1, <4>1
        <3> QED BY <2>3, <3>2
    <2>5. Run(t)[l + 1] = AddedLeaf(Run(t)[l], x)
        <3>1. \A k \in 0 .. l + 1 : Run(t)[k] = IF k = 0 THEN forest ELSE AddedLeaf(Run(t)[k - 1], t[k])
            BY <2>2 DEF Adds
        <3>2. l + 1 \in 0 .. l + 1 /\ l + 1 # 0 /\ (l + 1) - 1 = l
            BY <2>1
        <3> QED BY <2>1, <3>1, <3>2
    <2> QED BY <2>2, <2>4, <2>5 DEF t
<1> QED BY <1>2, <1>3

\* f is the recursive function of Replayed, up to a prefix of length m.
Replays(f, s, m) ==
    f = [n \in 0 .. m |-> IF n = 0 THEN NewState ELSE Applied(f[n - 1], s[n])]

\* It exists,
LEMMA ReplaysExist ==
    ASSUME NEW s, NEW m \in Nat
    PROVE  \E f : Replays(f, s, m)
<1> DEFINE Good == {k \in 0 .. m : \E f : Replays(f, s, k)}
<1>1. 0 \in Good
    <2>1. Replays([n \in 0 .. 0 |-> NewState], s, 0)
        BY DEF Replays
    <2> QED BY <2>1
<1>2. ASSUME NEW k \in 1 .. m, k - 1 \in Good PROVE k \in Good
    <2>1. PICK f : Replays(f, s, k - 1)
        BY <1>2
    <2> DEFINE g == [n \in 0 .. k |-> IF n = k THEN Applied(f[k - 1], s[k]) ELSE f[n]]
    <2>2. k \in Nat /\ \A n \in 0 .. k - 1 : g[n] = f[n]
        BY <1>2
    <2>3. ASSUME NEW n \in 0 .. k
          PROVE  g[n] = IF n = 0 THEN NewState ELSE Applied(g[n - 1], s[n])
        <3>1. CASE n = k
            BY <1>2, <2>2, <3>1
        <3>2. CASE n # k
            <4>1. n \in 0 .. k - 1 /\ g[n] = f[n] /\ (n # 0 => g[n - 1] = f[n - 1])
                BY <2>2, <3>2
            <4>2. f[n] = IF n = 0 THEN NewState ELSE Applied(f[n - 1], s[n])
                BY <2>1, <4>1 DEF Replays
            <4> HIDE DEF g
            <4> QED BY <4>1, <4>2
        <3> QED BY <3>1, <3>2
    <2>4. g = [n \in 0 .. k |-> g[n]]
        OBVIOUS
    <2> HIDE DEF g
    <2>5. Replays(g, s, k)
        BY <2>3, <2>4 DEF Replays
    <2> QED BY <2>2, <2>5, <1>2
<1> HIDE DEF Good
<1>3. m \in Good
    BY <1>1, <1>2, UpTo
<1> QED BY <1>3 DEF Good

\* and sees nothing but the prefix.
LEMMA ReplaysAgree ==
    ASSUME NEW s, NEW t, NEW f, NEW g, NEW m \in Nat, NEW n \in Nat, m <= n,
           Replays(f, s, m), Replays(g, t, n), \A i \in 1 .. m : s[i] = t[i]
    PROVE  f[m] = g[m]
<1> DEFINE Good == {k \in 0 .. m : f[k] = g[k]}
<1>1. \A k \in 0 .. m :
          /\ f[k] = IF k = 0 THEN NewState ELSE Applied(f[k - 1], s[k])
          /\ g[k] = IF k = 0 THEN NewState ELSE Applied(g[k - 1], t[k])
    <2>1. \A k \in 0 .. m : f[k] = IF k = 0 THEN NewState ELSE Applied(f[k - 1], s[k])
        BY DEF Replays
    <2>2. \A k \in 0 .. n : g[k] = IF k = 0 THEN NewState ELSE Applied(g[k - 1], t[k])
        BY DEF Replays
    <2> QED BY <2>1, <2>2
<1>2. 0 \in Good
    BY <1>1
<1>3. ASSUME NEW k \in 1 .. m, k - 1 \in Good PROVE k \in Good
    BY <1>1, <1>3
<1> HIDE DEF Good
<1>4. m \in Good
    BY <1>2, <1>3, UpTo
<1> QED BY <1>4 DEF Good

\* Blocks are replayed one after the other.
LEMMA ReplayedUnfolds ==
    ASSUME NEW S, NEW s \in Seq(S), NEW x \in S
    PROVE  /\ Replayed(<<>>) = NewState
           /\ Replayed(Append(s, x)) = Applied(Replayed(s), x)
<1> DEFINE Run(t) == CHOOSE f : Replays(f, t, Len(t))
<1>1. ASSUME NEW t \in Seq(S)
      PROVE  /\ Len(t) \in Nat /\ Replays(Run(t), t, Len(t))
             /\ Replayed(t) = Run(t)[Len(t)]
    <2>1. Len(t) \in Nat
        OBVIOUS
    <2>2. \E f : Replays(f, t, Len(t))
        BY <2>1, ReplaysExist
    <2>3. Replays(Run(t), t, Len(t))
        BY <2>2
    <2>4. Replayed(t) = Run(t)[Len(t)]
        BY DEF Replayed, Replays
    <2> HIDE DEF Run
    <2> QED BY <2>1, <2>3, <2>4
<1> HIDE DEF Run
<1>2. Replayed(<<>>) = NewState
    <2>1. <<>> \in Seq(S) /\ Len(<<>>) = 0
        BY EmptySeq
    <2>2. Replays(Run(<<>>), <<>>, 0) /\ Replayed(<<>>) = Run(<<>>)[0]
        BY <1>1, <2>1
    <2> QED BY <2>2 DEF Replays
<1>3. Replayed(Append(s, x)) = Applied(Replayed(s), x)
    <2> DEFINE t == Append(s, x)
               l == Len(s)
    <2>1. /\ t \in Seq(S) /\ Len(t) = l + 1 /\ l \in Nat
          /\ \A i \in 1 .. l : s[i] = t[i]
          /\ t[l + 1] = x
        BY AppendProperties
    <2> HIDE DEF t, l
    <2>2. Replays(Run(t), t, l + 1) /\ Replayed(t) = Run(t)[l + 1]
        BY <1>1, <2>1
    <2>3. Replays(Run(s), s, l) /\ Replayed(s) = Run(s)[l]
        BY <1>1 DEF l
    <2>4. Run(t)[l] = Replayed(s)
        <3>1. l + 1 \in Nat /\ l <= l + 1
            BY <2>1
        <3>2. Run(s)[l] = Run(t)[l]
            <4>1. ASSUME NEW m \in Nat, NEW n \in Nat, m <= n, Replays(Run(s), s, m),
                         Replays(Run(t), t, n), \A i \in 1 .. m : s[i] = t[i]
                  PROVE  Run(s)[m] = Run(t)[m]
                BY <4>1, ReplaysAgree
            <4> QED BY <2>1, <2>2, <2>3, <3>1, <4>1
        <3> QED BY <2>3, <3>2
    <2>5. Run(t)[l + 1] = Applied(Run(t)[l], x)
        <3>1. \A k \in 0 .. l + 1 : Run(t)[k] = IF k = 0 THEN NewState ELSE Applied(Run(t)[k - 1], t[k])
            BY <2>2 DEF Replays
        <3>2. l + 1 \in 0 .. l + 1 /\ l + 1 # 0 /\ (l + 1) - 1 = l
            BY <2>1
        <3> QED BY <2>1, <3>1, <3>2
    <2> QED BY <2>2, <2>4, <2>5 DEF t
<1> QED BY <1>2, <1>3

\* One call to a forest, and what a list of them has built.
Called(forest, call) ==
    IF call[1] = "delete" THEN Deleted(forest, call[2]) ELSE Added(forest, call[2])

Built(calls) == Forest([utxos |-> [calls |-> calls]])

\* f is the recursive function of Built, up to a prefix of length m.
Builds(f, s, m) ==
    f = [n \in 0 .. m |-> IF n = 0 THEN NewForest ELSE Called(f[n - 1], s[n])]

\* It exists,
LEMMA BuildsExist ==
    ASSUME NEW s, NEW m \in Nat
    PROVE  \E f : Builds(f, s, m)
<1> DEFINE Good == {k \in 0 .. m : \E f : Builds(f, s, k)}
<1>1. 0 \in Good
    <2>1. Builds([n \in 0 .. 0 |-> NewForest], s, 0)
        BY DEF Builds
    <2> QED BY <2>1
<1>2. ASSUME NEW k \in 1 .. m, k - 1 \in Good PROVE k \in Good
    <2>1. PICK f : Builds(f, s, k - 1)
        BY <1>2
    <2> DEFINE g == [n \in 0 .. k |-> IF n = k THEN Called(f[k - 1], s[k]) ELSE f[n]]
    <2>2. k \in Nat /\ \A n \in 0 .. k - 1 : g[n] = f[n]
        BY <1>2
    <2>3. ASSUME NEW n \in 0 .. k
          PROVE  g[n] = IF n = 0 THEN NewForest ELSE Called(g[n - 1], s[n])
        <3>1. CASE n = k
            BY <1>2, <2>2, <3>1
        <3>2. CASE n # k
            <4>1. n \in 0 .. k - 1 /\ g[n] = f[n] /\ (n # 0 => g[n - 1] = f[n - 1])
                BY <2>2, <3>2
            <4>2. f[n] = IF n = 0 THEN NewForest ELSE Called(f[n - 1], s[n])
                BY <2>1, <4>1 DEF Builds
            <4> HIDE DEF g
            <4> QED BY <4>1, <4>2
        <3> QED BY <3>1, <3>2
    <2>4. g = [n \in 0 .. k |-> g[n]]
        OBVIOUS
    <2> HIDE DEF g
    <2>5. Builds(g, s, k)
        BY <2>3, <2>4 DEF Builds
    <2> QED BY <2>2, <2>5, <1>2
<1> HIDE DEF Good
<1>3. m \in Good
    BY <1>1, <1>2, UpTo
<1> QED BY <1>3 DEF Good

\* and sees nothing but the prefix.
LEMMA BuildsAgree ==
    ASSUME NEW s, NEW t, NEW f, NEW g, NEW m \in Nat, NEW n \in Nat, m <= n,
           Builds(f, s, m), Builds(g, t, n), \A i \in 1 .. m : s[i] = t[i]
    PROVE  f[m] = g[m]
<1> DEFINE Good == {k \in 0 .. m : f[k] = g[k]}
<1>1. \A k \in 0 .. m :
          /\ f[k] = IF k = 0 THEN NewForest ELSE Called(f[k - 1], s[k])
          /\ g[k] = IF k = 0 THEN NewForest ELSE Called(g[k - 1], t[k])
    <2>1. \A k \in 0 .. m : f[k] = IF k = 0 THEN NewForest ELSE Called(f[k - 1], s[k])
        BY DEF Builds
    <2>2. \A k \in 0 .. n : g[k] = IF k = 0 THEN NewForest ELSE Called(g[k - 1], t[k])
        BY DEF Builds
    <2> QED BY <2>1, <2>2
<1>2. 0 \in Good
    BY <1>1
<1>3. ASSUME NEW k \in 1 .. m, k - 1 \in Good PROVE k \in Good
    BY <1>1, <1>3
<1> HIDE DEF Good
<1>4. m \in Good
    BY <1>2, <1>3, UpTo
<1> QED BY <1>4 DEF Good

\* So are the calls to a forest.
LEMMA BuiltUnfolds ==
    ASSUME NEW S, NEW s \in Seq(S), NEW x \in S
    PROVE  /\ Built(<<>>) = NewForest
           /\ Built(Append(s, x)) = Called(Built(s), x)
<1> DEFINE Run(t) == CHOOSE f : Builds(f, t, Len(t))
<1>1. ASSUME NEW t \in Seq(S)
      PROVE  /\ Len(t) \in Nat /\ Builds(Run(t), t, Len(t))
             /\ Built(t) = Run(t)[Len(t)]
    <2>1. Len(t) \in Nat
        OBVIOUS
    <2>2. \E f : Builds(f, t, Len(t))
        BY <2>1, BuildsExist
    <2>3. Builds(Run(t), t, Len(t))
        BY <2>2
    <2>4. Built(t) = Run(t)[Len(t)]
        BY ZenonT(60) DEF Built, Builds, Called, Forest
    <2> HIDE DEF Run
    <2> QED BY <2>1, <2>3, <2>4
<1> HIDE DEF Run
<1>2. Built(<<>>) = NewForest
    <2>1. <<>> \in Seq(S) /\ Len(<<>>) = 0
        BY EmptySeq
    <2>2. Builds(Run(<<>>), <<>>, 0) /\ Built(<<>>) = Run(<<>>)[0]
        BY <1>1, <2>1
    <2> QED BY <2>2 DEF Builds
<1>3. Built(Append(s, x)) = Called(Built(s), x)
    <2> DEFINE t == Append(s, x)
               l == Len(s)
    <2>1. /\ t \in Seq(S) /\ Len(t) = l + 1 /\ l \in Nat
          /\ \A i \in 1 .. l : s[i] = t[i]
          /\ t[l + 1] = x
        BY AppendProperties
    <2> HIDE DEF t, l
    <2>2. Builds(Run(t), t, l + 1) /\ Built(t) = Run(t)[l + 1]
        BY <1>1, <2>1
    <2>3. Builds(Run(s), s, l) /\ Built(s) = Run(s)[l]
        BY <1>1 DEF l
    <2>4. Run(t)[l] = Built(s)
        <3>1. l + 1 \in Nat /\ l <= l + 1
            BY <2>1
        <3>2. Run(s)[l] = Run(t)[l]
            <4>1. ASSUME NEW m \in Nat, NEW n \in Nat, m <= n, Builds(Run(s), s, m),
                         Builds(Run(t), t, n), \A i \in 1 .. m : s[i] = t[i]
                  PROVE  Run(s)[m] = Run(t)[m]
                BY <4>1, BuildsAgree
            <4> QED BY <2>1, <2>2, <2>3, <3>1, <4>1
        <3> QED BY <2>3, <3>2
    <2>5. Run(t)[l + 1] = Called(Run(t)[l], x)
        <3>1. \A k \in 0 .. l + 1 : Run(t)[k] = IF k = 0 THEN NewForest ELSE Called(Run(t)[k - 1], t[k])
            BY <2>2 DEF Builds
        <3>2. l + 1 \in 0 .. l + 1 /\ l + 1 # 0 /\ (l + 1) - 1 = l
            BY <2>1
        <3> QED BY <2>1, <3>1, <3>2
    <2> QED BY <2>2, <2>4, <2>5 DEF t
<1> QED BY <1>2, <1>3

----------------------------------------------------------------------------
(* Forests: what is in them, and in which of their trees.                  *)

\* The leaves a forest holds.
Live(forest) == UNION {DOMAIN forest.roots[i] : i \in 1 .. Len(forest.roots)}

\* A leaf is in one tree.
WellBuilt(forest) ==
    /\ forest = [roots |-> forest.roots, leaves |-> forest.leaves]
    /\ \E S : forest.roots \in Seq(S)
    /\ \A i, j \in 1 .. Len(forest.roots) :
           \A l \in DOMAIN forest.roots[i] : l \in DOMAIN forest.roots[j] => i = j

\* What of the roots matters to its leaves and to the next addition.
LEMMA WellBuiltTypes ==
    ASSUME NEW forest, WellBuilt(forest)
    PROVE  /\ Len(forest.roots) \in Nat /\ DOMAIN forest.roots = 1 .. Len(forest.roots)
           /\ Live(forest) = UNION {DOMAIN root : root \in Range(forest.roots)}
<1>1. PICK S : forest.roots \in Seq(S)
    BY DEF WellBuilt
<1>2. Len(forest.roots) \in Nat /\ DOMAIN forest.roots = 1 .. Len(forest.roots)
    BY <1>1
<1> QED BY <1>2 DEF Live, Range

\* The tree a new leaf is the right-most leaf of after merging with one tree
\* after the other.
Rises(f, roots, leaf, m) ==
    f = [row \in 0 .. m |->
            IF row = 0 THEN SingleLeaf(leaf)
            ELSE IF roots[Len(roots) + 1 - row] = EMPTY THEN f[row - 1]
            ELSE Parent(roots[Len(roots) + 1 - row], f[row - 1])]

\* There is such a function up to every height.
LEMMA RisesExist ==
    ASSUME NEW roots, NEW leaf, NEW m \in Nat
    PROVE  \E f : Rises(f, roots, leaf, m)
<1> DEFINE Merged(row, under) ==
               IF roots[Len(roots) + 1 - row] = EMPTY THEN under
               ELSE Parent(roots[Len(roots) + 1 - row], under)
           Good == {k \in 0 .. m : \E f : Rises(f, roots, leaf, k)}
<1>0. \A f, k : Rises(f, roots, leaf, k) <=>
          f = [row \in 0 .. k |-> IF row = 0 THEN SingleLeaf(leaf) ELSE Merged(row, f[row - 1])]
    BY DEF Rises
<1> HIDE DEF Merged
<1>1. 0 \in Good
    <2> DEFINE g == [row \in 0 .. 0 |-> SingleLeaf(leaf)]
    <2>1. g = [row \in 0 .. 0 |-> IF row = 0 THEN SingleLeaf(leaf) ELSE Merged(row, g[row - 1])]
        OBVIOUS
    <2> HIDE DEF g
    <2>2. Rises(g, roots, leaf, 0)
        BY <2>1, <1>0
    <2> QED BY <2>2
<1>2. ASSUME NEW k \in 1 .. m, k - 1 \in Good PROVE k \in Good
    <2>1. PICK f : Rises(f, roots, leaf, k - 1)
        BY <1>2
    <2> DEFINE g == [row \in 0 .. k |-> IF row = k THEN Merged(k, f[k - 1]) ELSE f[row]]
    <2>2. k \in Nat /\ \A row \in 0 .. k - 1 : g[row] = f[row]
        BY <1>2
    <2>3. ASSUME NEW row \in 0 .. k
          PROVE  g[row] = IF row = 0 THEN SingleLeaf(leaf) ELSE Merged(row, g[row - 1])
        <3>1. CASE row = k
            BY <1>2, <2>2, <3>1
        <3>2. CASE row # k
            <4>1. row \in 0 .. k - 1 /\ g[row] = f[row] /\ (row # 0 => g[row - 1] = f[row - 1])
                BY <2>2, <3>2
            <4>2. f = [r \in 0 .. k - 1 |->
                          IF r = 0 THEN SingleLeaf(leaf) ELSE Merged(r, f[r - 1])]
                BY <2>1, <1>0
            <4>3. f[row] = IF row = 0 THEN SingleLeaf(leaf) ELSE Merged(row, f[row - 1])
                BY <4>1, <4>2
            <4> HIDE DEF g
            <4> QED BY <4>1, <4>3
        <3> QED BY <3>1, <3>2
    <2>4. g = [row \in 0 .. k |-> g[row]]
        OBVIOUS
    <2> HIDE DEF g
    <2>5. g = [row \in 0 .. k |->
                  IF row = 0 THEN SingleLeaf(leaf) ELSE Merged(row, g[row - 1])]
        BY <2>3, <2>4
    <2>6. Rises(g, roots, leaf, k)
        BY <2>5, <1>0
    <2> QED BY <2>2, <2>6, <1>2
<1> HIDE DEF Good
<1>3. m \in Good
    BY <1>1, <1>2, UpTo
<1> QED BY <1>3 DEF Good

\* A leaf that is added is added: the trees it merges with keep theirs.
LEMMA RisesLive ==
    ASSUME NEW f, NEW roots, NEW S, roots \in Seq(S), NEW leaf, NEW m \in 0 .. Len(roots),
           Rises(f, roots, leaf, m)
    PROVE  DOMAIN f[m] = {leaf} \cup UNION {DOMAIN roots[i] : i \in Len(roots) + 1 - m .. Len(roots)}
<1> DEFINE n == Len(roots)
           Merged(row) == UNION {DOMAIN roots[i] : i \in n + 1 - row .. n}
           Good == {k \in 0 .. m : DOMAIN f[k] = {leaf} \cup Merged(k)}
<1>1. n \in Nat /\ m \in Nat /\ m <= n
    OBVIOUS
<1>2. \A row \in 0 .. m :
          f[row] = IF row = 0 THEN SingleLeaf(leaf)
                   ELSE IF roots[n + 1 - row] = EMPTY THEN f[row - 1]
                   ELSE Parent(roots[n + 1 - row], f[row - 1])
    BY DEF Rises
<1> HIDE DEF n
<1>3. 0 \in Good
    <2>1. f[0] = SingleLeaf(leaf)
        BY <1>1, <1>2
    <2>2. DOMAIN f[0] = {leaf}
        BY <2>1 DEF SingleLeaf
    <2>3. Merged(0) = {}
        BY <1>1
    <2> QED BY <1>1, <2>2, <2>3
<1>4. ASSUME NEW k \in 1 .. m, k - 1 \in Good PROVE k \in Good
    <2>1. DOMAIN f[k - 1] = {leaf} \cup Merged(k - 1)
        BY <1>4
    <2>2. Merged(k) = Merged(k - 1) \cup DOMAIN roots[n + 1 - k]
        <3>1. n + 1 - k .. n = {n + 1 - k} \cup (n + 1 - (k - 1) .. n)
            BY <1>1
        <3> QED BY <3>1
    <2>3. f[k] = IF roots[n + 1 - k] = EMPTY THEN f[k - 1]
                 ELSE Parent(roots[n + 1 - k], f[k - 1])
        BY <1>1, <1>2
    <2>4. DOMAIN f[k] = DOMAIN roots[n + 1 - k] \cup DOMAIN f[k - 1]
        <3>1. CASE roots[n + 1 - k] = EMPTY
            <4>1. DOMAIN EMPTY = {}
                BY DEF EMPTY
            <4> QED BY <2>3, <3>1, <4>1
        <3>2. CASE roots[n + 1 - k] # EMPTY
            BY <2>3, <3>2 DEF Parent
        <3> QED BY <3>1, <3>2
    <2> HIDE DEF Merged
    <2> QED BY <1>1, <2>1, <2>2, <2>4
<1> HIDE DEF Good, Merged
<1>5. m \in Good
    BY <1>1, <1>3, <1>4, UpTo, SMTT(40)
<1> QED BY <1>5 DEF Good, Merged, n

\* A new leaf is in the forest, and the others still are.
LEMMA AddedLeafFacts ==
    ASSUME NEW forest, WellBuilt(forest), NEW leaf, leaf \notin Live(forest)
    PROVE  /\ WellBuilt(AddedLeaf(forest, leaf))
           /\ Live(AddedLeaf(forest, leaf)) = Live(forest) \cup {leaf}
<1> DEFINE roots == forest.roots
           n == Len(roots)
           open == {row \in 0 .. n : row = n \/ ~HasTree(forest.leaves, row)}
           rows == Min(open)
           risen == CHOOSE f : Rises(f, roots, leaf, rows)
           next == AddedLeaf(forest, leaf)
<1>1. PICK S : roots \in Seq(S)
    BY DEF WellBuilt
<1>2. n \in Nat
    BY <1>1
<1>3. rows \in 0 .. n
    <2>1. open \in SUBSET Nat /\ n \in open
        BY <1>2
    <2> HIDE DEF open
    <2>2. PICK m \in open : \A k \in open : m <= k
        BY <2>1, SmallestNat
    <2>3. Min(open) \in open
        BY <2>2 DEF Min
    <2> QED BY <2>3 DEF open
<1>4. next = [roots |-> Append(SubSeq(roots, 1, n - rows), risen[rows]),
              leaves |-> forest.leaves + 1]
    BY DEF AddedLeaf, Rises
<1> HIDE DEF rows
<1>5. Rises(risen, roots, leaf, rows)
    <2>1. \E f : Rises(f, roots, leaf, rows)
        BY <1>2, <1>3, RisesExist
    <2> QED BY <2>1
<1> HIDE DEF risen
<1>6. DOMAIN risen[rows] = {leaf} \cup UNION {DOMAIN roots[i] : i \in n + 1 - rows .. n}
    BY <1>1, <1>3, <1>5, RisesLive
<1> DEFINE front == SubSeq(roots, 1, n - rows)
           tree == risen[rows]
           T == S \cup {tree}
           m == n - rows
<1>7. front \in Seq(T) /\ Len(front) = m /\ \A i \in 1 .. m : front[i] = roots[i]
    <2>1. front \in Seq(S) /\ Len(front) = m /\ \A i \in 1 .. m : front[i] = roots[i]
        BY <1>1, <1>2, <1>3
    <2> HIDE DEF front, m, T
    <2> QED BY <2>1, SeqMonotonic DEF T
<1>8. /\ next.roots \in Seq(T) /\ Len(next.roots) = m + 1
      /\ \A i \in 1 .. m : next.roots[i] = roots[i]
      /\ next.roots[m + 1] = tree
    <2>1. tree \in T
        OBVIOUS
    <2> HIDE DEF next
    <2>2. next.roots = Append(front, tree)
        BY <1>4
    <2> HIDE DEF front, tree, T, m
    <2> QED BY <1>7, <2>1, <2>2, AppendProperties
<1>9. m \in 0 .. n /\ m + 1 = n + 1 - rows
    BY <1>2, <1>3
<1> HIDE DEF front, tree, T, m
<1>10. DOMAIN tree = {leaf} \cup UNION {DOMAIN roots[i] : i \in m + 1 .. n}
    BY <1>6, <1>9 DEF tree
<1>11. Live(next) = Live(forest) \cup {leaf}
    <2>1. Live(next) = UNION {DOMAIN next.roots[i] : i \in 1 .. m + 1}
        BY <1>8 DEF Live
    <2>2. Live(forest) = UNION {DOMAIN roots[i] : i \in 1 .. n}
        BY DEF Live
    <2> HIDE DEF next, roots, n
    <2>3. ASSUME NEW l \in Live(next) PROVE l \in Live(forest) \cup {leaf}
        <3>1. PICK i \in 1 .. m + 1 : l \in DOMAIN next.roots[i]
            BY <2>1
        <3>2. CASE i = m + 1
            <4>1. l \in DOMAIN tree
                BY <1>8, <3>1, <3>2
            <4>2. \A k \in m + 1 .. n : k \in 1 .. n
                BY <1>2, <1>9
            <4> QED BY <1>10, <2>2, <4>1, <4>2
        <3>3. CASE i # m + 1
            <4>1. i \in 1 .. m /\ i \in 1 .. n
                BY <1>2, <1>9, <3>3
            <4> QED BY <1>8, <2>2, <3>1, <4>1
        <3> QED BY <3>2, <3>3
    <2>4. ASSUME NEW l \in Live(forest) PROVE l \in Live(next)
        <3>1. PICK i \in 1 .. n : l \in DOMAIN roots[i]
            BY <2>2
        <3>2. CASE i \in 1 .. m
            <4>1. i \in 1 .. m + 1
                BY <1>2, <1>9, <3>2
            <4> QED BY <1>8, <2>1, <3>1, <3>2, <4>1
        <3>3. CASE i \in m + 1 .. n
            <4>1. l \in DOMAIN next.roots[m + 1] /\ m + 1 \in 1 .. m + 1
                BY <1>2, <1>8, <1>9, <1>10, <3>1, <3>3
            <4> QED BY <2>1, <4>1
        <3> QED BY <1>2, <1>9, <3>2, <3>3
    <2>5. leaf \in Live(next)
        <3>1. leaf \in DOMAIN next.roots[m + 1] /\ m + 1 \in 1 .. m + 1
            BY <1>2, <1>8, <1>9, <1>10
        <3> QED BY <2>1, <3>1
    <2> QED BY <2>3, <2>4, <2>5
<1>12. WellBuilt(next)
    <2>1. next = [roots |-> next.roots, leaves |-> next.leaves]
        <3>1. \A a, b : LET r == [roots |-> a, leaves |-> b]
                        IN  r = [roots |-> r.roots, leaves |-> r.leaves]
            OBVIOUS
        <3> HIDE DEF next
        <3> QED BY <1>4, <3>1
    <2>2. \A i, j \in 1 .. n : \A l \in DOMAIN roots[i] : l \in DOMAIN roots[j] => i = j
        BY DEF WellBuilt
    <2>3. \A i \in 1 .. n : leaf \notin DOMAIN roots[i]
        BY DEF Live
    <2> HIDE DEF next, roots, n
    <2>4. ASSUME NEW i \in 1 .. m, NEW l \in DOMAIN roots[i] PROVE l \notin DOMAIN tree
        <3>1. i \in 1 .. n /\ \A k \in m + 1 .. n : k \in 1 .. n /\ k # i
            BY <1>2, <1>9
        <3>2. l # leaf
            BY <2>3, <2>4, <3>1
        <3> QED BY <1>10, <2>2, <2>4, <3>1, <3>2
    <2>5. ASSUME NEW i \in 1 .. m + 1, NEW j \in 1 .. m + 1,
                 NEW l \in DOMAIN next.roots[i], l \in DOMAIN next.roots[j]
          PROVE  i = j
        <3>1. CASE i \in 1 .. m /\ j \in 1 .. m
            <4>1. i \in 1 .. n /\ j \in 1 .. n
                BY <1>2, <1>9, <3>1
            <4> QED BY <1>8, <2>2, <2>5, <3>1, <4>1
        <3>2. CASE i \in 1 .. m /\ j = m + 1
            BY <1>8, <2>4, <2>5, <3>2
        <3>3. CASE i = m + 1 /\ j \in 1 .. m
            BY <1>8, <2>4, <2>5, <3>3
        <3> QED BY <1>2, <1>9, <3>1, <3>2, <3>3
    <2>6. Len(next.roots) = m + 1 /\ \E X : next.roots \in Seq(X)
        BY <1>8
    <2> QED BY <2>1, <2>5, <2>6 DEF WellBuilt
<1> QED BY <1>11, <1>12

\* Leaves that are new to a forest, each once, are added to those it has.
LEMMA AddedFacts ==
    ASSUME NEW forest, WellBuilt(forest), NEW S, NEW leaves \in Seq(S), NoRepeat(leaves),
           Range(leaves) \cap Live(forest) = {}
    PROVE  /\ WellBuilt(Added(forest, leaves))
           /\ Live(Added(forest, leaves)) = Live(forest) \cup Range(leaves)
<1> DEFINE First(k) == SubSeq(leaves, 1, k)
           Good == {k \in 0 .. Len(leaves) :
                       /\ WellBuilt(Added(forest, First(k)))
                       /\ Live(Added(forest, First(k)))
                            = Live(forest) \cup {leaves[i] : i \in 1 .. k}}
<1>1. Len(leaves) \in Nat /\ \A i \in 1 .. Len(leaves) : leaves[i] \in S
    OBVIOUS
<1>2. \A i, j \in 1 .. Len(leaves) : leaves[i] = leaves[j] => i = j
    BY DEF NoRepeat, IsInjective
<1>3. Range(leaves) = {leaves[i] : i \in 1 .. Len(leaves)}
    BY RangeEquality
<1>4. \A k \in 0 .. Len(leaves) : First(k) \in Seq(S)
    BY <1>1
<1>5. 0 \in Good
    <2>1. First(0) = <<>>
        BY SubSeqEmpty
    <2>2. <<>> \in Seq(S)
        OBVIOUS
    <2>3. Added(forest, First(0)) = forest
        <3>1. CASE S = {}
            <4>1. leaves \in Seq({1}) /\ 1 \in {1}
                BY <1>1, <3>1, SeqMonotonic
            <4>2. Added(forest, <<>>) = forest
                BY <4>1, AddedUnfolds
            <4> QED BY <2>1, <4>2
        <3>2. CASE S # {}
            <4>1. PICK x \in S : TRUE
                BY <3>2
            <4>2. Added(forest, <<>>) = forest
                BY <2>2, <4>1, AddedUnfolds
            <4> QED BY <2>1, <4>2
        <3> QED BY <3>1, <3>2
    <2>4. {leaves[i] : i \in 1 .. 0} = {}
        OBVIOUS
    <2> HIDE DEF First
    <2> QED BY <1>1, <2>3, <2>4
<1>6. ASSUME NEW k \in 1 .. Len(leaves), k - 1 \in Good PROVE k \in Good
    <2> DEFINE before == Added(forest, First(k - 1))
    <2>1. WellBuilt(before) /\ Live(before) = Live(forest) \cup {leaves[i] : i \in 1 .. k - 1}
        BY <1>6
    <2>2. First(k) = Append(First(k - 1), leaves[k])
        BY <1>1, SubSeqRecursiveSecond
    <2>3. First(k - 1) \in Seq(S) /\ leaves[k] \in S
        BY <1>1, <1>4
    <2> HIDE DEF First
    <2>4. Added(forest, First(k)) = AddedLeaf(before, leaves[k])
        BY <2>2, <2>3, AddedUnfolds
    <2>5. leaves[k] \notin Live(before)
        <3>1. leaves[k] \notin Live(forest)
            BY <1>3
        <3>2. \A i \in 1 .. k - 1 : i \in 1 .. Len(leaves) /\ i # k
            BY <1>1
        <3>3. \A i \in 1 .. k - 1 : leaves[i] # leaves[k]
            BY <1>2, <3>2
        <3> QED BY <2>1, <3>1, <3>3
    <2> HIDE DEF before
    <2>6. /\ WellBuilt(AddedLeaf(before, leaves[k]))
          /\ Live(AddedLeaf(before, leaves[k])) = Live(before) \cup {leaves[k]}
        BY <2>1, <2>5, AddedLeafFacts
    <2>7. {leaves[i] : i \in 1 .. k} = {leaves[i] : i \in 1 .. k - 1} \cup {leaves[k]}
        BY <1>1
    <2> QED BY <1>1, <2>1, <2>4, <2>6, <2>7
<1> HIDE DEF Good
<1>7. Len(leaves) \in Good
    <2>1. \A k \in 0 .. Len(leaves) : k \in Good
        BY <1>1, <1>5, <1>6, UpTo
    <2> QED BY <1>1, <2>1
<1>8. First(Len(leaves)) = leaves
    BY SubSeqFull
<1> QED BY <1>3, <1>7, <1>8 DEF Good

\* Adding or deleting nothing does nothing.
LEMMA NothingDone ==
    ASSUME NEW forest, WellBuilt(forest)
    PROVE  Added(forest, <<>>) = forest /\ Deleted(forest, <<>>) = forest
<1>1. <<>> \in Seq({1}) /\ 1 \in {1}
    OBVIOUS
<1>2. Added(forest, <<>>) = forest
    BY <1>1, AddedUnfolds
<1>3. PICK S : forest.roots \in Seq(S)
    BY DEF WellBuilt
<1>4. Deleted(forest, <<>>) = [forest EXCEPT !.roots = [i \in DOMAIN forest.roots |-> forest.roots[i]]]
    BY EmptyRange DEF Deleted
<1>5. [i \in DOMAIN forest.roots |-> forest.roots[i]] = forest.roots
    BY <1>3
<1>6. [forest EXCEPT !.roots = forest.roots] = forest
    <2>1. \A a, b : LET r == [roots |-> a, leaves |-> b] IN [r EXCEPT !.roots = r.roots] = r
        OBVIOUS
    <2> QED BY <2>1 DEF WellBuilt
<1> QED BY <1>2, <1>4, <1>5, <1>6

\* Deletion leaves the others where they were.
LEMMA DeletedFacts ==
    ASSUME NEW forest, WellBuilt(forest), NEW leaves
    PROVE  /\ WellBuilt(Deleted(forest, leaves))
           /\ Live(Deleted(forest, leaves)) = Live(forest) \ Range(leaves)
<1> DEFINE roots == forest.roots
           n == Len(roots)
           cut == [i \in 1 .. n |-> IF DOMAIN roots[i] \cap Range(leaves) = {} THEN roots[i]
                                    ELSE WithoutLeaves(roots[i], Range(leaves))]
           next == Deleted(forest, leaves)
<1>1. n \in Nat /\ DOMAIN roots = 1 .. n
    BY WellBuiltTypes
<1>2. next = [roots |-> cut, leaves |-> forest.leaves]
    <2>1. next = [forest EXCEPT !.roots = cut]
        BY <1>1 DEF Deleted
    <2>2. \A a, b, c : [[roots |-> a, leaves |-> b] EXCEPT !.roots = c] = [roots |-> c, leaves |-> b]
        OBVIOUS
    <2>3. forest = [roots |-> roots, leaves |-> forest.leaves]
        BY SMTT(40) DEF WellBuilt
    <2> HIDE DEF next, cut, roots
    <2> QED BY <2>1, <2>2, <2>3
<1>3. \A i \in 1 .. n : DOMAIN cut[i] = DOMAIN roots[i] \ Range(leaves)
    BY DEF WithoutLeaves
<1> DEFINE T == {cut[i] : i \in 1 .. n}
<1>4. cut \in Seq(T) /\ Len(cut) = n
    <2>1. cut = [i \in 1 .. n |-> cut[i]] /\ \A i \in 1 .. n : cut[i] \in T
        OBVIOUS
    <2> HIDE DEF cut, T
    <2>2. cut \in [1 .. n -> T]
        BY <2>1
    <2> HIDE DEF n
    <2> QED BY <1>1, <2>2, IsASeq, LenProperties
<1> HIDE DEF cut, next, T
<1>5. next.roots = cut /\ next = [roots |-> next.roots, leaves |-> next.leaves]
    BY <1>2
<1>6. WellBuilt(next)
    <2>1. \A i, j \in 1 .. n : \A l \in DOMAIN roots[i] : l \in DOMAIN roots[j] => i = j
        BY DEF WellBuilt
    <2> HIDE DEF roots, n
    <2>2. \A i, j \in 1 .. n : \A l \in DOMAIN cut[i] : l \in DOMAIN cut[j] => i = j
        BY <1>3, <2>1
    <2> QED BY <1>4, <1>5, <2>2 DEF WellBuilt
<1>7. Live(next) = Live(forest) \ Range(leaves)
    <2>1. Live(next) = UNION {DOMAIN cut[i] : i \in 1 .. n}
        BY <1>4, <1>5 DEF Live
    <2>2. Live(forest) = UNION {DOMAIN roots[i] : i \in 1 .. n}
        BY DEF Live
    <2> HIDE DEF roots, n
    <2> QED BY <1>3, <2>1, <2>2
<1> QED BY <1>6, <1>7 DEF next

\* A proof names every tree that holds a leaf to delete and no other, so that
\* the roots-only view loses what the forest loses.
LEMMA ModifiedIsDeletedAdded ==
    ASSUME NEW forest, WellBuilt(forest), NEW additions, NEW deletions, NEW proof,
           proof \subseteq Range(forest.roots),
           \A root \in proof : DOMAIN root \cap Range(deletions) # {},
           Range(deletions) \subseteq UNION {DOMAIN root : root \in proof}
    PROVE  Modified(forest, additions, deletions, proof)
               = Added(Deleted(forest, deletions), additions)
<1> DEFINE roots == forest.roots
<1>1. Len(roots) \in Nat /\ DOMAIN roots = 1 .. Len(roots)
    BY WellBuiltTypes
<1>2. ASSUME NEW i \in DOMAIN roots
      PROVE  roots[i] \in proof <=> DOMAIN roots[i] \cap Range(deletions) # {}
    <2>1. ASSUME NEW l \in DOMAIN roots[i], l \in Range(deletions) PROVE roots[i] \in proof
        <3>1. PICK root \in proof : l \in DOMAIN root
            BY <2>1
        <3>2. PICK j \in DOMAIN roots : root = roots[j]
            BY DEF Range
        <3>3. i = j
            BY <1>1, <2>1, <3>1, <3>2 DEF WellBuilt
        <3> QED BY <3>2, <3>3
    <2> QED BY <2>1
<1>3. [i \in DOMAIN roots |-> IF roots[i] \in proof THEN WithoutLeaves(roots[i], Range(deletions))
                              ELSE roots[i]]
        = [i \in DOMAIN roots |-> IF DOMAIN roots[i] \cap Range(deletions) = {} THEN roots[i]
                                  ELSE WithoutLeaves(roots[i], Range(deletions))]
    BY <1>2
<1> QED BY <1>3 DEF Modified, Deleted

\* Leaving the emptied trees out loses no leaf.
LEMMA RootsFacts ==
    ASSUME NEW forest, WellBuilt(forest)
    PROVE  /\ WellBuilt(FromParts(Roots(forest), forest.leaves))
           /\ Live(FromParts(Roots(forest), forest.leaves)) = Live(forest)
<1> DEFINE roots == forest.roots
           shown == Roots(forest)
           next == FromParts(shown, forest.leaves)
<1>1. PICK S : roots \in Seq(S)
    BY DEF WellBuilt
<1>2. shown = Filtered(roots, Range(roots) \ {EMPTY})
    BY DEF Roots
<1>3. PICK e \in [1 .. Len(shown) -> 1 .. Len(roots)] :
          /\ \A i, j \in 1 .. Len(shown) : i < j => e[i] < e[j]
          /\ \A i \in 1 .. Len(shown) : shown[i] = roots[e[i]]
    <2> DEFINE wanted == Range(roots) \ {EMPTY}
               r == Filtered(roots, wanted)
    <2>1. \E e \in [1 .. Len(r) -> 1 .. Len(roots)] :
              /\ \A i, j \in 1 .. Len(r) : i < j => e[i] < e[j]
              /\ \A i \in 1 .. Len(r) : r[i] = roots[e[i]]
        <3> HIDE DEF wanted
        <3> QED BY <1>1, FilteredInOrder
    <2>2. r = shown
        BY <1>2
    <2> HIDE DEF r, shown
    <2> QED BY <2>1, <2>2
<1>4. shown \in Seq(S) /\ Range(shown) = Range(roots) \ {EMPTY}
    BY <1>1, <1>2, FilteredMembers
<1>5. next.roots = shown /\ next = [roots |-> next.roots, leaves |-> next.leaves]
    BY DEF FromParts
<1>6. Len(shown) \in Nat
    BY <1>4
<1> HIDE DEF shown, next
<1>7. ASSUME NEW i \in 1 .. Len(shown), NEW j \in 1 .. Len(shown),
             NEW l \in DOMAIN shown[i], l \in DOMAIN shown[j]
      PROVE  i = j
    <2>1. e[i] = e[j]
        BY <1>3, <1>7 DEF WellBuilt
    <2>2. ~(e[i] < e[j]) /\ ~(e[j] < e[i])
        <3>1. e[i] \in Int
            BY <1>3
        <3> QED BY <2>1, <3>1
    <2>3. ~(i < j) /\ ~(j < i)
        BY <1>3, <2>2
    <2> QED BY <1>6, <2>3
<1>8. WellBuilt(next)
    BY <1>4, <1>5, <1>7 DEF WellBuilt
<1>9. Live(next) = Live(forest)
    <2>1. Live(next) = UNION {DOMAIN root : root \in Range(shown)}
        BY <1>5, <1>8, WellBuiltTypes
    <2>2. Live(forest) = UNION {DOMAIN root : root \in Range(roots)}
        BY WellBuiltTypes
    <2>3. DOMAIN EMPTY = {}
        BY DEF EMPTY
    <2> HIDE DEF roots
    <2> QED BY <1>4, <2>1, <2>2, <2>3
<1> QED BY <1>8, <1>9 DEF next, shown

----------------------------------------------------------------------------
(* The states of a full node.                                              *)

\* The index, the leaves recorded and the forest the calls have built agree.
Sound(s) ==
    /\ s \in State /\ Matching(s)
    /\ WellBuilt(Forest(s)) /\ Live(Forest(s)) = s.utxos.live

\* Forest is what the calls have built.
LEMMA ForestIsBuilt ==
    ASSUME NEW s
    PROVE  Forest(s) = Built(s.utxos.calls)
BY DEF Built, Forest

\* A new state is sound, and its forest is empty.
LEMMA NewStateIsSound == Sound(NewState) /\ Forest(NewState) = NewForest
<1>1. Forest(NewState) = NewForest
    <2>1. NewState.utxos.calls = <<>>
        BY DEF NewState, EmptyForest
    <2>2. <<>> \in Seq({1}) /\ 1 \in {1}
        OBVIOUS
    <2>3. Built(<<>>) = NewForest
        BY <2>2, BuiltUnfolds
    <2> QED BY <2>1, <2>3, ForestIsBuilt
<1>2. WellBuilt(NewForest) /\ Live(NewForest) = {}
    <2>1. NewForest.roots = <<>> /\ <<>> \in Seq({1}) /\ Len(<<>>) = 0
        BY DEF NewForest
    <2>2. NewForest = [roots |-> NewForest.roots, leaves |-> NewForest.leaves]
        BY DEF NewForest
    <2>3. \A i \in 1 .. Len(NewForest.roots) : FALSE
        BY <2>1
    <2> QED BY <2>1, <2>2, <2>3 DEF WellBuilt, Live
<1>3. Matching(NewState)
    BY NewStateType DEF Matching
<1> QED BY <1>1, <1>2, <1>3, NewStateType DEF Sound

\* What a call that is recorded builds.
LEMMA BuiltDeletes ==
    ASSUME NEW forest \in CallForest, WellBuilt(Built(forest.calls)), NEW hashes \in Seq(Leaf)
    PROVE  Built(ForestDeletes(forest, hashes).calls) = Deleted(Built(forest.calls), hashes)
<1>1. CASE hashes = <<>>
    BY <1>1, NothingDone DEF ForestDeletes
<1>2. CASE hashes # <<>>
    <2> DEFINE Calls == {"delete", "insert"} \X Seq(Leaf)
               call == <<"delete", hashes>>
    <2>1. forest.calls \in Seq(Calls) /\ call \in Calls
        BY DEF CallForest
    <2>2. ForestDeletes(forest, hashes).calls = Append(forest.calls, call)
        BY <1>2 DEF ForestDeletes
    <2>3. call[1] = "delete" /\ call[2] = hashes
        OBVIOUS
    <2> HIDE DEF Calls, call
    <2>4. Built(Append(forest.calls, call)) = Called(Built(forest.calls), call)
        BY <2>1, BuiltUnfolds
    <2> QED BY <2>2, <2>3, <2>4 DEF Called
<1> QED BY <1>1, <1>2

\* An insertion is the same in the calls as in the trees.
LEMMA BuiltInserts ==
    ASSUME NEW forest \in CallForest, WellBuilt(Built(forest.calls)), NEW hashes \in Seq(Leaf)
    PROVE  Built(ForestInserts(forest, hashes).calls) = Added(Built(forest.calls), hashes)
<1>1. CASE hashes = <<>>
    BY <1>1, NothingDone DEF ForestInserts
<1>2. CASE hashes # <<>>
    <2> DEFINE Calls == {"delete", "insert"} \X Seq(Leaf)
               call == <<"insert", hashes>>
    <2>1. forest.calls \in Seq(Calls) /\ call \in Calls
        BY DEF CallForest
    <2>2. ForestInserts(forest, hashes).calls = Append(forest.calls, call)
        BY <1>2 DEF ForestInserts
    <2>3. call[1] # "delete" /\ call[2] = hashes
        OBVIOUS
    <2> HIDE DEF Calls, call
    <2>4. Built(Append(forest.calls, call)) = Called(Built(forest.calls), call)
        BY <2>1, BuiltUnfolds
    <2> QED BY <2>2, <2>3, <2>4 DEF Called
<1> QED BY <1>1, <1>2

\* The leaves a block creates are each created once.
LEMMA CreatedNoRepeat ==
    ASSUME NEW s, NEW block \in BlockSummary, NoRepeat(block.transparent_creates)
    PROVE  NoRepeat(CreatedLeaves(s, block))
<1> DEFINE creates == block.transparent_creates
           kept_creates == Filtered(creates, Range(creates) \ Cancelled(s, block))
<1>1. creates \in Seq(OutPoint)
    BY BlockType
<1>2. NoRepeat(kept_creates)
    BY <1>1, FilteredNoRepeat
<1>3. CreatedLeaves(s, block)
        = [i \in DOMAIN kept_creates |-> [outpoint |-> kept_creates[i], height |-> block.height]]
    BY DEF CreatedLeaves
<1> HIDE DEF kept_creates
<1>4. ASSUME NEW i \in DOMAIN kept_creates, NEW j \in DOMAIN kept_creates,
             [outpoint |-> kept_creates[i], height |-> block.height]
                 = [outpoint |-> kept_creates[j], height |-> block.height]
      PROVE  i = j
    <2>1. kept_creates[i] = kept_creates[j]
        BY <1>4
    <2> QED BY <1>2, <2>1 DEF NoRepeat, IsInjective
<1> QED BY <1>3, <1>4 DEF NoRepeat, IsInjective

\* A block whose outputs are new keeps a state sound, and its forest loses the
\* leaves spent and gains the leaves created.
LEMMA AppliedIsSound ==
    ASSUME NEW s, Sound(s), NEW block \in BlockSummary, NoRepeat(block.transparent_creates),
           Range(block.transparent_creates) \cap DOMAIN s.utxo_index = {}
    PROVE  /\ Sound(Applied(s, block))
           /\ Forest(Applied(s, block))
                = Added(Deleted(Forest(s), SpentLeaves(s, block)), CreatedLeaves(s, block))
<1> DEFINE spent == SpentLeaves(s, block)
           created == CreatedLeaves(s, block)
           pruned == ForestDeletes(s.utxos, spent)
           grown == ForestInserts(pruned, created)
           next == Applied(s, block)
<1>1. s \in State /\ Matching(s)
    BY DEF Sound
<1>2. next \in State /\ Matching(next)
      /\ next.utxos = WithTransparent(s, Delta(s, block)).utxos
    BY <1>1, AppliedFacts
<1>3. spent \in Seq(Leaf) /\ created \in Seq(Leaf)
    BY <1>1, SpentLeavesFacts, CreatedLeavesFacts
<1>4. s.utxos \in CallForest
    BY <1>1 DEF State
<1>5. WithTransparent(s, Delta(s, block)).utxos = grown
    BY <1>1 DEF WithTransparent, Delta, State
<1> HIDE DEF spent, created, next
<1>6. /\ pruned \in CallForest /\ pruned.live = s.utxos.live \ Range(spent)
    BY <1>3, <1>4, ForestDeletesFacts
<1>7. grown.live = pruned.live \cup Range(created)
    BY <1>3, <1>6, ForestInsertsFacts
<1>8. WellBuilt(Built(s.utxos.calls)) /\ Live(Built(s.utxos.calls)) = s.utxos.live
    BY ForestIsBuilt DEF Sound
<1>9. Built(pruned.calls) = Deleted(Built(s.utxos.calls), spent)
    BY <1>3, <1>4, <1>8, BuiltDeletes
<1>10. WellBuilt(Built(pruned.calls)) /\ Live(Built(pruned.calls)) = pruned.live
    BY <1>6, <1>8, <1>9, DeletedFacts
<1>11. Built(grown.calls) = Added(Built(pruned.calls), created)
    BY <1>3, <1>6, <1>10, BuiltInserts
<1>12. Range(created) \cap pruned.live = {}
    <2> SUFFICES ASSUME NEW leaf \in Range(created), leaf \in s.utxos.live PROVE FALSE
        BY <1>6
    <2>1. PICK o \in Range(block.transparent_creates) :
              leaf = [outpoint |-> o, height |-> block.height]
        BY CreatedLeavesFacts DEF created
    <2>2. PICK q \in DOMAIN s.utxo_index : leaf = s.utxo_index[q] /\ leaf.outpoint = q
        BY <1>1 DEF Matching
    <2> QED BY <2>1, <2>2
<1>13. NoRepeat(created)
    BY CreatedNoRepeat DEF created
<1> HIDE DEF pruned, grown
<1>14. WellBuilt(Built(grown.calls)) /\ Live(Built(grown.calls)) = grown.live
    <2>1. Range(created) \cap Live(Built(pruned.calls)) = {}
        BY <1>10, <1>12
    <2>2. /\ WellBuilt(Added(Built(pruned.calls), created))
          /\ Live(Added(Built(pruned.calls), created))
               = Live(Built(pruned.calls)) \cup Range(created)
        BY <1>3, <1>10, <1>13, <2>1, AddedFacts
    <2> QED BY <1>7, <1>10, <1>11, <2>2
<1>15. next.utxos = grown
    BY <1>2, <1>5
<1>16. Forest(next) = Built(grown.calls) /\ Forest(s) = Built(s.utxos.calls)
    BY <1>15, ForestIsBuilt
<1>17. Sound(next)
    BY <1>2, <1>14, <1>15, <1>16 DEF Sound
<1>18. Forest(next) = Added(Deleted(Forest(s), spent), created)
    BY <1>9, <1>11, <1>16
<1> QED BY <1>17, <1>18 DEF next, spent, created

----------------------------------------------------------------------------
(* The walk along a block's spends.                                        *)

\* f holds the results of Filtered over the prefixes of s, which are prefixes
\* of its result over s.
Runs(f, s, wanted) ==
    /\ f[0] = <<>> /\ f[Len(s)] = Filtered(s, wanted)
    /\ \A n \in 1 .. Len(s) :
           f[n] = IF s[n] \in wanted THEN Append(f[n - 1], s[n]) ELSE f[n - 1]
    /\ \A n \in 0 .. Len(s) :
           /\ Len(f[n]) <= Len(Filtered(s, wanted))
           /\ \A i \in 1 .. Len(f[n]) : f[n][i] = Filtered(s, wanted)[i]

\* Filtered is computed by such a run.
LEMMA FilterRuns ==
    ASSUME NEW S, NEW s \in Seq(S), NEW wanted
    PROVE  \E f : Runs(f, s, wanted) /\ \A n \in 0 .. Len(s) : f[n] \in Seq(S)
<1>1. PICK f : Filters(f, s, wanted, Len(s)) /\ Filtered(s, wanted) = f[Len(s)]
    BY FilteredUnfolds
<1> DEFINE m == Len(s)
<1>2. m \in Nat /\ \A i \in 1 .. m : s[i] \in S
    BY LenProperties
<1>3. /\ f[0] = <<>>
      /\ \A n \in 1 .. m :
             f[n] = IF s[n] \in wanted THEN Append(f[n - 1], s[n]) ELSE f[n - 1]
    <2>1. \A n \in 0 .. m : f[n] = IF n = 0 THEN <<>>
                                   ELSE IF s[n] \in wanted THEN Append(f[n - 1], s[n])
                                   ELSE f[n - 1]
        BY <1>1, FiltersAt
    <2> HIDE DEF m
    <2>2. 0 \in 0 .. m /\ \A n \in 1 .. m : n \in 0 .. m /\ n # 0
        BY <1>2
    <2> QED BY <2>1, <2>2
<1>4. \A n \in 0 .. m : f[n] \in Seq(S)
    <2> DEFINE Good == {k \in 0 .. m : f[k] \in Seq(S)}
    <2> HIDE DEF m
    <2>1. 0 \in Good
        <3>1. <<>> \in Seq(S) /\ 0 \in 0 .. m
            BY <1>2, EmptySeq
        <3>2. f[0] \in Seq(S)
            BY <1>3, <3>1
        <3> QED BY <3>1, <3>2
    <2>2. ASSUME NEW k \in 1 .. m, k - 1 \in Good PROVE k \in Good
        <3>1. s[k] \in S /\ f[k - 1] \in Seq(S)
            BY <1>2, <2>2
        <3>2. Append(f[k - 1], s[k]) \in Seq(S)
            BY <3>1
        <3>3. f[k] \in Seq(S)
            BY <1>3, <3>1, <3>2
        <3> QED BY <1>2, <3>3
    <2> HIDE DEF Good
    <2>3. \A k \in 0 .. m : k \in Good
        BY <1>2, <2>1, <2>2, UpTo
    <2> QED BY <2>3 DEF Good
<1>5. \A n \in 0 .. m : Len(f[n]) <= Len(f[m]) /\ \A i \in 1 .. Len(f[n]) : f[n][i] = f[m][i]
    <2> DEFINE Inside(n) == Len(f[n]) <= Len(f[m]) /\ \A i \in 1 .. Len(f[n]) : f[n][i] = f[m][i]
               Good == {k \in 0 .. m : Inside(m - k)}
    <2>1. 0 \in Good
        <3>1. Len(f[m]) \in Nat /\ m - 0 = m
            BY <1>2, <1>4
        <3> QED BY <1>2, <3>1
    <2>2. ASSUME NEW k \in 1 .. m, k - 1 \in Good PROVE k \in Good
        <3> DEFINE n == m - k
        <3>1. n \in 0 .. m /\ n + 1 \in 1 .. m /\ n + 1 = m - (k - 1) /\ (n + 1) - 1 = n
              /\ n + 1 \in 0 .. m
            BY <1>2
        <3>2. Inside(n + 1)
            BY <2>2, <3>1
        <3> HIDE DEF n, m
        <3>3. f[n + 1] = IF s[n + 1] \in wanted THEN Append(f[n], s[n + 1]) ELSE f[n]
            BY <1>3, <3>1
        <3>4. f[n] \in Seq(S) /\ s[n + 1] \in S /\ f[m] \in Seq(S)
            BY <1>2, <1>4, <3>1
        <3>5. Len(f[n]) <= Len(f[n + 1]) /\ \A i \in 1 .. Len(f[n]) : f[n][i] = f[n + 1][i]
              /\ Len(f[n + 1]) \in Nat /\ Len(f[n]) \in Nat /\ Len(f[m]) \in Nat
            BY <3>3, <3>4, AppendProperties
        <3>6. Inside(n)
            BY <3>2, <3>5
        <3> QED BY <3>6 DEF n
    <2> HIDE DEF Good, Inside, m
    <2>3. \A k \in 0 .. m : k \in Good
        BY <1>2, <2>1, <2>2, UpTo
    <2>4. \A n \in 0 .. m : m - n \in 0 .. m /\ m - (m - n) = n
        BY <1>2
    <2>5. \A n \in 0 .. m : Inside(n)
        BY <2>3, <2>4 DEF Good
    <2> QED BY <2>5 DEF Inside
<1>6. Runs(f, s, wanted)
    BY <1>1, <1>3, <1>5 DEF Runs
<1> QED BY <1>4, <1>6

\* One spend of the walk along the leaves `spent`.
Claims(spent, walk, o) ==
    walk.cursor < Len(spent) /\ spent[walk.cursor + 1].outpoint = o

Strode(spent, walk, o) ==
    IF Claims(spent, walk, o) THEN [walk EXCEPT !.cursor = @ + 1]
    ELSE [walk EXCEPT !.cancelled = @ \cup {o}]

Walk == [cursor : Nat, cancelled : SUBSET OutPoint]

\* What a spend does to the walk.
LEMMA StrodeFacts ==
    ASSUME NEW spent, NEW walk \in Walk, NEW o \in OutPoint
    PROVE  /\ Strode(spent, walk, o) \in Walk
           /\ Claims(spent, walk, o) =>
                  /\ Strode(spent, walk, o).cursor = walk.cursor + 1
                  /\ Strode(spent, walk, o).cancelled = walk.cancelled
           /\ ~Claims(spent, walk, o) =>
                  /\ Strode(spent, walk, o).cursor = walk.cursor
                  /\ Strode(spent, walk, o).cancelled = walk.cancelled \cup {o}
<1>1. CASE Claims(spent, walk, o)
    BY <1>1 DEF Strode, Walk
<1>2. CASE ~Claims(spent, walk, o)
    BY <1>2 DEF Strode, Walk
<1> QED BY <1>1, <1>2

\* w is the recursive function of Walked, up to a prefix of length m.
Walks(w, spent, spends, m) ==
    w = [n \in 0 .. m |-> IF n = 0 THEN [cursor |-> 0, cancelled |-> {}]
                          ELSE Strode(spent, w[n - 1], spends[n])]

\* It exists,
LEMMA WalksExist ==
    ASSUME NEW spent, NEW spends, NEW m \in Nat
    PROVE  \E f : Walks(f, spent, spends, m)
<1> DEFINE Good == {k \in 0 .. m : \E f : Walks(f, spent, spends, k)}
<1>1. 0 \in Good
    <2>1. Walks([n \in 0 .. 0 |-> [cursor |-> 0, cancelled |-> {}]], spent, spends, 0)
        BY DEF Walks
    <2> QED BY <2>1
<1>2. ASSUME NEW k \in 1 .. m, k - 1 \in Good PROVE k \in Good
    <2>1. PICK f : Walks(f, spent, spends, k - 1)
        BY <1>2
    <2> DEFINE g == [n \in 0 .. k |-> IF n = k THEN Strode(spent, f[k - 1], spends[k]) ELSE f[n]]
    <2>2. k \in Nat /\ \A n \in 0 .. k - 1 : g[n] = f[n]
        BY <1>2
    <2>3. ASSUME NEW n \in 0 .. k
          PROVE  g[n] = IF n = 0 THEN [cursor |-> 0, cancelled |-> {}] ELSE Strode(spent, g[n - 1], spends[n])
        <3>1. CASE n = k
            BY <1>2, <2>2, <3>1
        <3>2. CASE n # k
            <4>1. n \in 0 .. k - 1 /\ g[n] = f[n] /\ (n # 0 => g[n - 1] = f[n - 1])
                BY <2>2, <3>2
            <4>2. f[n] = IF n = 0 THEN [cursor |-> 0, cancelled |-> {}] ELSE Strode(spent, f[n - 1], spends[n])
                BY <2>1, <4>1 DEF Walks
            <4> HIDE DEF g
            <4> QED BY <4>1, <4>2
        <3> QED BY <3>1, <3>2
    <2>4. g = [n \in 0 .. k |-> g[n]]
        OBVIOUS
    <2> HIDE DEF g
    <2>5. Walks(g, spent, spends, k)
        BY <2>3, <2>4 DEF Walks
    <2> QED BY <2>2, <2>5, <1>2
<1> HIDE DEF Good
<1>3. m \in Good
    BY <1>1, <1>2, UpTo
<1> QED BY <1>3 DEF Good

\* Walked is where a walk of one spend after the other ends.
LEMMA WalkedUnfolds ==
    ASSUME NEW block, block.transparent_spends \in Seq(OutPoint), NEW bundle
    PROVE  LET spends == block.transparent_spends
           IN  \E w : /\ Walked(block, bundle) = w[Len(spends)]
                      /\ w[0] = [cursor |-> 0, cancelled |-> {}]
                      /\ \A n \in 1 .. Len(spends) :
                             w[n] = Strode(bundle.spent, w[n - 1], spends[n])
<1> DEFINE spends == block.transparent_spends
           m == Len(spends)
           w == CHOOSE w : Walks(w, bundle.spent, spends, m)
<1>1. m \in Nat
    OBVIOUS
<1>2. Walked(block, bundle) = w[m]
    BY DEF Walked, Walks, Strode, Claims
<1> HIDE DEF m
<1>3. Walks(w, bundle.spent, spends, m)
    <2>1. \E v : Walks(v, bundle.spent, spends, m)
        BY <1>1, WalksExist
    <2> QED BY <2>1
<1> HIDE DEF w
<1>4. \A n \in 0 .. m : w[n] = IF n = 0 THEN [cursor |-> 0, cancelled |-> {}]
                               ELSE Strode(bundle.spent, w[n - 1], spends[n])
    BY <1>3 DEF Walks
<1>5. w[0] = [cursor |-> 0, cancelled |-> {}]
    BY <1>1, <1>4
<1>6. \A n \in 1 .. m : w[n] = Strode(bundle.spent, w[n - 1], spends[n])
    BY <1>1, <1>4
<1> QED BY <1>2, <1>5, <1>6 DEF m

\* The leaves a block spends, one by one.
LEMMA SpentLeavesAt ==
    ASSUME NEW s \in State, Matching(s), NEW block \in BlockSummary
    PROVE  LET hits == Filtered(block.transparent_spends, DOMAIN s.utxo_index)
           IN  /\ Len(SpentLeaves(s, block)) = Len(hits)
               /\ SpentLeaves(s, block) = [i \in 1 .. Len(hits) |-> s.utxo_index[hits[i]]]
               /\ \A i \in 1 .. Len(hits) :
                      hits[i] \in DOMAIN s.utxo_index /\ SpentLeaves(s, block)[i].outpoint = hits[i]
<1> DEFINE hits == Filtered(block.transparent_spends, DOMAIN s.utxo_index)
<1>1. hits \in Seq(OutPoint) /\ Range(hits) = Range(block.transparent_spends) \cap DOMAIN s.utxo_index
    BY BlockType, FilteredMembers
<1>2. SpentLeaves(s, block) = [i \in DOMAIN hits |-> s.utxo_index[hits[i]]]
    BY DEF SpentLeaves
<1> HIDE DEF hits
<1>3. DOMAIN hits = 1 .. Len(hits) /\ Len(hits) \in Nat
    BY <1>1
<1>4. \A i \in 1 .. Len(hits) : hits[i] \in DOMAIN s.utxo_index
    BY <1>1, <1>3 DEF Range
<1>5. \A i \in 1 .. Len(hits) : SpentLeaves(s, block)[i].outpoint = hits[i]
    BY <1>2, <1>3, <1>4 DEF Matching
<1>6. Len(SpentLeaves(s, block)) = Len(hits)
    <2>1. SpentLeaves(s, block) \in Seq(Leaf)
        BY SpentLeavesFacts
    <2>2. DOMAIN SpentLeaves(s, block) = 1 .. Len(hits)
        BY <1>2, <1>3
    <2> QED BY <1>3, <2>1, <2>2, LenProperties
<1>7. SpentLeaves(s, block) = [i \in 1 .. Len(hits) |-> s.utxo_index[hits[i]]]
    BY <1>2, <1>3
<1> QED BY <1>4, <1>5, <1>6, <1>7 DEF hits

\* A walk w in which a spend claims a leaf exactly if it is of an indexed
\* output, beside the filter f of those spends.
InStep(spends, index, spent, w, f) ==
    /\ \A n \in 0 .. Len(spends) : f[n] \in Seq(OutPoint)
    /\ f[0] = <<>> /\ w[0] = [cursor |-> 0, cancelled |-> {}]
    /\ \A n \in 1 .. Len(spends) :
           /\ f[n] = IF spends[n] \in DOMAIN index THEN Append(f[n - 1], spends[n])
                     ELSE f[n - 1]
           /\ w[n] = Strode(spent, w[n - 1], spends[n])
           /\ w[n - 1].cursor = Len(f[n - 1]) =>
                  (Claims(spent, w[n - 1], spends[n]) <=> spends[n] \in DOMAIN index)

\* It claims as many leaves as the block spends, and cancels the rest.
LEMMA WalkAlongIndex ==
    ASSUME NEW spends \in Seq(OutPoint), NEW index, NEW spent, NEW w, NEW f,
           InStep(spends, index, spent, w, f)
    PROVE  \A n \in 0 .. Len(spends) :
               /\ w[n] \in Walk /\ w[n].cursor = Len(f[n])
               /\ w[n].cancelled = {spends[i] : i \in 1 .. n} \ DOMAIN index
<1> DEFINE m == Len(spends)
           At(n) == /\ w[n] \in Walk /\ w[n].cursor = Len(f[n])
                    /\ w[n].cancelled = {spends[i] : i \in 1 .. n} \ DOMAIN index
           Good == {n \in 0 .. m : At(n)}
<1>1. m \in Nat /\ \A i \in 1 .. m : spends[i] \in OutPoint
    OBVIOUS
<1>2. 0 \in Good
    <2>1. f[0] = <<>> /\ w[0] = [cursor |-> 0, cancelled |-> {}]
        BY DEF InStep
    <2>2. Len(f[0]) = 0 /\ {spends[i] : i \in 1 .. 0} = {}
        BY <2>1
    <2>3. At(0)
        BY <2>1, <2>2 DEF Walk
    <2> HIDE DEF At, m
    <2> QED BY <1>1, <2>3
<1>3. ASSUME NEW n \in 1 .. m, n - 1 \in Good PROVE n \in Good
    <2> DEFINE o == spends[n]
    <2>1. n - 1 \in 0 .. m /\ n \in 0 .. m /\ At(n - 1)
        BY <1>1, <1>3
    <2>2. {spends[i] : i \in 1 .. n} = {spends[i] : i \in 1 .. n - 1} \cup {o}
        <3>1. 1 .. n = (1 .. n - 1) \cup {n}
            BY <1>1
        <3> QED BY <3>1
    <2>3. /\ f[n] = IF o \in DOMAIN index THEN Append(f[n - 1], o) ELSE f[n - 1]
          /\ w[n] = Strode(spent, w[n - 1], o)
          /\ Claims(spent, w[n - 1], o) <=> o \in DOMAIN index
        BY <2>1 DEF InStep
    <2>4. f[n - 1] \in Seq(OutPoint) /\ o \in OutPoint
        BY <1>1, <2>1 DEF InStep
    <2> HIDE DEF o, m
    <2>5. w[n - 1] \in Walk
        BY <2>1
    <2>6. At(n)
        <3>1. CASE o \in DOMAIN index
            <4>1. /\ w[n] \in Walk /\ w[n].cursor = w[n - 1].cursor + 1
                  /\ w[n].cancelled = w[n - 1].cancelled
                <5>1. Claims(spent, w[n - 1], o)
                    BY <2>3, <3>1
                <5>2. w[n] = Strode(spent, w[n - 1], o)
                    BY <2>3
                <5>3. o \in OutPoint
                    BY <2>4
                <5> HIDE DEF At
                <5> QED BY <2>5, <5>1, <5>2, <5>3, StrodeFacts DEF Claims
            <4>2. Len(f[n]) = Len(f[n - 1]) + 1
                BY <2>3, <2>4, <3>1, AppendProperties
            <4>3. {spends[i] : i \in 1 .. n} \ DOMAIN index
                    = {spends[i] : i \in 1 .. n - 1} \ DOMAIN index
                BY <2>2, <3>1
            <4> QED BY <2>1, <4>1, <4>2, <4>3
        <3>2. CASE o \notin DOMAIN index
            <4>1. /\ w[n] \in Walk /\ w[n].cursor = w[n - 1].cursor
                  /\ w[n].cancelled = w[n - 1].cancelled \cup {o}
                <5>1. ~Claims(spent, w[n - 1], o)
                    BY <2>3, <3>2
                <5>2. w[n] = Strode(spent, w[n - 1], o)
                    BY <2>3
                <5>3. o \in OutPoint
                    BY <2>4
                <5> HIDE DEF At
                <5> QED BY <2>5, <5>1, <5>2, <5>3, StrodeFacts DEF Claims
            <4>2. f[n] = f[n - 1]
                BY <2>3, <3>2
            <4>3. {spends[i] : i \in 1 .. n} \ DOMAIN index
                    = ({spends[i] : i \in 1 .. n - 1} \ DOMAIN index) \cup {o}
                BY <2>2, <3>2
            <4> QED BY <2>1, <4>1, <4>2, <4>3
        <3> QED BY <3>1, <3>2
    <2> QED BY <2>1, <2>6
<1> HIDE DEF Good, m
<1>4. \A n \in 0 .. m : n \in Good
    <2> HIDE DEF At
    <2> QED BY <1>1, <1>2, <1>3, UpTo
<1> QED BY <1>4 DEF Good, m

\* A bundle whose leaves are all in the state has all its claimed leaves spent
\* by the block: the leaves are those the block spends, and the others of its
\* spends are cancelled.
LEMMA ClaimedIsSpent ==
    ASSUME NEW s \in State, Matching(s), NEW block \in BlockSummary, NEW bundle,
           Range(block.transparent_creates) \cap DOMAIN s.utxo_index = {},
           bundle.spent \in Seq(Leaf), Range(bundle.spent) \subseteq s.utxos.live,
           SpendsClaimed(block, bundle)
    PROVE  /\ bundle.spent = SpentLeaves(s, block)
           /\ Walked(block, bundle).cancelled = Cancelled(s, block)
           /\ SpendsResolve(s, block, GenesisForward)
<1> DEFINE spends == block.transparent_spends
           index == s.utxo_index
           spent == bundle.spent
           m == Len(spends)
           hits == Filtered(spends, DOMAIN index)
<1>1. spends \in Seq(OutPoint)
    BY BlockType
<1>2. PICK w : /\ Walked(block, bundle) = w[m]
               /\ w[0] = [cursor |-> 0, cancelled |-> {}]
               /\ \A n \in 1 .. m : w[n] = Strode(spent, w[n - 1], spends[n])
    BY <1>1, WalkedUnfolds
<1>3. PICK f : /\ \A n \in 0 .. m : f[n] \in Seq(OutPoint)
               /\ f[0] = <<>> /\ f[m] = hits
               /\ \A n \in 1 .. m :
                      f[n] = IF spends[n] \in DOMAIN index THEN Append(f[n - 1], spends[n])
                             ELSE f[n - 1]
               /\ \A n \in 0 .. m : /\ Len(f[n]) <= Len(hits)
                                    /\ \A i \in 1 .. Len(f[n]) : f[n][i] = hits[i]
    <2>1. PICK f : Runs(f, spends, DOMAIN index) /\ \A n \in 0 .. m : f[n] \in Seq(OutPoint)
        <3> HIDE DEF spends, index
        <3> QED BY <1>1, FilterRuns
    <2> WITNESS f
    <2> QED BY <2>1 DEF Runs
<1>4. m \in Nat /\ Range(spends) = {spends[i] : i \in 1 .. m}
    BY <1>1, RangeEquality
<1>5. w[m].cancelled \subseteq Range(block.transparent_creates) /\ w[m].cursor = Len(spent)
      /\ NoRepeat(spends)
    BY <1>2 DEF SpendsClaimed
<1>6. Len(spent) \in Nat /\ \A i \in 1 .. Len(spent) : spent[i] \in s.utxos.live
    <2>1. \A i \in 1 .. Len(spent) : spent[i] \in Range(spent)
        BY RangeEquality
    <2> QED BY <2>1
<1> HIDE DEF m, hits, spent
<1>7. ASSUME NEW n \in 1 .. m, w[n - 1] \in Walk
      PROVE  /\ w[n] \in Walk /\ w[n - 1].cancelled \subseteq w[n].cancelled
             /\ ~Claims(spent, w[n - 1], spends[n]) => spends[n] \in w[n].cancelled
    <2>1. w[n] = Strode(spent, w[n - 1], spends[n])
        BY <1>2
    <2>2. spends[n] \in OutPoint
        BY <1>1 DEF m
    <2>3. CASE Claims(spent, w[n - 1], spends[n])
        BY <1>7, <2>1, <2>2, <2>3, StrodeFacts, SMTT(40) DEF Claims
    <2>4. CASE ~Claims(spent, w[n - 1], spends[n])
        <3>1. w[n] \in Walk /\ w[n].cancelled = w[n - 1].cancelled \cup {spends[n]}
            BY <1>7, <2>1, <2>2, <2>4, StrodeFacts DEF Claims
        <3> QED BY <3>1
    <2> QED BY <2>3, <2>4
<1>8. \A n \in 0 .. m : w[n] \in Walk
    <2> DEFINE Good == {n \in 0 .. m : w[n] \in Walk}
    <2>1. 0 \in Good
        <3>1. 0 \in 0 .. m
            BY <1>4
        <3>2. w[0] \in Walk
            BY <1>2 DEF Walk
        <3> QED BY <3>1, <3>2
    <2>2. ASSUME NEW n \in 1 .. m, n - 1 \in Good PROVE n \in Good
        <3>1. w[n] \in Walk
            BY <1>7, <2>2
        <3>2. n \in 0 .. m
            BY <1>4
        <3> QED BY <3>1, <3>2
    <2> HIDE DEF Good
    <2>3. \A n \in 0 .. m : n \in Good
        BY <1>4, <2>1, <2>2, UpTo
    <2> QED BY <2>3 DEF Good
\* What is once cancelled stays cancelled.
<1>9. \A n \in 0 .. m : w[n].cancelled \subseteq w[m].cancelled
    <2> DEFINE Good == {k \in 0 .. m : w[m - k].cancelled \subseteq w[m].cancelled}
    <2>1. 0 \in Good
        <3>1. m - 0 = m /\ 0 \in 0 .. m
            BY <1>4
        <3> QED BY <3>1
    <2>2. ASSUME NEW k \in 1 .. m, k - 1 \in Good PROVE k \in Good
        <3> DEFINE n == m - k + 1
        <3>1. n \in 1 .. m /\ n - 1 = m - k /\ n - 1 \in 0 .. m /\ n = m - (k - 1) /\ k \in 0 .. m
            BY <1>4
        <3> HIDE DEF n
        <3>2. w[n - 1].cancelled \subseteq w[n].cancelled
            BY <1>7, <1>8, <3>1
        <3>3. w[n].cancelled \subseteq w[m].cancelled
            BY <2>2, <3>1
        <3>4. w[m - k].cancelled \subseteq w[m].cancelled
            BY <3>1, <3>2, <3>3
        <3> QED BY <3>1, <3>4
    <2> HIDE DEF Good
    <2>3. \A k \in 0 .. m : k \in Good
        BY <1>4, <2>1, <2>2, UpTo
    <2> SUFFICES ASSUME NEW n \in 0 .. m PROVE w[n].cancelled \subseteq w[m].cancelled
        OBVIOUS
    <2>4. m - n \in 0 .. m /\ m - (m - n) = n
        BY <1>4
    <2> QED BY <2>3, <2>4 DEF Good
\* A leaf that is claimed is the indexed leaf of the spend; a spend of an
\* indexed output that claims none would be cancelled, and is not created.
<1>10. ASSUME NEW n \in 1 .. m
      PROVE  Claims(spent, w[n - 1], spends[n]) <=> spends[n] \in DOMAIN index
    <2>1. n - 1 \in 0 .. m /\ n \in 0 .. m
        BY <1>4
    <2>2. ASSUME Claims(spent, w[n - 1], spends[n]) PROVE spends[n] \in DOMAIN index
        <3>1. w[n - 1].cursor + 1 \in 1 .. Len(spent)
            <4>1. w[n - 1].cursor \in Nat
                BY <1>8, <2>1 DEF Walk
            <4> QED BY <1>6, <2>2, <4>1 DEF Claims
        <3>2. PICK o \in DOMAIN index : spent[w[n - 1].cursor + 1] = index[o] /\ index[o].outpoint = o
            BY <1>6, <3>1 DEF Matching
        <3> QED BY <2>2, <3>2 DEF Claims
    <2>3. ASSUME spends[n] \in DOMAIN index, ~Claims(spent, w[n - 1], spends[n]) PROVE FALSE
        <3>1. spends[n] \in w[n].cancelled
            BY <1>7, <1>8, <2>1, <2>3
        <3>2. spends[n] \in Range(block.transparent_creates)
            BY <1>5, <1>9, <2>1, <3>1
        <3> QED BY <2>3, <3>2
    <2> QED BY <2>2, <2>3
<1>11. \A n \in 0 .. m : /\ w[n] \in Walk /\ w[n].cursor = Len(f[n])
                         /\ w[n].cancelled = {spends[i] : i \in 1 .. n} \ DOMAIN index
    <2> HIDE DEF index, spends
    <2>1. InStep(spends, index, spent, w, f)
        BY <1>2, <1>3, <1>10 DEF m, InStep
    <2>2. \A n \in 0 .. Len(spends) : /\ w[n] \in Walk /\ w[n].cursor = Len(f[n])
                         /\ w[n].cancelled = {spends[i] : i \in 1 .. n} \ DOMAIN index
        BY <1>1, <2>1, WalkAlongIndex
    <2> QED BY <2>2 DEF m
<1>12. w[m].cursor = Len(hits) /\ w[m].cancelled = Range(spends) \ DOMAIN index
    <2>1. m \in 0 .. m
        BY <1>4
    <2> QED BY <1>3, <1>4, <1>11, <2>1
<1>13. Len(spent) = Len(hits)
    BY <1>5, <1>12
<1>14. hits \in Seq(OutPoint) /\ Range(hits) = Range(spends) \cap DOMAIN index
    BY <1>1, FilteredMembers DEF hits
\* The i-th hit was claimed as the i-th leaf.
<1>15. ASSUME NEW i \in 1 .. Len(hits) PROVE spent[i] = index[hits[i]]
    <2> DEFINE At(n) == \A j \in 1 .. Len(f[n]) : spent[j] = index[f[n][j]]
               Good == {n \in 0 .. m : At(n)}
    <2>1. 0 \in Good
        BY <1>3, <1>4
    <2>2. ASSUME NEW n \in 1 .. m, n - 1 \in Good PROVE n \in Good
        <3>1. n - 1 \in 0 .. m /\ n \in 0 .. m /\ At(n - 1)
            BY <1>4, <2>2
        <3>2. f[n] = IF spends[n] \in DOMAIN index THEN Append(f[n - 1], spends[n]) ELSE f[n - 1]
            BY <1>3
        <3>3. CASE spends[n] \in DOMAIN index
            <4>1. Claims(spent, w[n - 1], spends[n])
                BY <1>10, <3>3
            <4>2. w[n - 1].cursor = Len(f[n - 1])
                BY <1>11, <3>1
            <4>3. f[n - 1] \in Seq(OutPoint) /\ spends[n] \in OutPoint /\ Len(f[n - 1]) \in Nat
                <5>1. spends[n] \in OutPoint
                    BY <1>1 DEF m
                <5> QED BY <1>3, <3>1, <5>1
            <4>4. Len(f[n - 1]) + 1 \in 1 .. Len(spent)
                  /\ spent[Len(f[n - 1]) + 1].outpoint = spends[n]
                BY <1>6, <4>1, <4>2, <4>3 DEF Claims
            <4>5. spent[Len(f[n - 1]) + 1] = index[spends[n]]
                <5>1. spent[Len(f[n - 1]) + 1] \in s.utxos.live
                    BY <1>6, <4>4
                <5>2. PICK o \in DOMAIN index :
                          spent[Len(f[n - 1]) + 1] = index[o] /\ index[o].outpoint = o
                    BY <5>1 DEF Matching
                <5> QED BY <4>4, <5>2
            <4>6. /\ Len(f[n]) = Len(f[n - 1]) + 1 /\ f[n][Len(f[n - 1]) + 1] = spends[n]
                  /\ \A j \in 1 .. Len(f[n - 1]) : f[n][j] = f[n - 1][j]
                BY <3>2, <3>3, <4>3, AppendProperties
            <4>7. At(n)
                <5> SUFFICES ASSUME NEW j \in 1 .. Len(f[n]) PROVE spent[j] = index[f[n][j]]
                    OBVIOUS
                <5>1. j \in 1 .. Len(f[n - 1]) \/ j = Len(f[n - 1]) + 1
                    BY <4>3, <4>6
                <5> QED BY <3>1, <4>5, <4>6, <5>1
            <4> QED BY <3>1, <4>7
        <3>4. CASE spends[n] \notin DOMAIN index
            BY <3>1, <3>2, <3>4
        <3> QED BY <3>3, <3>4
    <2> HIDE DEF Good
    <2>3. \A n \in 0 .. m : n \in Good
        BY <1>4, <2>1, <2>2, UpTo
    <2>4. At(m)
        BY <1>4, <2>3 DEF Good
    <2> QED BY <1>3, <2>4
<1>16. spent = SpentLeaves(s, block)
    <2>1. /\ Len(SpentLeaves(s, block)) = Len(hits)
          /\ SpentLeaves(s, block) = [i \in 1 .. Len(hits) |-> index[hits[i]]]
        BY SpentLeavesAt DEF hits
    <2>2. spent \in Seq(Leaf) /\ SpentLeaves(s, block) \in Seq(Leaf)
        BY SpentLeavesFacts DEF spent
    <2>3. \A i \in 1 .. Len(hits) : spent[i] = SpentLeaves(s, block)[i]
        BY <1>15, <2>1
    <2> QED BY <1>13, <2>1, <2>2, <2>3, SeqEqual
<1>17. Range(spends) \ DOMAIN index \subseteq Range(block.transparent_creates)
    BY <1>5, <1>12
<1>18. w[m].cancelled = Cancelled(s, block)
    BY <1>12, <1>17 DEF Cancelled
<1>19. SpendsResolve(s, block, GenesisForward)
    BY <1>5, <1>17 DEF SpendsResolve
<1> QED BY <1>2, <1>16, <1>18, <1>19 DEF spent

\* The other way round: a bundle of exactly the leaves a block spends has each
\* of them claimed, and what is cancelled is cancelled by the block.
LEMMA SpentIsClaimed ==
    ASSUME NEW s \in State, Matching(s), NEW block \in BlockSummary, NEW bundle,
           SpendsResolve(s, block, GenesisForward), bundle.spent = SpentLeaves(s, block)
    PROVE  /\ SpendsClaimed(block, bundle)
           /\ Walked(block, bundle).cancelled = Cancelled(s, block)
<1> DEFINE spends == block.transparent_spends
           index == s.utxo_index
           spent == bundle.spent
           m == Len(spends)
           hits == Filtered(spends, DOMAIN index)
<1>1. spends \in Seq(OutPoint)
    BY BlockType
<1>2. PICK w : /\ Walked(block, bundle) = w[m]
               /\ w[0] = [cursor |-> 0, cancelled |-> {}]
               /\ \A n \in 1 .. m : w[n] = Strode(spent, w[n - 1], spends[n])
    BY <1>1, WalkedUnfolds
<1>3. PICK f : /\ \A n \in 0 .. m : f[n] \in Seq(OutPoint)
               /\ f[0] = <<>> /\ f[m] = hits
               /\ \A n \in 1 .. m :
                      f[n] = IF spends[n] \in DOMAIN index THEN Append(f[n - 1], spends[n])
                             ELSE f[n - 1]
               /\ \A n \in 0 .. m : /\ Len(f[n]) <= Len(hits)
                                    /\ \A i \in 1 .. Len(f[n]) : f[n][i] = hits[i]
    <2>1. PICK f : Runs(f, spends, DOMAIN index) /\ \A n \in 0 .. m : f[n] \in Seq(OutPoint)
        <3> HIDE DEF spends, index
        <3> QED BY <1>1, FilterRuns
    <2> WITNESS f
    <2> QED BY <2>1 DEF Runs
<1>4. m \in Nat /\ Range(spends) = {spends[i] : i \in 1 .. m}
      /\ \A i \in 1 .. m : spends[i] \in OutPoint
    BY <1>1, RangeEquality
<1>5. /\ Len(spent) = Len(hits) /\ Len(hits) \in Nat
      /\ \A i \in 1 .. Len(hits) : hits[i] \in DOMAIN index /\ spent[i].outpoint = hits[i]
    <2>1. hits \in Seq(OutPoint)
        BY <1>1, FilteredMembers
    <2>2. Len(hits) \in Nat
        BY <2>1
    <2> HIDE DEF hits
    <2>3. /\ Len(SpentLeaves(s, block)) = Len(hits)
          /\ \A i \in 1 .. Len(hits) :
                 hits[i] \in DOMAIN index /\ SpentLeaves(s, block)[i].outpoint = hits[i]
        BY SpentLeavesAt DEF hits
    <2> QED BY <2>2, <2>3
<1>6. NoRepeat(spends) /\ Range(spends) \subseteq DOMAIN index \cup Range(block.transparent_creates)
    BY DEF SpendsResolve, GenesisForward
<1> HIDE DEF m, hits, spent
<1>7. ASSUME NEW n \in 1 .. m, w[n - 1].cursor = Len(f[n - 1])
      PROVE  Claims(spent, w[n - 1], spends[n]) <=> spends[n] \in DOMAIN index
    <2> DEFINE c == Len(f[n - 1])
               o == spends[n]
    <2>1. n - 1 \in 0 .. m /\ n \in 0 .. m
        BY <1>4
    <2>2. f[n - 1] \in Seq(OutPoint) /\ o \in OutPoint /\ c \in Nat
        <3>1. f[n - 1] \in Seq(OutPoint)
            BY <1>3, <2>1
        <3> QED BY <1>4, <3>1
    <2>3. ASSUME Claims(spent, w[n - 1], o) PROVE o \in DOMAIN index
        <3>1. c < Len(spent) /\ spent[c + 1].outpoint = o
            BY <1>7, <2>3 DEF Claims
        <3>2. c + 1 \in 1 .. Len(hits)
            BY <1>5, <2>2, <3>1
        <3> QED BY <1>5, <3>1, <3>2
    <2>4. ASSUME o \in DOMAIN index PROVE Claims(spent, w[n - 1], o)
        <3>1. f[n] = Append(f[n - 1], o)
            BY <1>3, <2>4
        <3>2. Len(f[n]) = c + 1 /\ f[n][c + 1] = o
            BY <2>2, <3>1, AppendProperties
        <3>3. Len(f[n]) <= Len(hits) /\ \A i \in 1 .. Len(f[n]) : f[n][i] = hits[i]
            BY <1>3, <2>1
        <3> HIDE DEF c, o
        <3>4. c + 1 \in 1 .. Len(hits) /\ hits[c + 1] = o
            BY <1>5, <2>2, <3>2, <3>3
        <3>5. c < Len(spent) /\ spent[c + 1].outpoint = o
            BY <1>5, <2>2, <3>4
        <3> QED BY <1>7, <3>5 DEF Claims, c
    <2> QED BY <2>3, <2>4
<1>8. \A n \in 0 .. m : /\ w[n] \in Walk /\ w[n].cursor = Len(f[n])
                        /\ w[n].cancelled = {spends[i] : i \in 1 .. n} \ DOMAIN index
    <2> HIDE DEF index, spends
    <2>1. InStep(spends, index, spent, w, f)
        BY <1>2, <1>3, <1>7 DEF m, InStep
    <2>2. \A n \in 0 .. Len(spends) :
              /\ w[n] \in Walk /\ w[n].cursor = Len(f[n])
              /\ w[n].cancelled = {spends[i] : i \in 1 .. n} \ DOMAIN index
        BY <1>1, <2>1, WalkAlongIndex
    <2> QED BY <2>2 DEF m
<1>9. w[m].cursor = Len(hits) /\ w[m].cancelled = Range(spends) \ DOMAIN index
    <2>1. m \in 0 .. m
        BY <1>4
    <2> QED BY <1>3, <1>4, <1>8, <2>1
<1>10. Range(spends) \ DOMAIN index \subseteq Range(block.transparent_creates)
    BY <1>6
<1>11. w[m].cancelled = Cancelled(s, block)
    BY <1>9, <1>10 DEF Cancelled
<1>12. SpendsClaimed(block, bundle)
    BY <1>2, <1>5, <1>6, <1>9, <1>10 DEF SpendsClaimed, spent
<1> QED BY <1>2, <1>11, <1>12

\* Either way the node adds the leaves a full node would create.
LEMMA AdditionsAreCreated ==
    ASSUME NEW s, NEW block, NEW bundle, Walked(block, bundle).cancelled = Cancelled(s, block)
    PROVE  Additions(block, bundle) = CreatedLeaves(s, block)
BY DEF Additions, CreatedLeaves

----------------------------------------------------------------------------
(* One block of a compact node.                                            *)

\* A bundle as a bridge makes it: of a block that passes staging where the
\* bridge then is, on whichever branch.
Honest(bundle) ==
    \E t, block : /\ Sound(t) /\ block \in BlockSummary
                  /\ PassesStaging(t, block, GenesisForward)
                  /\ bundle = Bundle(t, block)

\* A compact state shows what a full node at s holds.
Reflects(compact, s) ==
    /\ compact = [utxos |-> compact.utxos, nullifiers |-> s.nullifiers, tip |-> s.tip]
    /\ WellBuilt(compact.utxos) /\ Live(compact.utxos) = s.utxos.live

\* What a forest that holds the leaves of s holds after the block.
LEMMA GrownFacts ==
    ASSUME NEW s, Sound(s), NEW block \in BlockSummary, NoRepeat(block.transparent_creates),
           Range(block.transparent_creates) \cap DOMAIN s.utxo_index = {},
           NEW forest, WellBuilt(forest), Live(forest) = s.utxos.live
    PROVE  LET grown == Added(Deleted(forest, SpentLeaves(s, block)), CreatedLeaves(s, block))
           IN  WellBuilt(grown) /\ Live(grown) = Applied(s, block).utxos.live
<1> DEFINE spent == SpentLeaves(s, block)
           created == CreatedLeaves(s, block)
           live == (s.utxos.live \ Range(spent)) \cup Range(created)
<1>1. s \in State /\ Matching(s) /\ WellBuilt(Forest(s)) /\ Live(Forest(s)) = s.utxos.live
    BY DEF Sound
<1>2. created \in Seq(Leaf) /\ NoRepeat(created)
    BY CreatedLeavesFacts, CreatedNoRepeat
<1>3. Range(created) \cap s.utxos.live = {}
    <2> SUFFICES ASSUME NEW leaf \in Range(created), leaf \in s.utxos.live PROVE FALSE
        OBVIOUS
    <2>1. PICK o \in Range(block.transparent_creates) :
              leaf = [outpoint |-> o, height |-> block.height]
        BY CreatedLeavesFacts
    <2>2. PICK q \in DOMAIN s.utxo_index : leaf = s.utxo_index[q] /\ leaf.outpoint = q
        BY <1>1 DEF Matching
    <2> QED BY <2>1, <2>2
<1> HIDE DEF spent, created
<1>4. ASSUME NEW any, WellBuilt(any), Live(any) = s.utxos.live
      PROVE  LET grown == Added(Deleted(any, spent), created)
             IN  WellBuilt(grown) /\ Live(grown) = live
    <2>1. WellBuilt(Deleted(any, spent)) /\ Live(Deleted(any, spent)) = s.utxos.live \ Range(spent)
        BY <1>4, DeletedFacts
    <2>2. Range(created) \cap Live(Deleted(any, spent)) = {}
        BY <1>3, <2>1
    <2>3. /\ WellBuilt(Added(Deleted(any, spent), created))
          /\ Live(Added(Deleted(any, spent), created))
               = Live(Deleted(any, spent)) \cup Range(created)
        BY <1>2, <2>1, <2>2, AddedFacts
    <2> QED BY <2>1, <2>3
<1>5. Forest(Applied(s, block)) = Added(Deleted(Forest(s), spent), created)
      /\ Live(Forest(Applied(s, block))) = Applied(s, block).utxos.live
    BY AppliedIsSound DEF Sound, spent, created
<1>6. live = Applied(s, block).utxos.live
    BY <1>1, <1>4, <1>5
<1> QED BY <1>4, <1>6 DEF spent, created

\* What is known of an honest bundle's leaves, proof and insertions.
LEMMA HonestFacts ==
    ASSUME NEW bundle, Honest(bundle)
    PROVE  /\ bundle.spent \in Seq(Leaf)
           /\ \A root \in bundle.utxo_proof : DOMAIN root \cap Range(bundle.spent) # {}
           /\ bundle.spent = <<>> => bundle.utxo_proof = {}
           /\ \A p \in Pool : \E list \in Seq(Value), values \in Seq(Value) :
                  /\ NoRepeat(values) /\ Range(values) \cap Range(list) = {}
                  /\ bundle.insertions[p] = InsertionProofs(list, values)
<1>1. PICK t, block : /\ Sound(t) /\ block \in BlockSummary
                      /\ PassesStaging(t, block, GenesisForward) /\ bundle = Bundle(t, block)
    BY DEF Honest
<1>2. /\ bundle.spent = SpentLeaves(t, block)
      /\ bundle.utxo_proof = Proof(Forest(t), bundle.spent)
      /\ \A p \in Pool :
             bundle.insertions[p] = InsertionProofs(t.nullifiers[p], block.nullifiers[p])
    BY <1>1 DEF Bundle
<1>3. t \in State /\ bundle.spent \in Seq(Leaf)
    BY <1>1, <1>2, SpentLeavesFacts DEF Sound
<1>4. \A root \in bundle.utxo_proof : DOMAIN root \cap Range(bundle.spent) # {}
    BY <1>2 DEF Proof
<1>5. bundle.spent = <<>> => bundle.utxo_proof = {}
    BY <1>4, EmptyRange
<1>6. ASSUME NEW p \in Pool
      PROVE  \E list \in Seq(Value), values \in Seq(Value) :
                  /\ NoRepeat(values) /\ Range(values) \cap Range(list) = {}
                  /\ bundle.insertions[p] = InsertionProofs(list, values)
    <2>1. t.nullifiers[p] \in Seq(Value) /\ block.nullifiers[p] \in Seq(Value)
        BY <1>1, <1>3, BlockType DEF State
    <2>2. NoRepeat(block.nullifiers[p])
          /\ Range(block.nullifiers[p]) \cap Range(t.nullifiers[p]) = {}
        BY <1>1 DEF PassesStaging, NullifiersFresh
    <2> QED BY <1>2, <2>1, <2>2
<1> QED BY <1>3, <1>4, <1>5, <1>6

\* Equal insertion proofs are of equal values, into equal trees if there are
\* any values.
LEMMA InsertionProofsFacts ==
    ASSUME NEW l1 \in Seq(Value), NEW v1 \in Seq(Value), NEW l2 \in Seq(Value),
           NEW v2 \in Seq(Value), InsertionProofs(l1, v1) = InsertionProofs(l2, v2)
    PROVE  v1 = v2 /\ (v1 # <<>> => l1 = l2)
<1> DEFINE proof(l, v) == [i \in DOMAIN v |-> [tree |-> l \o SubSeq(v, 1, i - 1), value |-> v[i]]]
<1>1. proof(l1, v1) = proof(l2, v2)
    BY DEF InsertionProofs
<1>2. DOMAIN v1 = DOMAIN v2
    <2>1. DOMAIN proof(l1, v1) = DOMAIN v1 /\ DOMAIN proof(l2, v2) = DOMAIN v2
        OBVIOUS
    <2> QED BY <1>1, <2>1
<1>3. ASSUME NEW i \in DOMAIN v1
      PROVE  v1[i] = v2[i] /\ l1 \o SubSeq(v1, 1, i - 1) = l2 \o SubSeq(v2, 1, i - 1)
    <2>1. proof(l1, v1)[i].tree = l1 \o SubSeq(v1, 1, i - 1) /\ proof(l1, v1)[i].value = v1[i]
        OBVIOUS
    <2>2. proof(l2, v2)[i].tree = l2 \o SubSeq(v2, 1, i - 1) /\ proof(l2, v2)[i].value = v2[i]
        BY <1>2
    <2> HIDE DEF proof
    <2> QED BY <1>1, <2>1, <2>2
<1>4. Len(v1) = Len(v2) /\ DOMAIN v1 = 1 .. Len(v1)
    BY <1>2, LenProperties
<1>5. v1 = v2
    BY <1>3, <1>4, SeqEqual
<1>6. ASSUME v1 # <<>> PROVE l1 = l2
    <2>1. 1 \in DOMAIN v1
        BY <1>4, <1>6, EmptySeq
    <2>2. l1 \o SubSeq(v1, 1, 0) = l2 \o SubSeq(v2, 1, 0)
        <3>1. 1 - 1 = 0
            OBVIOUS
        <3> QED BY <1>3, <2>1, <3>1
    <2>3. SubSeq(v1, 1, 0) = <<>> /\ SubSeq(v2, 1, 0) = <<>>
        BY SubSeqEmpty
    <2>4. l1 \o <<>> = l1 /\ l2 \o <<>> = l2
        OBVIOUS
    <2> QED BY <2>2, <2>3, <2>4
<1> QED BY <1>5, <1>6

\* A block and a bundle that a node accepts are as good as staging to a node
\* that keeps the outputs and the nullifiers, and take it where staging takes
\* that node.
LEMMA AcceptedFacts ==
    ASSUME NEW s, Sound(s), NEW compact, Reflects(compact, s), NEW bundle, Honest(bundle),
           NEW block \in BlockSummary, NoRepeat(block.transparent_creates),
           Range(block.transparent_creates) \cap DOMAIN s.utxo_index = {},
           Accepts(compact, block, bundle)
    PROVE  /\ PassesStaging(s, block, GenesisForward)
           /\ Reflects(Advanced(compact, block, bundle), Applied(s, block))
           /\ compact.utxos = Forest(s) =>
                  Advanced(compact, block, bundle).utxos = Forest(Applied(s, block))
<1> DEFINE spent == bundle.spent
           proof == bundle.utxo_proof
           next == Advanced(compact, block, bundle)
           after == Applied(s, block)
<1>1. s \in State /\ Matching(s)
    BY DEF Sound
<1>2. compact.nullifiers = s.nullifiers /\ compact.tip = s.tip
      /\ WellBuilt(compact.utxos) /\ Live(compact.utxos) = s.utxos.live
    BY DEF Reflects
<1>3. /\ compact.tip # NoTip => block.height = compact.tip + 1
      /\ SpendsClaimed(block, bundle)
      /\ spent # <<>> => Proves(compact.utxos, proof, spent)
      /\ \A p \in Pool :
             bundle.insertions[p] = InsertionProofs(compact.nullifiers[p], block.nullifiers[p])
    BY DEF Accepts, InsertionsVerify
<1>4. /\ spent \in Seq(Leaf) /\ \A root \in proof : DOMAIN root \cap Range(spent) # {}
      /\ spent = <<>> => proof = {}
    BY HonestFacts
<1> HIDE DEF spent, proof
<1>5. proof \subseteq Range(compact.utxos.roots)
      /\ Range(spent) \subseteq UNION {DOMAIN root : root \in proof}
    <2>1. CASE spent = <<>>
        BY <1>4, <2>1, EmptyRange
    <2>2. CASE spent # <<>>
        BY <1>3, <2>2 DEF Proves
    <2> QED BY <2>1, <2>2
<1>6. Range(spent) \subseteq s.utxos.live
    BY <1>2, <1>5, WellBuiltTypes
<1>7. /\ spent = SpentLeaves(s, block)
      /\ Walked(block, bundle).cancelled = Cancelled(s, block)
      /\ SpendsResolve(s, block, GenesisForward)
    BY <1>1, <1>3, <1>4, <1>6, ClaimedIsSpent DEF spent
<1>8. Additions(block, bundle) = CreatedLeaves(s, block)
    BY <1>7, AdditionsAreCreated
<1>9. NullifiersFresh(s, block)
    <2> SUFFICES ASSUME NEW p \in Pool
                 PROVE  /\ NoRepeat(block.nullifiers[p])
                        /\ Range(block.nullifiers[p]) \cap Range(s.nullifiers[p]) = {}
        BY DEF NullifiersFresh
    <2>1. PICK list \in Seq(Value), values \in Seq(Value) :
              /\ NoRepeat(values) /\ Range(values) \cap Range(list) = {}
              /\ bundle.insertions[p] = InsertionProofs(list, values)
        BY HonestFacts
    <2>2. s.nullifiers[p] \in Seq(Value) /\ block.nullifiers[p] \in Seq(Value)
        BY <1>1, BlockType DEF State
    <2>3. InsertionProofs(list, values) = InsertionProofs(s.nullifiers[p], block.nullifiers[p])
        BY <1>2, <1>3, <2>1
    <2>4. values = block.nullifiers[p] /\ (values # <<>> => list = s.nullifiers[p])
        BY <2>2, <2>3, InsertionProofsFacts
    <2>5. CASE values = <<>>
        BY <2>1, <2>4, <2>5, EmptyRange
    <2>6. CASE values # <<>>
        BY <2>1, <2>4, <2>6
    <2> QED BY <2>5, <2>6
<1>10. PassesStaging(s, block, GenesisForward)
    BY <1>2, <1>3, <1>7, <1>9 DEF PassesStaging, Contiguous
<1>11. next.utxos = Added(Deleted(compact.utxos, spent), CreatedLeaves(s, block))
    <2>1. next.utxos = Modified(compact.utxos, Additions(block, bundle), spent, proof)
        BY DEF Advanced, spent, proof
    <2>2. Modified(compact.utxos, Additions(block, bundle), spent, proof)
            = Added(Deleted(compact.utxos, spent), Additions(block, bundle))
        BY <1>2, <1>4, <1>5, ModifiedIsDeletedAdded
    <2> QED BY <1>8, <2>1, <2>2
<1>12. WellBuilt(next.utxos) /\ Live(next.utxos) = after.utxos.live
    BY <1>2, <1>7, <1>11, GrownFacts
<1>13. after.nullifiers = [p \in Pool |-> s.nullifiers[p] \o block.nullifiers[p]]
       /\ after.tip = block.height
    <2>1. /\ after \in State /\ after.tip = block.height
          /\ \A p \in Pool : after.nullifiers[p] = s.nullifiers[p] \o block.nullifiers[p]
        BY <1>1, AppliedFacts
    <2> HIDE DEF after
    <2>2. after.nullifiers \in [Pool -> Seq(Value)]
        BY <2>1 DEF State
    <2>3. after.nullifiers = [p \in Pool |-> after.nullifiers[p]]
        BY <2>2
    <2> QED BY <2>1, <2>3
<1>14. next = [utxos |-> next.utxos, nullifiers |-> after.nullifiers, tip |-> after.tip]
    <2>1. next = [utxos |-> next.utxos,
                  nullifiers |-> [p \in Pool |-> s.nullifiers[p] \o block.nullifiers[p]],
                  tip |-> block.height]
        BY <1>2 DEF Advanced
    <2> HIDE DEF next, after
    <2> QED BY <1>13, <2>1
<1>15. Reflects(next, after)
    BY <1>12, <1>14 DEF Reflects
<1>16. compact.utxos = Forest(s) => next.utxos = Forest(after)
    BY <1>7, <1>11, AppliedIsSound
<1> QED BY <1>10, <1>15, <1>16

\* A node in step with a full node accepts that node's bundle of its next
\* block.
LEMMA HonestBundleIsAccepted ==
    ASSUME NEW s, Sound(s), NEW block \in BlockSummary, PassesStaging(s, block, GenesisForward)
    PROVE  Accepts(Commitment(s), block, Bundle(s, block))
<1> DEFINE compact == Commitment(s)
           bundle == Bundle(s, block)
           spent == SpentLeaves(s, block)
<1>1. s \in State /\ Matching(s) /\ WellBuilt(Forest(s)) /\ Live(Forest(s)) = s.utxos.live
    BY DEF Sound
<1>2. /\ compact.utxos = Forest(s) /\ compact.nullifiers = s.nullifiers /\ compact.tip = s.tip
    BY DEF Commitment
<1>3. /\ bundle.height = block.height /\ bundle.spent = spent
      /\ bundle.utxo_proof = Proof(Forest(s), spent)
      /\ \A p \in Pool :
             bundle.insertions[p] = InsertionProofs(s.nullifiers[p], block.nullifiers[p])
    BY DEF Bundle
<1> HIDE DEF compact, bundle, spent
<1>4. compact.tip # NoTip => block.height = compact.tip + 1
    BY <1>2 DEF PassesStaging, Contiguous
<1>5. SpendsClaimed(block, bundle)
    BY <1>1, <1>3, SpentIsClaimed DEF PassesStaging, spent
<1>6. Proves(compact.utxos, bundle.utxo_proof, bundle.spent)
    <2>1. Range(spent) \subseteq s.utxos.live
        <3> SUFFICES ASSUME NEW leaf \in Range(spent) PROVE leaf \in s.utxos.live
            OBVIOUS
        <3>1. PICK o \in DOMAIN s.utxo_index : leaf = s.utxo_index[o]
            BY <1>1, SpentLeavesFacts DEF spent
        <3> QED BY <1>1, <3>1 DEF Matching
    <2>2. Live(Forest(s)) = UNION {DOMAIN root : root \in Range(Forest(s).roots)}
        BY <1>1, WellBuiltTypes
    <2>3. ASSUME NEW leaf \in Range(spent)
          PROVE  \E root \in Proof(Forest(s), spent) : leaf \in DOMAIN root
        <3>1. PICK root \in Range(Forest(s).roots) : leaf \in DOMAIN root
            BY <1>1, <2>1, <2>2
        <3> QED BY <3>1 DEF Proof
    <2>4. Proof(Forest(s), spent) \subseteq Range(Forest(s).roots)
        BY DEF Proof
    <2> QED BY <1>2, <1>3, <2>3, <2>4 DEF Proves
<1>7. InsertionsVerify(compact, block, bundle)
    BY <1>2, <1>3 DEF InsertionsVerify
<1> QED BY <1>3, <1>4, <1>5, <1>6, <1>7 DEF Accepts, compact, bundle

----------------------------------------------------------------------------
(* The inductive invariant.                                                *)

Created(blocks)     == UNION {Range(blocks[i].transparent_creates) : i \in 1 .. Len(blocks)}
Spent(blocks)       == UNION {Range(blocks[i].transparent_spends) : i \in 1 .. Len(blocks)}
Revealed(blocks, p) == UNION {Range(blocks[i].nullifiers[p]) : i \in 1 .. Len(blocks)}

\* s is what the blocks leave: the outputs they leave unspent are indexed, the
\* values they revealed are in the trees.
Leaves(blocks, s) ==
    /\ Sound(s)
    /\ DOMAIN s.utxo_index = Created(blocks) \ Spent(blocks)
    /\ \A p \in Pool : Range(s.nullifiers[p]) = Revealed(blocks, p)
    /\ s.tip = IF blocks = <<>> THEN NoTip ELSE blocks[Len(blocks)].height

Prefix(blocks, n) == SubSeq(blocks, 1, n)

\* A chain of blocks, each of which creates new outputs.
Path(blocks) ==
    /\ blocks \in Seq(Block)
    /\ \A n \in 0 .. Len(blocks) : Leaves(Prefix(blocks, n), Replayed(Prefix(blocks, n)))
    /\ \A n \in 1 .. Len(blocks) :
           CreatesFreshOutputs(blocks[n], Range(Prefix(blocks, n - 1)))

\* A compact state is that of a chain of blocks, up to the emptied trees it
\* lost.
Holds(lost, compact, blocks) ==
    /\ Reflects(compact, Replayed(blocks))
    /\ ~lost => compact.utxos = Forest(Replayed(blocks))

NodeInv ==
    /\ Path(accepted) /\ truncated \in BOOLEAN
    /\ Holds(truncated, csn, accepted)
    /\ \E S : kept \in Seq(S)
    /\ Len(kept) <= Len(accepted)
    /\ \A i \in 1 .. Len(kept) :
           Holds(truncated, kept[i], Prefix(accepted, Len(accepted) - Len(kept) + i))

ServedBlocks == [i \in 1 .. Len(served) |-> served[i].block]

ServedInv ==
    /\ served \in Seq([block : Block, state : State])
    /\ Path(ServedBlocks)
    /\ \A i \in 0 .. Len(served) : StateAfter(i) = Replayed(Prefix(ServedBlocks, i))
    /\ \A i \in 1 .. Len(served) :
           PassesStaging(StateAfter(i - 1), served[i].block, GenesisForward)
    /\ state = StateAfter(Len(served))

BundlesInv ==
    /\ DOMAIN bundles \subseteq Nat /\ IsFiniteSet(DOMAIN bundles)
    /\ BundlesAreTheNewest

CompactInv ==
    /\ NodeInv /\ ServedInv /\ BundlesInv
    /\ fetched = None \/ Honest(fetched)

\* What the first n elements of a sequence are.
LEMMA PrefixFacts ==
    ASSUME NEW S, NEW s \in Seq(S), NEW n \in 0 .. Len(s)
    PROVE  /\ Prefix(s, n) \in Seq(S) /\ Len(Prefix(s, n)) = n
           /\ \A i \in 1 .. n : Prefix(s, n)[i] = s[i]
           /\ Prefix(s, Len(s)) = s
<1>1. Prefix(s, n) \in Seq(S) /\ Len(Prefix(s, n)) = n /\ \A i \in 1 .. n : Prefix(s, n)[i] = s[i]
    BY DEF Prefix
<1>2. Prefix(s, Len(s)) = s
    BY SubSeqFull DEF Prefix
<1> QED BY <1>1, <1>2

\* Lists that agree up to n have the same prefixes up to n.
LEMMA PrefixAgree ==
    ASSUME NEW S, NEW s \in Seq(S), NEW t \in Seq(S), NEW m \in 0 .. Len(s), m <= Len(t),
           \A i \in 1 .. m : s[i] = t[i], NEW n \in 0 .. m
    PROVE  Prefix(s, n) = Prefix(t, n)
<1>1. Len(s) \in Nat /\ Len(t) \in Nat
    OBVIOUS
<1>2. n \in 0 .. Len(s) /\ n \in 0 .. Len(t) /\ \A i \in 1 .. n : i \in 1 .. m
    BY <1>1
<1>3. /\ Prefix(s, n) \in Seq(S) /\ Len(Prefix(s, n)) = n
      /\ \A i \in 1 .. n : Prefix(s, n)[i] = s[i]
    BY <1>2, PrefixFacts
<1>4. /\ Prefix(t, n) \in Seq(S) /\ Len(Prefix(t, n)) = n
      /\ \A i \in 1 .. n : Prefix(t, n)[i] = t[i]
    BY <1>2, PrefixFacts
<1>5. \A i \in 1 .. n : Prefix(s, n)[i] = Prefix(t, n)[i]
    BY <1>2, <1>3, <1>4
<1> QED BY <1>3, <1>4, <1>5, SeqEqual

\* A longer chain has created, spent and revealed what its last block did too.
LEMMA AppendedBlock ==
    ASSUME NEW blocks \in Seq(Block), NEW block \in Block
    PROVE  LET longer == Append(blocks, block)
           IN  /\ Created(longer) = Created(blocks) \cup Range(block.transparent_creates)
               /\ Spent(longer) = Spent(blocks) \cup Range(block.transparent_spends)
               /\ \A p : Revealed(longer, p) = Revealed(blocks, p) \cup Range(block.nullifiers[p])
<1> DEFINE longer == Append(blocks, block)
           n == Len(blocks)
<1>1. /\ n \in Nat /\ Len(longer) = n + 1 /\ longer[n + 1] = block
      /\ \A i \in 1 .. n : longer[i] = blocks[i]
    BY AppendProperties
<1> HIDE DEF longer, n
<1>2. 1 .. n + 1 = (1 .. n) \cup {n + 1}
    BY <1>1
<1>3. Created(longer) = Created(blocks) \cup Range(block.transparent_creates)
    BY <1>1, <1>2 DEF Created, n
<1>4. Spent(longer) = Spent(blocks) \cup Range(block.transparent_spends)
    BY <1>1, <1>2 DEF Spent, n
<1>5. ASSUME NEW p PROVE Revealed(longer, p) = Revealed(blocks, p) \cup Range(block.nullifiers[p])
    BY <1>1, <1>2 DEF Revealed, n
<1> QED BY <1>3, <1>4, <1>5 DEF longer

\* A block whose outputs are new to the chain creates none that are indexed.
LEMMA FreshToIndex ==
    ASSUME NEW blocks \in Seq(Block), NEW s, Leaves(blocks, s), NEW block \in Block,
           CreatesFreshOutputs(block, Range(blocks))
    PROVE  /\ block \in BlockSummary /\ NoRepeat(block.transparent_creates)
           /\ Range(block.transparent_creates) \cap Created(blocks) = {}
           /\ Range(block.transparent_creates) \cap Spent(blocks) = {}
           /\ Range(block.transparent_creates) \cap DOMAIN s.utxo_index = {}
<1>1. block \in BlockSummary /\ NoRepeat(block.transparent_creates)
    BY BlockAssumption DEF CreatesFreshOutputs
<1>2. ASSUME NEW i \in 1 .. Len(blocks)
      PROVE  Range(block.transparent_creates)
                 \cap (Range(blocks[i].transparent_creates)
                           \cup Range(blocks[i].transparent_spends)) = {}
    <2>1. blocks[i] \in Range(blocks)
        BY RangeEquality
    <2> QED BY <2>1 DEF CreatesFreshOutputs
<1>3. Range(block.transparent_creates) \cap Created(blocks) = {}
      /\ Range(block.transparent_creates) \cap Spent(blocks) = {}
    BY <1>2 DEF Created, Spent
<1>4. DOMAIN s.utxo_index \subseteq Created(blocks)
    BY DEF Leaves
<1> QED BY <1>1, <1>3, <1>4

\* One more block, on the chain and on the state.
LEMMA LeavesExtends ==
    ASSUME NEW blocks \in Seq(Block), NEW s, Leaves(blocks, s), NEW block \in Block,
           CreatesFreshOutputs(block, Range(blocks))
    PROVE  Leaves(Append(blocks, block), Applied(s, block))
<1> DEFINE longer == Append(blocks, block)
           next == Applied(s, block)
           spends == Range(block.transparent_spends)
           creates == Range(block.transparent_creates)
<1>1. /\ block \in BlockSummary /\ NoRepeat(block.transparent_creates)
      /\ creates \cap Created(blocks) = {} /\ creates \cap Spent(blocks) = {}
      /\ creates \cap DOMAIN s.utxo_index = {}
    BY FreshToIndex
<1>2. Sound(s) /\ s \in State /\ Matching(s) /\ DOMAIN s.utxo_index = Created(blocks) \ Spent(blocks)
    BY DEF Leaves, Sound
<1>3. Sound(next)
    BY <1>1, <1>2, AppliedIsSound
<1>4. /\ next.tip = block.height
      /\ next.utxo_index = WithTransparent(s, Delta(s, block)).utxo_index
      /\ \A p \in Pool : next.nullifiers[p] = s.nullifiers[p] \o block.nullifiers[p]
    BY <1>1, <1>2, AppliedFacts
<1>5. DOMAIN next.utxo_index = UnspentAfter(s, block)
    <2>1. DOMAIN WithTransparent(s, Delta(s, block)).utxo_index = UnspentAfter(s, block)
        BY <1>1, <1>2, TransparentFacts
    <2> QED BY <1>4, <2>1
<1>6. /\ Created(longer) = Created(blocks) \cup creates /\ Spent(longer) = Spent(blocks) \cup spends
      /\ \A p : Revealed(longer, p) = Revealed(blocks, p) \cup Range(block.nullifiers[p])
    BY AppendedBlock
<1>7. longer # <<>> /\ longer[Len(longer)] = block
    BY AppendProperties
<1> HIDE DEF longer, next
<1>8. DOMAIN next.utxo_index = Created(longer) \ Spent(longer)
    BY <1>1, <1>2, <1>5, <1>6 DEF UnspentAfter, Cancelled
<1>9. ASSUME NEW p \in Pool PROVE Range(next.nullifiers[p]) = Revealed(longer, p)
    <2>1. s.nullifiers[p] \in Seq(Value) /\ block.nullifiers[p] \in Seq(Value)
        BY <1>1, <1>2, BlockType DEF State
    <2>2. Range(s.nullifiers[p] \o block.nullifiers[p])
            = Range(s.nullifiers[p]) \cup Range(block.nullifiers[p])
        BY <2>1, RangeConcatenation
    <2>3. Range(s.nullifiers[p]) = Revealed(blocks, p)
        BY DEF Leaves
    <2> QED BY <1>4, <1>6, <2>2, <2>3
<1> QED BY <1>3, <1>4, <1>7, <1>8, <1>9 DEF Leaves, longer, next

\* No blocks are a chain, and leave a new state.
LEMMA EmptyPath == Path(<<>>) /\ Replayed(<<>>) = NewState /\ Leaves(<<>>, NewState)
<1>1. <<>> \in Seq(Block) /\ Len(<<>>) = 0 /\ Prefix(<<>>, 0) = <<>>
    BY EmptySeq, SubSeqEmpty DEF Prefix
<1>2. Replayed(<<>>) = NewState
    <2>1. <<>> \in Seq({1}) /\ 1 \in {1}
        OBVIOUS
    <2> QED BY <2>1, ReplayedUnfolds
<1>3. \A p : Created(<<>>) = {} /\ Spent(<<>>) = {} /\ Revealed(<<>>, p) = {}
    BY <1>1 DEF Created, Spent, Revealed
<1>4. Leaves(<<>>, NewState)
    BY <1>3, NewStateIsSound, NewStateType, EmptyRange DEF Leaves
<1> QED BY <1>1, <1>2, <1>4 DEF Path

\* What a whole chain leaves.
LEMMA PathEnds ==
    ASSUME NEW blocks, Path(blocks)
    PROVE  blocks \in Seq(Block) /\ Leaves(blocks, Replayed(blocks))
<1>1. blocks \in Seq(Block) /\ Len(blocks) \in 0 .. Len(blocks)
    BY DEF Path
<1>2. Prefix(blocks, Len(blocks)) = blocks
    BY <1>1, PrefixFacts
<1> QED BY <1>1, <1>2 DEF Path

\* One more block with new outputs makes a chain longer.
LEMMA PathExtends ==
    ASSUME NEW blocks, Path(blocks), NEW block \in Block,
           CreatesFreshOutputs(block, Range(blocks))
    PROVE  /\ Path(Append(blocks, block))
           /\ Replayed(Append(blocks, block)) = Applied(Replayed(blocks), block)
<1> DEFINE longer == Append(blocks, block)
           m == Len(blocks)
<1>1. blocks \in Seq(Block) /\ Leaves(blocks, Replayed(blocks))
    BY PathEnds
<1>2. Replayed(longer) = Applied(Replayed(blocks), block)
    BY <1>1, ReplayedUnfolds
<1>3. /\ m \in Nat /\ longer \in Seq(Block) /\ Len(longer) = m + 1 /\ longer[m + 1] = block
      /\ \A i \in 1 .. m : longer[i] = blocks[i]
    BY <1>1, AppendProperties
<1>4. Leaves(longer, Replayed(longer))
    BY <1>1, <1>2, LeavesExtends
<1> HIDE DEF longer
<1>5. Prefix(longer, m + 1) = longer
    <2>1. m + 1 \in 0 .. Len(longer)
        BY <1>3
    <2> QED BY <1>3, <2>1, PrefixFacts
<1>6. ASSUME NEW n \in 0 .. m PROVE Prefix(longer, n) = Prefix(blocks, n)
    <2>1. m \in 0 .. Len(longer) /\ m <= Len(blocks)
        BY <1>3
    <2> QED BY <1>1, <1>3, <2>1, PrefixAgree
<1>7. ASSUME NEW n \in 0 .. Len(longer)
      PROVE  Leaves(Prefix(longer, n), Replayed(Prefix(longer, n)))
    <2>1. CASE n = m + 1
        BY <1>4, <1>5, <2>1
    <2>2. CASE n # m + 1
        <3>1. n \in 0 .. m
            BY <1>3, <2>2
        <3> QED BY <1>6, <3>1 DEF Path
    <2> QED BY <2>1, <2>2
<1>8. ASSUME NEW n \in 1 .. Len(longer)
      PROVE  CreatesFreshOutputs(longer[n], Range(Prefix(longer, n - 1)))
    <2>1. n - 1 \in 0 .. m
        BY <1>3
    <2>2. CASE n = m + 1
        <3>1. Prefix(longer, n - 1) = blocks
            <4>1. n - 1 = m
                BY <1>3, <2>2
            <4> QED BY <1>1, <1>6, <2>1, <4>1, PrefixFacts
        <3> QED BY <1>3, <2>2, <3>1
    <2>3. CASE n # m + 1
        <3>1. n \in 1 .. m
            BY <1>3, <2>3
        <3> QED BY <1>3, <1>6, <2>1, <3>1 DEF Path
    <2> QED BY <2>2, <2>3
<1> QED BY <1>2, <1>3, <1>7, <1>8 DEF Path, longer

\* A chain begins with chains.
LEMMA PathPrefix ==
    ASSUME NEW blocks, Path(blocks), NEW m \in 0 .. Len(blocks)
    PROVE  Path(Prefix(blocks, m)) /\ Len(Prefix(blocks, m)) = m
           /\ \A n \in 0 .. m : Prefix(Prefix(blocks, m), n) = Prefix(blocks, n)
<1> DEFINE front == Prefix(blocks, m)
<1>1. blocks \in Seq(Block) /\ m \in Nat /\ m <= Len(blocks) /\ Len(blocks) \in Nat
    BY DEF Path
<1>2. front \in Seq(Block) /\ Len(front) = m /\ \A i \in 1 .. m : front[i] = blocks[i]
    BY <1>1, PrefixFacts
<1> HIDE DEF front
<1>3. ASSUME NEW n \in 0 .. m PROVE Prefix(front, n) = Prefix(blocks, n)
    <2>1. m \in 0 .. Len(front)
        BY <1>1, <1>2
    <2> QED BY <1>1, <1>2, <2>1, PrefixAgree
<1>4. ASSUME NEW n \in 0 .. Len(front) PROVE Leaves(Prefix(front, n), Replayed(Prefix(front, n)))
    <2>1. n \in 0 .. m /\ n \in 0 .. Len(blocks)
        BY <1>1, <1>2
    <2> QED BY <1>3, <2>1 DEF Path
<1>5. ASSUME NEW n \in 1 .. Len(front)
      PROVE  CreatesFreshOutputs(front[n], Range(Prefix(front, n - 1)))
    <2>1. n \in 1 .. Len(blocks) /\ n \in 1 .. m /\ n - 1 \in 0 .. m
        BY <1>1, <1>2
    <2> QED BY <1>2, <1>3, <2>1 DEF Path
<1>6. Path(front)
    BY <1>2, <1>4, <1>5 DEF Path
<1> QED BY <1>2, <1>3, <1>6 DEF front

\* Neither side has a block yet.
LEMMA InitHasInvariant == Init => CompactInv
<1> SUFFICES ASSUME Init PROVE CompactInv
    OBVIOUS
<1>1. /\ state = NewState /\ bundles = [h \in {} |-> None] /\ served = <<>>
      /\ csn = NewCompactState /\ kept = <<>> /\ accepted = <<>> /\ truncated = FALSE
      /\ fetched = None
    BY DEF Init
<1>2. Len(<<>>) = 0 /\ <<>> \in Seq({1}) /\ <<>> \in Seq([block : Block, state : State])
    BY EmptySeq
<1>3. Holds(truncated, csn, accepted)
    <2>1. WellBuilt(NewForest) /\ Live(NewForest) = NewState.utxos.live /\ Forest(NewState) = NewForest
        BY NewStateIsSound DEF Sound
    <2>2. NewCompactState = [utxos |-> NewForest, nullifiers |-> NewState.nullifiers,
                             tip |-> NewState.tip]
        BY DEF NewCompactState, NewState
    <2>3. NewCompactState.utxos = NewForest
        BY DEF NewCompactState
    <2> QED BY <1>1, <2>1, <2>2, <2>3, EmptyPath DEF Holds, Reflects
<1>4. NodeInv
    <2>1. kept \in Seq({1}) /\ Len(kept) = 0 /\ Len(accepted) = 0 /\ truncated \in BOOLEAN
        BY <1>1, <1>2
    <2>2. Path(accepted)
        BY <1>1, EmptyPath
    <2> QED BY <1>3, <2>1, <2>2 DEF NodeInv
<1>5. ServedInv
    <2>1. ServedBlocks = <<>>
        BY <1>1, <1>2 DEF ServedBlocks
    <2>2. StateAfter(0) = NewState
        BY DEF StateAfter
    <2>3. Prefix(<<>>, 0) = <<>>
        BY SubSeqEmpty DEF Prefix
    <2>4. \A i \in 0 .. Len(served) : StateAfter(i) = Replayed(Prefix(ServedBlocks, i))
        BY <1>1, <1>2, <2>1, <2>2, <2>3, EmptyPath
    <2> QED BY <1>1, <1>2, <2>1, <2>2, <2>4, EmptyPath DEF ServedInv
<1>6. BundlesInv
    <2>1. DOMAIN bundles = {}
        BY <1>1
    <2>2. IsFiniteSet({}) /\ Cardinality({}) = 0
        BY FS_EmptySet
    <2> QED BY <2>1, <2>2, KeepAssumption DEF BundlesInv, BundlesAreTheNewest
<1> QED BY <1>1, <1>4, <1>5, <1>6 DEF CompactInv

\* A block is accepted: what the node held of the chain it holds of the longer.
LEMMA ApplyBundleKeepsNode ==
    ASSUME NodeInv, Honest(fetched), NEW block \in Block, ApplyBundle(block)
    PROVE  NodeInv' /\ PassesStaging(Replayed(accepted), block, GenesisForward)
<1> DEFINE s == Replayed(accepted)
           m == Len(accepted)
           k == Len(kept)
<1>1. /\ CreatesFreshOutputs(block, Range(accepted)) /\ Accepts(csn, block, fetched)
      /\ csn' = Advanced(csn, block, fetched) /\ kept' = Append(kept, csn')
      /\ accepted' = Append(accepted, block) /\ truncated' = truncated
    BY DEF ApplyBundle
<1>2. accepted \in Seq(Block) /\ Leaves(accepted, s)
    BY PathEnds DEF NodeInv
<1>3. Sound(s)
    BY <1>2 DEF Leaves
<1>4. /\ block \in BlockSummary /\ NoRepeat(block.transparent_creates)
      /\ Range(block.transparent_creates) \cap DOMAIN s.utxo_index = {}
    BY <1>1, <1>2, FreshToIndex
<1>5. Reflects(csn, s) /\ (~truncated => csn.utxos = Forest(s))
    BY DEF NodeInv, Holds
<1>6. Path(accepted') /\ Replayed(accepted') = Applied(s, block)
    BY <1>1, PathExtends DEF NodeInv
<1> HIDE DEF s
<1>7. /\ PassesStaging(s, block, GenesisForward)
      /\ Reflects(csn', Applied(s, block))
      /\ csn.utxos = Forest(s) => csn'.utxos = Forest(Applied(s, block))
    BY <1>1, <1>3, <1>4, <1>5, AcceptedFacts
<1>8. Holds(truncated', csn', accepted')
    BY <1>1, <1>5, <1>6, <1>7 DEF Holds
<1>9. PICK S : kept \in Seq(S)
    BY DEF NodeInv
<1>10. /\ k \in Nat /\ m \in Nat /\ k <= m
       /\ kept' \in Seq(S \cup {csn'}) /\ Len(kept') = k + 1 /\ kept'[k + 1] = csn'
       /\ \A i \in 1 .. k : kept'[i] = kept[i]
       /\ accepted' \in Seq(Block) /\ Len(accepted') = m + 1
       /\ \A i \in 1 .. m : accepted'[i] = accepted[i]
    <2>1. kept \in Seq(S \cup {csn'}) /\ csn' \in S \cup {csn'}
        BY <1>9, SeqMonotonic
    <2> QED BY <1>1, <1>2, <2>1, AppendProperties DEF NodeInv
<1>11. ASSUME NEW i \in 1 .. k + 1
       PROVE  Holds(truncated', kept'[i], Prefix(accepted', (m + 1) - (k + 1) + i))
    <2>1. CASE i = k + 1
        <3>1. (m + 1) - (k + 1) + i = Len(accepted') /\ Len(accepted') \in 0 .. Len(accepted')
            BY <1>10, <2>1
        <3>2. Prefix(accepted', (m + 1) - (k + 1) + i) = accepted'
            BY <1>10, <3>1, PrefixFacts
        <3> QED BY <1>8, <1>10, <2>1, <3>2
    <2>2. CASE i # k + 1
        <3>1. i \in 1 .. k /\ (m + 1) - (k + 1) + i = m - k + i /\ m - k + i \in 0 .. m
            BY <1>10, <2>2
        <3>2. Prefix(accepted', m - k + i) = Prefix(accepted, m - k + i)
            <4> DEFINE j == m - k + i
            <4>1. m \in 0 .. Len(accepted') /\ m <= Len(accepted) /\ j \in 0 .. m
                BY <1>10, <3>1
            <4> HIDE DEF j, m
            <4>2. Prefix(accepted', j) = Prefix(accepted, j)
                BY <1>2, <1>10, <4>1, PrefixAgree, ZenonT(60)
            <4> QED BY <4>2 DEF j
        <3>3. Holds(truncated, kept[i], Prefix(accepted, m - k + i))
            BY <3>1 DEF NodeInv
        <3> QED BY <1>1, <1>10, <3>1, <3>2, <3>3 DEF Holds
    <2> QED BY <2>1, <2>2
<1>12. NodeInv'
    <2>1. truncated' \in BOOLEAN /\ k + 1 <= m + 1
        BY <1>1, <1>10 DEF NodeInv
    <2> HIDE DEF k, m
    <2> QED BY <1>6, <1>8, <1>10, <1>11, <2>1 DEF NodeInv
<1> QED BY <1>7, <1>12 DEF s

\* Going back, it holds what it held then.
LEMMA RollbackKeepsNode ==
    ASSUME NodeInv, NEW n \in DOMAIN kept, Rollback(n)
    PROVE  /\ NodeInv'
           /\ \E length \in 1 .. Len(accepted) - 1 : accepted' = SubSeq(accepted, 1, length)
<1> DEFINE m == Len(accepted)
           k == Len(kept)
           l == m - (k - n)
<1>1. PICK S : kept \in Seq(S)
    BY DEF NodeInv
<1>2. accepted \in Seq(Block) /\ Path(accepted) /\ k <= m
    BY PathEnds DEF NodeInv
<1>3. /\ k \in Nat /\ m \in Nat /\ n \in 1 .. k /\ n < k /\ l \in 1 .. m - 1 /\ l \in 0 .. m
      /\ n \in 0 .. k
    <2>1. k \in Nat /\ m \in Nat /\ n \in 1 .. k
        BY <1>1, <1>2
    <2>2. n < k
        BY DEF Rollback
    <2> HIDE DEF k, m
    <2> QED BY <1>2, <2>1, <2>2
<1>4. /\ csn' = kept[n] /\ kept' = Prefix(kept, n) /\ accepted' = Prefix(accepted, l)
      /\ truncated' = truncated
    BY DEF Rollback, Prefix
<1>5. kept' \in Seq(S) /\ Len(kept') = n /\ \A i \in 1 .. n : kept'[i] = kept[i]
    BY <1>1, <1>3, <1>4, PrefixFacts
<1>6. Path(accepted') /\ Len(accepted') = l /\ \A i \in 0 .. l : Prefix(accepted', i) = Prefix(accepted, i)
    BY <1>2, <1>3, <1>4, PathPrefix
<1>7. ASSUME NEW i \in 1 .. n PROVE Holds(truncated', kept'[i], Prefix(accepted', l - n + i))
    <2>1. i \in 1 .. k /\ l - n + i = m - k + i /\ l - n + i \in 0 .. l
        BY <1>2, <1>3, SMTT(40)
    <2>2. Holds(truncated, kept[i], Prefix(accepted, m - k + i))
        BY <2>1 DEF NodeInv
    <2> HIDE DEF l, m, k
    <2> QED BY <1>4, <1>5, <1>6, <2>1, <2>2 DEF Holds
<1>8. Holds(truncated', csn', accepted')
    <2>1. Holds(truncated, kept[n], Prefix(accepted, m - k + n))
        BY <1>3 DEF NodeInv
    <2>2. m - k + n = l
        BY <1>3
    <2> HIDE DEF l, m, k
    <2> QED BY <1>4, <2>1, <2>2 DEF Holds
<1>9. NodeInv'
    <2>1. truncated' \in BOOLEAN /\ n <= l
        BY <1>2, <1>3, <1>4 DEF NodeInv
    <2> HIDE DEF l, m, k
    <2> QED BY <1>5, <1>6, <1>7, <1>8, <2>1 DEF NodeInv
<1>10. \E length \in 1 .. m - 1 : accepted' = SubSeq(accepted, 1, length)
    BY <1>3, <1>4 DEF Prefix
<1> QED BY <1>9, <1>10

\* What is read back has every leaf, and every tree but the emptied ones.
LEMMA ReloadKeepsNode ==
    ASSUME NodeInv, Reload
    PROVE  NodeInv'
<1> DEFINE s == Replayed(accepted)
<1>1. /\ kept # <<>> /\ csn' = Reloaded(csn) /\ kept' = <<csn'>>
      /\ truncated' = (truncated \/ csn' # csn) /\ accepted' = accepted
    BY DEF Reload
<1>2. Reflects(csn, s) /\ (~truncated => csn.utxos = Forest(s)) /\ truncated \in BOOLEAN
    BY DEF NodeInv, Holds
<1> HIDE DEF s
<1>3. Reflects(csn', s)
    <2> DEFINE shown == FromParts(Roots(csn.utxos), csn.utxos.leaves)
    <2>1. WellBuilt(shown) /\ Live(shown) = s.utxos.live
        BY <1>2, RootsFacts DEF Reflects
    <2> HIDE DEF shown
    <2>2. csn' = [csn EXCEPT !.utxos = shown]
        BY <1>1 DEF Reloaded, shown
    <2>3. csn = [utxos |-> csn.utxos, nullifiers |-> s.nullifiers, tip |-> s.tip]
        BY <1>2 DEF Reflects
    <2>4. csn' = [utxos |-> shown, nullifiers |-> s.nullifiers, tip |-> s.tip]
        <3>1. \A u, v, a, b : [[utxos |-> u, nullifiers |-> a, tip |-> b] EXCEPT !.utxos = v]
                                = [utxos |-> v, nullifiers |-> a, tip |-> b]
            OBVIOUS
        <3> QED BY <2>2, <2>3, <3>1
    <2>5. csn'.utxos = shown
        BY <2>4
    <2> QED BY <2>1, <2>4, <2>5 DEF Reflects
<1>4. Holds(truncated', csn', accepted')
    <2>1. ~truncated' => csn' = csn /\ ~truncated
        BY <1>1, <1>2
    <2> QED BY <1>1, <1>2, <1>3, <2>1 DEF Holds, s
<1>5. 1 <= Len(accepted) /\ accepted \in Seq(Block)
    <2>1. PICK S : kept \in Seq(S)
        BY DEF NodeInv
    <2>2. Len(kept) \in Nat /\ Len(kept) # 0
        BY <1>1, <2>1, EmptySeq
    <2> QED BY <2>2, PathEnds DEF NodeInv
<1>6. kept' \in Seq({csn'}) /\ Len(kept') = 1 /\ kept'[1] = csn'
    BY <1>1
<1>7. Prefix(accepted, Len(accepted) - 1 + 1) = accepted
    <2>1. Len(accepted) \in 0 .. Len(accepted) /\ Len(accepted) - 1 + 1 = Len(accepted)
        BY <1>5
    <2> QED BY <1>5, <2>1, PrefixFacts
<1>8. \A i \in 1 .. Len(kept') : Holds(truncated', kept'[i], Prefix(accepted', Len(accepted') - Len(kept') + i))
    BY <1>1, <1>4, <1>6, <1>7
<1>9. Path(accepted') /\ truncated' \in BOOLEAN
    BY <1>1, <1>2 DEF NodeInv
<1> QED BY <1>1, <1>4, <1>5, <1>6, <1>8, <1>9 DEF NodeInv

\* The bridge's blocks, without the states.
LEMMA ServedBlocksFacts ==
    ASSUME ServedInv
    PROVE  /\ ServedBlocks \in Seq(Block) /\ Len(ServedBlocks) = Len(served) /\ Len(served) \in Nat
           /\ \A i \in 1 .. Len(served) :
                  served[i].block \in Block /\ ServedBlocks[i] = served[i].block
           /\ \A i \in 0 .. Len(served) :
                  Leaves(Prefix(ServedBlocks, i), StateAfter(i)) /\ Sound(StateAfter(i))
<1>1. served \in Seq([block : Block, state : State]) /\ Path(ServedBlocks)
    BY DEF ServedInv
<1>2. Len(served) \in Nat /\ \A i \in 1 .. Len(served) : served[i].block \in Block
    <2>1. Len(served) \in Nat
        BY <1>1
    <2>2. ASSUME NEW i \in 1 .. Len(served) PROVE served[i].block \in Block
        <3>1. served[i] \in [block : Block, state : State]
            BY <1>1, ElementOfSeq
        <3> QED BY <3>1
    <2> QED BY <2>1, <2>2
<1>3. \A i \in 1 .. Len(served) : ServedBlocks[i] = served[i].block
    BY DEF ServedBlocks
<1>4. ServedBlocks \in Seq(Block) /\ Len(ServedBlocks) = Len(served)
    <2>1. ServedBlocks \in Seq(Block)
        BY <1>1 DEF Path
    <2>2. DOMAIN ServedBlocks = 1 .. Len(served)
        BY DEF ServedBlocks
    <2> QED BY <1>2, <2>1, <2>2, LenProperties
<1>5. ASSUME NEW i \in 0 .. Len(served)
      PROVE  Leaves(Prefix(ServedBlocks, i), StateAfter(i)) /\ Sound(StateAfter(i))
    <2>1. Leaves(Prefix(ServedBlocks, i), Replayed(Prefix(ServedBlocks, i)))
        BY <1>1, <1>4 DEF Path
    <2>2. StateAfter(i) = Replayed(Prefix(ServedBlocks, i))
        BY DEF ServedInv
    <2> QED BY <2>1, <2>2 DEF Leaves
<1> QED BY <1>2, <1>3, <1>4, <1>5

\* A bridge's bundles are honest.
LEMMA BundleOfIsHonest ==
    ASSUME ServedInv, NEW i \in 1 .. Len(served)
    PROVE  Honest(BundleOf(i))
<1>1. i - 1 \in 0 .. Len(served)
    BY ServedBlocksFacts
<1>2. Sound(StateAfter(i - 1)) /\ served[i].block \in BlockSummary
    BY <1>1, ServedBlocksFacts, BlockAssumption
<1>3. PassesStaging(StateAfter(i - 1), served[i].block, GenesisForward)
    BY DEF ServedInv
<1> QED BY <1>2, <1>3 DEF Honest, BundleOf

\* Outputs new to the bridge are new to its blocks.
LEMMA FreshOnBridge ==
    ASSUME ServedInv, NEW block, CreatesFreshOutputs(block, {served[i].block : i \in DOMAIN served})
    PROVE  CreatesFreshOutputs(block, Range(ServedBlocks))
<1>1. DOMAIN served = 1 .. Len(served)
    BY DEF ServedInv
<1>2. Range(ServedBlocks) = {served[i].block : i \in DOMAIN served}
    BY <1>1 DEF Range, ServedBlocks
<1> QED BY <1>2

\* The chain of the bridge grows.
LEMMA BridgeAppliesKeepsServed ==
    ASSUME ServedInv, NEW block \in Block, BridgeApplies(block)
    PROVE  /\ ServedInv' /\ Len(served') = Len(served) + 1
           /\ state'.tip = block.height /\ (state.tip # NoTip => block.height = state.tip + 1)
           /\ \A i \in 1 .. Len(served) : served'[i] = served[i]
           /\ \A i \in 0 .. Len(served) : StateAfter(i)' = StateAfter(i)
           /\ served'[Len(served) + 1].block = block
<1> DEFINE m == Len(served)
           next == Applied(state, block)
           new == [block |-> block, state |-> next]
<1>1. /\ CreatesFreshOutputs(block, {served[i].block : i \in DOMAIN served})
      /\ PassesStaging(state, block, GenesisForward)
      /\ state' = next /\ served' = Append(served, new)
    BY DEF BridgeApplies
<1>2. /\ m \in Nat /\ served \in Seq([block : Block, state : State])
      /\ state = StateAfter(m) /\ Path(ServedBlocks) /\ state = Replayed(Prefix(ServedBlocks, m))
    BY ServedBlocksFacts DEF ServedInv
<1>3. /\ ServedBlocks \in Seq(Block) /\ Len(ServedBlocks) = m
      /\ \A i \in 1 .. m : served[i].block \in Block /\ ServedBlocks[i] = served[i].block
    BY ServedBlocksFacts
<1>4. Prefix(ServedBlocks, m) = ServedBlocks
    <2>1. Len(ServedBlocks) \in 0 .. Len(ServedBlocks)
        BY <1>2, <1>3
    <2> QED BY <1>3, <2>1, PrefixFacts
<1>5. CreatesFreshOutputs(block, Range(ServedBlocks))
    BY <1>1, FreshOnBridge
<1>6. Path(Append(ServedBlocks, block)) /\ Replayed(Append(ServedBlocks, block)) = next
    BY <1>2, <1>4, <1>5, PathExtends
<1>7. next \in State /\ next.tip = block.height
    <2>1. Leaves(ServedBlocks, state)
        BY <1>2, <1>4, PathEnds
    <2>2. Leaves(Append(ServedBlocks, block), next)
        BY <1>3, <1>5, <2>1, LeavesExtends
    <2>3. Append(ServedBlocks, block) # <<>>
          /\ Append(ServedBlocks, block)[Len(Append(ServedBlocks, block))] = block
        BY <1>3, AppendProperties
    <2> QED BY <2>2, <2>3 DEF Leaves, Sound
<1> HIDE DEF next
<1>8. /\ served' \in Seq([block : Block, state : State]) /\ Len(served') = m + 1
      /\ \A i \in 1 .. m : served'[i] = served[i]
      /\ served'[m + 1].block = block /\ served'[m + 1].state = next
    <2>1. new \in [block : Block, state : State] /\ new.block = block /\ new.state = next
        BY <1>7
    <2> HIDE DEF new
    <2> QED BY <1>1, <1>2, <2>1, AppendProperties
<1>9. ServedBlocks' = Append(ServedBlocks, block)
    <2> DEFINE longer == Append(ServedBlocks, block)
    <2>1. /\ longer \in Seq(Block) /\ Len(longer) = m + 1 /\ longer[m + 1] = block
          /\ \A i \in 1 .. m : longer[i] = ServedBlocks[i]
        BY <1>3, AppendProperties
    <2> HIDE DEF longer
    <2>2. ServedBlocks' = [i \in 1 .. m + 1 |-> served'[i].block]
        BY <1>8 DEF ServedBlocks
    <2>3. \A i \in 1 .. m + 1 : longer[i] = served'[i].block
        BY <1>2, <1>3, <1>8, <2>1, SMTT(40)
    <2>4. longer = [i \in 1 .. m + 1 |-> longer[i]]
        BY <2>1
    <2> QED BY <2>2, <2>3, <2>4 DEF longer
<1>10. ASSUME NEW i \in 0 .. m PROVE StateAfter(i)' = StateAfter(i)
    <2>1. CASE i = 0
        BY <2>1 DEF StateAfter
    <2>2. CASE i # 0
        <3>1. i \in 1 .. m
            BY <1>2, <2>2
        <3>2. served'[i] = served[i]
            BY <1>8, <3>1
        <3> QED BY <2>2, <3>2 DEF StateAfter
    <2> QED BY <2>1, <2>2
<1>11. ASSUME NEW i \in Nat, i = m + 1 PROVE StateAfter(i)' = next
    <2>1. i # 0
        BY <1>2, <1>11
    <2> QED BY <1>8, <1>11, <2>1 DEF StateAfter
<1>12. ASSUME NEW i \in 0 .. m + 1 PROVE StateAfter(i)' = Replayed(Prefix(ServedBlocks', i))
    <2> DEFINE longer == Append(ServedBlocks, block)
    <2>1. /\ longer \in Seq(Block) /\ Len(longer) = m + 1
          /\ \A j \in 1 .. m : longer[j] = ServedBlocks[j]
        BY <1>3, AppendProperties
    <2> HIDE DEF longer
    <2>2. CASE i = m + 1
        <3>1. Prefix(longer, m + 1) = longer
            <4>1. m + 1 \in 0 .. Len(longer)
                BY <1>2, <2>1
            <4> QED BY <2>1, <4>1, PrefixFacts
        <3>2. Replayed(longer) = next
            BY <1>6 DEF longer
        <3>3. StateAfter(i)' = next
            BY <1>2, <1>11, <2>2
        <3>4. Prefix(ServedBlocks', i) = longer
            BY <1>9, <2>2, <3>1 DEF longer
        <3> QED BY <3>2, <3>3, <3>4
    <2>3. CASE i # m + 1
        <3>1. i \in 0 .. m /\ m \in 0 .. Len(longer) /\ m <= Len(ServedBlocks)
            BY <1>2, <1>3, <2>1, <2>3
        <3>2. Prefix(longer, i) = Prefix(ServedBlocks, i)
            BY <1>3, <2>1, <3>1, PrefixAgree
        <3>3. StateAfter(i) = Replayed(Prefix(ServedBlocks, i))
            BY <3>1 DEF ServedInv
        <3> QED BY <1>9, <1>10, <3>1, <3>2, <3>3 DEF longer
    <2> QED BY <2>2, <2>3
<1>13. ASSUME NEW i \in 1 .. m + 1
       PROVE  PassesStaging(StateAfter(i - 1)', served'[i].block, GenesisForward)
    <2>1. i - 1 \in 0 .. m
        BY <1>2
    <2>2. CASE i = m + 1
        <3>1. StateAfter(i - 1)' = state
            <4>1. i - 1 = m
                BY <1>2, <2>2
            <4> QED BY <1>2, <1>10, <2>1, <4>1
        <3> QED BY <1>1, <1>8, <2>2, <3>1
    <2>3. CASE i # m + 1
        <3>1. i \in 1 .. m
            BY <1>2, <2>3
        <3> QED BY <1>8, <1>10, <2>1, <3>1 DEF ServedInv
    <2> QED BY <2>2, <2>3
<1>14. ServedInv'
    <2>1. state' = StateAfter(Len(served))'
        <3>1. Len(served') # 0 /\ served'[Len(served')].state = next
            BY <1>2, <1>8
        <3> QED BY <1>1, <3>1 DEF StateAfter
    <2>2. Path(ServedBlocks')
        BY <1>6, <1>9
    <2>3. m + 1 = Len(served') /\ served' \in Seq([block : Block, state : State])
        BY <1>8
    <2> HIDE DEF m
    <2>4. \A i \in 0 .. Len(served') : StateAfter(i)' = Replayed(Prefix(ServedBlocks', i))
        BY <1>12, <2>3
    <2>5. \A i \in 1 .. Len(served') :
              PassesStaging(StateAfter(i - 1)', served'[i].block, GenesisForward)
        BY <1>13, <2>3
    <2> QED BY <2>1, <2>2, <2>3, <2>4, <2>5 DEF ServedInv
<1>15. state'.tip = block.height /\ (state.tip # NoTip => block.height = state.tip + 1)
    BY <1>1, <1>7 DEF PassesStaging, Contiguous
<1> QED BY <1>8, <1>10, <1>14, <1>15

\* What is retained of a set of heights is its newest part, of at most `keep`.
LEMMA NewestPart ==
    ASSUME NEW E \in SUBSET Nat, IsFiniteSet(E)
    PROVE  LET R == {h \in E : Cardinality({later \in E : later > h}) < keep}
           IN  /\ IsFiniteSet(R) /\ Cardinality(R) <= keep
               /\ \A h \in R : \A later \in E : later > h => later \in R
<1> DEFINE Above(h) == {later \in E : later > h}
           R == {h \in E : Cardinality(Above(h)) < keep}
<1>1. ASSUME NEW h \in E PROVE IsFiniteSet(Above(h)) /\ Cardinality(Above(h)) \in Nat
    BY FS_Subset, FS_CardinalityType
<1>2. IsFiniteSet(R)
    BY FS_Subset
<1>3. Cardinality(R) <= keep
    <2>1. CASE R = {}
        <3> HIDE DEF R
        <3> QED BY <2>1, FS_EmptySet, KeepAssumption
    <2>2. CASE R # {}
        <3>1. PICK r \in R : \A h \in R : r <= h
            <4>1. R \in SUBSET Nat
                OBVIOUS
            <4> HIDE DEF R
            <4> QED BY <2>2, <4>1, SmallestNat
        <3>2. R \ {r} \in SUBSET Above(r)
            <4> SUFFICES ASSUME NEW h \in R, h # r PROVE h \in Above(r)
                OBVIOUS
            <4>1. h \in E /\ h \in Nat /\ r \in Nat /\ r <= h
                BY <3>1
            <4> QED BY <4>1
        <3>3. Cardinality(Above(r)) < keep /\ r \in E /\ r \in R
            BY <3>1
        <3> HIDE DEF R, Above
        <3>4. Cardinality(R \ {r}) <= Cardinality(Above(r))
            BY <1>1, <3>2, <3>3, FS_Subset
        <3>5. Cardinality(R) \in Nat /\ Cardinality(R \ {r}) = Cardinality(R) - 1
            BY <1>2, <3>3, FS_RemoveElement, FS_CardinalityType
        <3>6. Cardinality(Above(r)) \in Nat
            BY <1>1, <3>3
        <3> QED BY <3>3, <3>4, <3>5, <3>6, KeepAssumption
    <2> QED BY <2>1, <2>2
<1>4. ASSUME NEW h \in R, NEW later \in E, later > h PROVE later \in R
    <2>1. h \in E /\ Cardinality(Above(h)) < keep
        OBVIOUS
    <2>2. Above(later) \in SUBSET Above(h)
        <3>1. \A x \in E : x > later => x > h
            BY <1>4, <2>1
        <3> QED BY <3>1
    <2> HIDE DEF Above
    <2>3. Cardinality(Above(later)) <= Cardinality(Above(h))
        BY <1>1, <2>1, <2>2, FS_Subset
    <2>4. Cardinality(Above(later)) < keep
        BY <1>1, <2>1, <2>3, KeepAssumption
    <2> QED BY <2>4 DEF Above
<1> QED BY <1>2, <1>3, <1>4

\* The new bundle is the newest, the others are as they were.
LEMMA BridgeAppliesKeepsBundles ==
    ASSUME ServedInv, BundlesInv, NEW block \in Block, BridgeApplies(block)
    PROVE  BundlesInv'
<1> DEFINE D == DOMAIN bundles
           H == block.height
           E == D \cup {H}
           R == {h \in E : Cardinality({later \in E : later > h}) < keep}
           new == Bundle(state, block)
<1>1. /\ bundles' = Retained(With(bundles, H, new))
      /\ Len(served) \in Nat /\ Len(served') = Len(served) + 1
      /\ state'.tip = H /\ (state.tip # NoTip => H = state.tip + 1)
      /\ \A i \in 1 .. Len(served) : served'[i] = served[i]
      /\ \A i \in 0 .. Len(served) : StateAfter(i)' = StateAfter(i)
      /\ served'[Len(served) + 1].block = block
      /\ served \in Seq([block : Block, state : State])
      /\ served' \in Seq([block : Block, state : State])
    BY BridgeAppliesKeepsServed, ServedBlocksFacts DEF BridgeApplies, ServedInv
<1>2. H \in Nat
    BY BlockAssumption DEF BlockSummary
<1>3. state.tip \in Nat \cup {NoTip} /\ state = StateAfter(Len(served))
    <2>1. state = StateAfter(Len(served)) /\ Len(served) \in 0 .. Len(served)
        BY <1>1 DEF ServedInv
    <2>2. state \in State
        BY <2>1, ServedBlocksFacts DEF Sound
    <2> QED BY <2>1, <2>2 DEF State
<1>4. D \in SUBSET Nat /\ IsFiniteSet(D)
    BY DEF BundlesInv
<1>5. \A h \in D : h <= state.tip /\ H = state.tip + 1 /\ state.tip \in Nat
    BY <1>1, <1>3, <1>4, SMTT(40) DEF BundlesInv, BundlesAreTheNewest, NoTip
<1>6. E \in SUBSET Nat /\ IsFiniteSet(E)
    BY <1>2, <1>4, FS_AddElement
<1>7. /\ IsFiniteSet(R) /\ Cardinality(R) <= keep /\ R \subseteq E
      /\ \A h \in R : \A later \in E : later > h => later \in R
    <2> HIDE DEF E
    <2> QED BY <1>6, NewestPart
<1>8. DOMAIN bundles' = R /\ \A h \in R : bundles'[h] = IF h = H THEN new ELSE bundles[h]
    <2>1. With(bundles, H, new) = [h \in E |-> IF h = H THEN new ELSE bundles[h]]
        BY DEF With
    <2> HIDE DEF E
    <2>2. DOMAIN With(bundles, H, new) = E
        BY <2>1
    <2>3. bundles' = [h \in R |-> With(bundles, H, new)[h]]
        BY <1>1, <2>2 DEF Retained, Restrict
    <2> HIDE DEF R, new
    <2>4. R \subseteq E
        BY <1>7
    <2> QED BY <2>1, <2>3, <2>4
<1> HIDE DEF R
<1>9. ASSUME NEW h \in R PROVE h <= state'.tip /\ (h < state'.tip => h + 1 \in R)
    <2>1. h \in E /\ h \in Nat
        BY <1>6, <1>7
    <2>2. CASE h = H
        BY <1>1, <1>2, <2>2
    <2>3. CASE h # H
        <3>1. h \in D /\ h <= state.tip /\ H = state.tip + 1 /\ state.tip \in Nat
            BY <1>5, <2>1, <2>3
        <3>2. h + 1 \in E
            <4>1. h < state.tip => h + 1 \in D
                BY <3>1 DEF BundlesInv, BundlesAreTheNewest
            <4>2. h = state.tip => h + 1 = H
                BY <3>1
            <4> QED BY <2>1, <3>1, <4>1, <4>2
        <3>3. h + 1 \in R
            BY <1>7, <2>1, <3>2
        <3> QED BY <1>1, <2>1, <3>1, <3>3
    <2> QED BY <2>2, <2>3
<1>10. ASSUME NEW h \in R
       PROVE  \E i \in DOMAIN served' : served'[i].block.height = h /\ bundles'[h] = BundleOf(i)'
    <2>1. DOMAIN served' = 1 .. Len(served) + 1
        BY <1>1
    <2>2. CASE h = H
        <3> DEFINE i == Len(served) + 1
        <3>1. PICK j \in DOMAIN served' : j = Len(served) + 1
            BY <1>1, <2>1
        <3>2. served'[j].block = block /\ StateAfter(j - 1)' = state
            <4>1. j - 1 = Len(served) /\ j - 1 \in 0 .. Len(served)
                BY <1>1, <3>1
            <4>2. StateAfter(j - 1)' = StateAfter(j - 1)
                BY <1>1, <4>1
            <4> QED BY <1>1, <1>3, <3>1, <4>1, <4>2
        <3>3. BundleOf(j)' = new
            BY <3>2 DEF BundleOf
        <3>4. bundles'[h] = new
            BY <1>8, <2>2
        <3> QED BY <2>2, <3>1, <3>2, <3>3, <3>4
    <2>3. CASE h # H
        <3>1. h \in D
            BY <1>7, <2>3
        <3>2. PICK j \in DOMAIN served : served[j].block.height = h /\ bundles[h] = BundleOf(j)
            BY <3>1 DEF BundlesInv, BundlesAreTheNewest
        <3>3. j \in 1 .. Len(served) /\ j - 1 \in 0 .. Len(served) /\ j \in DOMAIN served'
            BY <1>1, <2>1, <3>2
        <3>4. served'[j] = served[j] /\ StateAfter(j - 1)' = StateAfter(j - 1)
            BY <1>1, <3>3
        <3>5. BundleOf(j)' = BundleOf(j)
            BY <3>4 DEF BundleOf
        <3>6. bundles'[h] = bundles[h]
            BY <1>8, <2>3
        <3> QED BY <3>2, <3>3, <3>4, <3>5, <3>6
    <2> QED BY <2>2, <2>3
<1>11. DOMAIN bundles' \subseteq Nat /\ IsFiniteSet(DOMAIN bundles')
    BY <1>6, <1>7, <1>8
<1> QED BY <1>7, <1>8, <1>9, <1>10, <1>11 DEF BundlesInv, BundlesAreTheNewest

\* The bridge goes back, to a beginning of its chain.
LEMMA BridgeRestartsKeepsServed ==
    ASSUME ServedInv, NEW length \in 0 .. Len(served), BridgeRestarts(length)
    PROVE  ServedInv' /\ BundlesInv'
<1>1. /\ length < Len(served) /\ state' = StateAfter(length)
      /\ bundles' = [h \in {} |-> None] /\ served' = SubSeq(served, 1, length)
    BY DEF BridgeRestarts
<1>2. served \in Seq([block : Block, state : State]) /\ Path(ServedBlocks)
    BY DEF ServedInv
<1>3. /\ served' \in Seq([block : Block, state : State]) /\ Len(served') = length
      /\ \A i \in 1 .. length : served'[i] = served[i]
    BY <1>1, <1>2, PrefixFacts DEF Prefix
<1>4. /\ ServedBlocks \in Seq(Block) /\ Len(ServedBlocks) = Len(served) /\ Len(served) \in Nat
      /\ \A i \in 1 .. Len(served) : ServedBlocks[i] = served[i].block
    BY ServedBlocksFacts
<1>5. length \in 0 .. Len(ServedBlocks)
    BY <1>4
<1>6. /\ Prefix(ServedBlocks, length) \in Seq(Block)
      /\ Len(Prefix(ServedBlocks, length)) = length
      /\ \A i \in 1 .. length : Prefix(ServedBlocks, length)[i] = ServedBlocks[i]
    BY <1>4, <1>5, PrefixFacts
<1>7. ServedBlocks' = Prefix(ServedBlocks, length)
    <2> DEFINE front == Prefix(ServedBlocks, length)
    <2>1. ServedBlocks' = [i \in 1 .. length |-> served'[i].block]
        BY <1>3 DEF ServedBlocks
    <2>2. \A i \in 1 .. length : front[i] = served'[i].block
        BY <1>3, <1>4, <1>6
    <2> HIDE DEF front
    <2>3. front = [i \in 1 .. length |-> front[i]]
        BY <1>6 DEF front
    <2> QED BY <2>1, <2>2, <2>3 DEF front
<1>8. /\ Path(ServedBlocks')
      /\ \A i \in 0 .. length : Prefix(ServedBlocks', i) = Prefix(ServedBlocks, i)
    BY <1>2, <1>5, <1>7, PathPrefix
<1>9. ASSUME NEW i \in 0 .. length PROVE StateAfter(i)' = StateAfter(i)
    <2>1. CASE i = 0
        BY <2>1 DEF StateAfter
    <2>2. CASE i # 0
        <3>1. served'[i] = served[i]
            BY <1>3, <2>2
        <3> QED BY <2>2, <3>1 DEF StateAfter
    <2> QED BY <2>1, <2>2
<1>10. ASSUME NEW i \in 0 .. length PROVE StateAfter(i)' = Replayed(Prefix(ServedBlocks', i))
    <2>1. i \in 0 .. Len(served)
        BY <1>4
    <2>2. StateAfter(i) = Replayed(Prefix(ServedBlocks, i))
        BY <2>1 DEF ServedInv
    <2> QED BY <1>8, <1>9, <2>2
<1>11. ASSUME NEW i \in 1 .. length
       PROVE  PassesStaging(StateAfter(i - 1)', served'[i].block, GenesisForward)
    <2>1. i \in 1 .. Len(served) /\ i - 1 \in 0 .. length
        BY <1>4
    <2>2. PassesStaging(StateAfter(i - 1), served[i].block, GenesisForward)
        BY <2>1 DEF ServedInv
    <2> QED BY <1>3, <1>9, <2>1, <2>2
<1>12. ServedInv'
    <2>1. \A i \in 0 .. Len(served') : StateAfter(i)' = Replayed(Prefix(ServedBlocks', i))
        BY <1>3, <1>10
    <2>2. \A i \in 1 .. Len(served') :
              PassesStaging(StateAfter(i - 1)', served'[i].block, GenesisForward)
        BY <1>3, <1>11
    <2>3. state' = StateAfter(Len(served))'
        <3>1. state' = StateAfter(length)'
            BY <1>1, <1>9
        <3> QED BY <1>3, <3>1 DEF StateAfter
    <2> QED BY <1>3, <1>8, <2>1, <2>2, <2>3 DEF ServedInv
<1>13. BundlesInv'
    <2>1. DOMAIN bundles' = {}
        BY <1>1
    <2>2. IsFiniteSet({}) /\ Cardinality({}) = 0
        BY FS_EmptySet
    <2> QED BY <2>1, <2>2, KeepAssumption DEF BundlesInv, BundlesAreTheNewest
<1> QED BY <1>12, <1>13

\* What is fetched is a bundle of the bridge's chain.
LEMMA FetchedIsHonest ==
    ASSUME ServedInv, BundlesInv, NEW height \in DOMAIN bundles, Fetch(height)
    PROVE  Honest(fetched')
<1>1. fetched' = bundles[height]
    BY DEF Fetch
<1>2. PICK i \in DOMAIN served : bundles[height] = BundleOf(i)
    BY DEF BundlesInv, BundlesAreTheNewest
<1>3. i \in 1 .. Len(served)
    BY <1>2 DEF ServedInv
<1> QED BY <1>1, <1>2, <1>3, BundleOfIsHonest

\* The bridge does not reach into the node.
LEMMA NodeUnchanged ==
    ASSUME NodeInv, UNCHANGED node
    PROVE  NodeInv'
<1>1. csn' = csn /\ kept' = kept /\ accepted' = accepted /\ truncated' = truncated
    BY DEF node
<1> QED BY <1>1 DEF NodeInv

\* The node does not reach into the bridge.
LEMMA BridgeUnchanged ==
    ASSUME ServedInv, BundlesInv, UNCHANGED bridge
    PROVE  ServedInv' /\ BundlesInv'
<1>1. state' = state /\ bundles' = bundles /\ served' = served
    BY DEF bridge
<1>2. ServedBlocks' = ServedBlocks
    BY <1>1 DEF ServedBlocks
<1>3. ASSUME NEW i PROVE StateAfter(i)' = StateAfter(i) /\ BundleOf(i)' = BundleOf(i)
    BY <1>1 DEF StateAfter, BundleOf
<1>4. state' = StateAfter(Len(served))'
    BY <1>1 DEF ServedInv, StateAfter
<1>5. ServedInv'
    BY <1>1, <1>2, <1>3, <1>4 DEF ServedInv
<1>6. BundlesInv'
    BY <1>1, <1>3 DEF BundlesInv, BundlesAreTheNewest
<1> QED BY <1>5, <1>6

\* Every step keeps the invariant.
LEMMA NextKeepsInvariant == CompactInv /\ [Next]_vars => CompactInv'
<1> SUFFICES ASSUME CompactInv, [Next]_vars PROVE CompactInv'
    OBVIOUS
<1>1. /\ NodeInv /\ ServedInv /\ BundlesInv
      /\ fetched = None \/ Honest(fetched)
    BY DEF CompactInv
<1>2. ASSUME NEW block \in Block, BridgeApplies(block) PROVE CompactInv'
    <2>1. UNCHANGED node /\ fetched' = fetched
        BY <1>2 DEF BridgeApplies
    <2>2. NodeInv'
        BY <1>1, <2>1, NodeUnchanged
    <2>3. ServedInv' /\ BundlesInv'
        BY <1>1, <1>2, BridgeAppliesKeepsServed, BridgeAppliesKeepsBundles
    <2> QED BY <1>1, <2>1, <2>2, <2>3 DEF CompactInv
<1>3. ASSUME NEW length \in 0 .. Len(served), BridgeRestarts(length) PROVE CompactInv'
    <2>1. UNCHANGED node /\ fetched' = fetched
        BY <1>3 DEF BridgeRestarts
    <2>2. NodeInv'
        BY <1>1, <2>1, NodeUnchanged
    <2>3. ServedInv' /\ BundlesInv'
        BY <1>1, <1>3, BridgeRestartsKeepsServed
    <2> QED BY <1>1, <2>1, <2>2, <2>3 DEF CompactInv
<1>4. ASSUME NEW height \in DOMAIN bundles, Fetch(height) PROVE CompactInv'
    <2>1. UNCHANGED node /\ UNCHANGED bridge
        BY <1>4 DEF Fetch
    <2>2. Honest(fetched')
        BY <1>1, <1>4, FetchedIsHonest
    <2>3. NodeInv' /\ ServedInv' /\ BundlesInv'
        BY <1>1, <2>1, NodeUnchanged, BridgeUnchanged
    <2> QED BY <2>2, <2>3 DEF CompactInv
<1>5. ASSUME NEW block \in Block, ApplyBundle(block) PROVE CompactInv'
    <2>1. UNCHANGED bridge /\ fetched # None /\ fetched' = None
        BY <1>5 DEF ApplyBundle
    <2>2. NodeInv'
        BY <1>1, <1>5, <2>1, ApplyBundleKeepsNode
    <2>3. ServedInv' /\ BundlesInv'
        BY <1>1, <2>1, BridgeUnchanged
    <2> QED BY <2>1, <2>2, <2>3 DEF CompactInv
<1>6. CASE Discard
    <2>1. UNCHANGED node /\ UNCHANGED bridge /\ fetched' = None
        BY <1>6 DEF Discard
    <2>2. NodeInv' /\ ServedInv' /\ BundlesInv'
        BY <1>1, <2>1, NodeUnchanged, BridgeUnchanged
    <2> QED BY <2>1, <2>2 DEF CompactInv
<1>7. ASSUME NEW n \in DOMAIN kept, Rollback(n) PROVE CompactInv'
    <2>1. UNCHANGED bridge /\ fetched' = fetched
        BY <1>7 DEF Rollback
    <2>2. NodeInv'
        BY <1>1, <1>7, RollbackKeepsNode
    <2>3. ServedInv' /\ BundlesInv'
        BY <1>1, <2>1, BridgeUnchanged
    <2> QED BY <1>1, <2>1, <2>2, <2>3 DEF CompactInv
<1>8. CASE Reload
    <2>1. UNCHANGED bridge /\ fetched' = fetched
        BY <1>8 DEF Reload
    <2>2. NodeInv'
        BY <1>1, <1>8, ReloadKeepsNode
    <2>3. ServedInv' /\ BundlesInv'
        BY <1>1, <2>1, BridgeUnchanged
    <2> QED BY <1>1, <2>1, <2>2, <2>3 DEF CompactInv
<1>9. CASE UNCHANGED vars
    <2>1. UNCHANGED node /\ UNCHANGED bridge /\ fetched' = fetched
        BY <1>9 DEF vars
    <2>2. NodeInv' /\ ServedInv' /\ BundlesInv'
        BY <1>1, <2>1, NodeUnchanged, BridgeUnchanged
    <2> QED BY <1>1, <2>1, <2>2 DEF CompactInv
<1> QED BY <1>2, <1>3, <1>4, <1>5, <1>6, <1>7, <1>8, <1>9 DEF Next

\* The inductive invariant: the blocks accepted and the blocks served are
\* chains whose replays commit to what they leave, every state the node holds
\* or keeps shows one of those, and every bundle was made by a bridge.
THEOREM CompactInvariant == Spec => []CompactInv
BY InitHasInvariant, NextKeepsInvariant, PTL DEF Spec

----------------------------------------------------------------------------
(* What follows from it.                                                   *)

\* NodeMatchesColdReplay: what the compact node holds is what a cold replay of
\* exactly the blocks it accepted commits to, whatever bundles it was served.
THEOREM NodeAlwaysMatchesColdReplay == Spec => []NodeMatchesColdReplay
<1>1. ASSUME CompactInv PROVE NodeMatchesColdReplay
    <2> DEFINE s == Replayed(accepted)
    <2>1. Reflects(csn, s) /\ (~truncated => csn.utxos = Forest(s))
        BY <1>1 DEF CompactInv, NodeInv, Holds
    <2> HIDE DEF s
    <2>2. /\ csn = [utxos |-> csn.utxos, nullifiers |-> s.nullifiers, tip |-> s.tip]
          /\ WellBuilt(csn.utxos) /\ Live(csn.utxos) = s.utxos.live
        BY <2>1 DEF Reflects
    <2>3. csn.nullifiers = s.nullifiers /\ csn.tip = s.tip
        BY <2>2
    <2>4. UNION {DOMAIN csn.utxos.roots[i] : i \in DOMAIN csn.utxos.roots} = s.utxos.live
        <3>1. DOMAIN csn.utxos.roots = 1 .. Len(csn.utxos.roots)
            BY <2>2, WellBuiltTypes
        <3> QED BY <2>2, <3>1 DEF Live
    <2>5. ~truncated => csn = Commitment(s)
        BY <2>1, <2>2 DEF Commitment
    <2> QED BY <2>3, <2>4, <2>5 DEF NodeMatchesColdReplay, s
<1> QED BY <1>1, CompactInvariant, PTL

\* The state after a block of the bridge's chain.
LEMMA NextStateAfter ==
    ASSUME ServedInv, NEW i \in 1 .. Len(served)
    PROVE  /\ served[i].state = Applied(StateAfter(i - 1), served[i].block)
           /\ CreatesFreshOutputs(served[i].block, Range(Prefix(ServedBlocks, i - 1)))
<1> DEFINE m == Len(served)
           before == Prefix(ServedBlocks, i - 1)
           upto == Prefix(ServedBlocks, i)
           block == served[i].block
<1>1. /\ ServedBlocks \in Seq(Block) /\ Len(ServedBlocks) = m /\ m \in Nat
      /\ block \in Block /\ ServedBlocks[i] = block
    BY ServedBlocksFacts
<1>2. i - 1 \in 0 .. m /\ i \in 0 .. m /\ i - 1 \in Nat /\ i # 0
    BY <1>1
<1>3. /\ before \in Seq(Block) /\ Len(before) = i - 1
      /\ \A j \in 1 .. i - 1 : before[j] = ServedBlocks[j]
    BY <1>1, <1>2, PrefixFacts
<1>4. /\ upto \in Seq(Block) /\ Len(upto) = i
      /\ \A j \in 1 .. i : upto[j] = ServedBlocks[j]
    BY <1>1, <1>2, PrefixFacts
<1>5. CreatesFreshOutputs(block, Range(before))
    BY <1>1 DEF ServedInv, Path
<1>6. StateAfter(i - 1) = Replayed(before) /\ StateAfter(i) = Replayed(upto)
    BY <1>1, <1>2 DEF ServedInv
<1> HIDE DEF before, upto, block, m
<1>7. upto = Append(before, block)
    <2>1. /\ Append(before, block) \in Seq(Block) /\ Len(Append(before, block)) = i
          /\ Append(before, block)[i] = block
          /\ \A j \in 1 .. i - 1 : Append(before, block)[j] = before[j]
        BY <1>1, <1>2, <1>3, AppendProperties
    <2>2. \A j \in 1 .. i : upto[j] = Append(before, block)[j]
        BY <1>1, <1>2, <1>3, <1>4, <2>1
    <2> QED BY <1>4, <2>1, <2>2, SeqEqual
<1>8. Replayed(upto) = Applied(Replayed(before), block)
    BY <1>1, <1>3, <1>7, ReplayedUnfolds
<1>9. served[i].state = StateAfter(i)
    BY <1>2 DEF StateAfter
<1> QED BY <1>5, <1>6, <1>8, <1>9 DEF before, block

\* NodeFollowsBridge: a node in step with the bridge accepts the bundle of the
\* bridge's next block, and is in step with the bridge again.
THEOREM NodeAlwaysFollowsBridge == Spec => []NodeFollowsBridge
<1>1. ASSUME CompactInv, NEW i \in DOMAIN served, csn = Commitment(StateAfter(i - 1))
      PROVE  /\ Accepts(csn, served[i].block, BundleOf(i))
             /\ Advanced(csn, served[i].block, BundleOf(i)) = Commitment(served[i].state)
    <2> DEFINE s == StateAfter(i - 1)
               block == served[i].block
               bundle == BundleOf(i)
               next == Advanced(csn, block, bundle)
    <2>1. ServedInv /\ i \in 1 .. Len(served)
        BY <1>1 DEF CompactInv, ServedInv
    <2>2. i - 1 \in 0 .. Len(served)
        BY <2>1, ServedBlocksFacts
    <2>3. Sound(s) /\ Leaves(Prefix(ServedBlocks, i - 1), s) /\ block \in Block
        BY <2>1, <2>2, ServedBlocksFacts
    <2>4. PassesStaging(s, block, GenesisForward)
        BY <2>1 DEF ServedInv
    <2>5. served[i].state = Applied(s, block)
          /\ CreatesFreshOutputs(block, Range(Prefix(ServedBlocks, i - 1)))
        BY <2>1, NextStateAfter
    <2>6. Prefix(ServedBlocks, i - 1) \in Seq(Block)
        <3>1. ServedBlocks \in Seq(Block) /\ i - 1 \in 0 .. Len(ServedBlocks)
            BY <2>1, <2>2, ServedBlocksFacts
        <3> QED BY <3>1, PrefixFacts
    <2>7. Honest(bundle) /\ bundle = Bundle(s, block)
        BY <2>1, BundleOfIsHonest DEF BundleOf
    <2> HIDE DEF s, block, bundle
    <2>8. /\ block \in BlockSummary /\ NoRepeat(block.transparent_creates)
          /\ Range(block.transparent_creates) \cap DOMAIN s.utxo_index = {}
        BY <2>3, <2>5, <2>6, FreshToIndex
    <2>9. csn = Commitment(s)
        BY <1>1 DEF s
    <2>10. Accepts(csn, block, bundle)
        BY <2>3, <2>4, <2>7, <2>8, <2>9, HonestBundleIsAccepted
    <2>11. csn.utxos = Forest(s) /\ Reflects(csn, s)
        <3>1. csn.utxos = Forest(s) /\ csn.nullifiers = s.nullifiers /\ csn.tip = s.tip
            BY <2>9 DEF Commitment
        <3> QED BY <2>3, <2>9, <3>1 DEF Reflects, Sound, Commitment
    <2>12. Reflects(next, Applied(s, block)) /\ next.utxos = Forest(Applied(s, block))
        BY <2>3, <2>7, <2>8, <2>10, <2>11, AcceptedFacts
    <2>13. next = Commitment(Applied(s, block))
        BY <2>12 DEF Reflects, Commitment
    <2>14. Accepts(csn, block, bundle) /\ next = Commitment(served[i].state)
        BY <2>5, <2>10, <2>13
    <2> QED BY <2>14 DEF block, bundle
<1>2. CompactInv => NodeFollowsBridge
    BY <1>1 DEF NodeFollowsBridge
<1> QED BY <1>2, CompactInvariant, PTL

\* BundlesAreTheNewest: the bundles a bridge retains are those of its newest
\* blocks, without a hole, and at most `keep` of them.
THEOREM BundlesAreAlwaysTheNewest == Spec => []BundlesAreTheNewest
<1>1. CompactInv => BundlesAreTheNewest
    BY DEF CompactInv, BundlesInv
<1> QED BY <1>1, CompactInvariant, PTL

\* A block the node accepts is valid on the chain it has accepted.
LEMMA AcceptedIsValid ==
    ASSUME NodeInv, NEW block \in Block,
           PassesStaging(Replayed(accepted), block, GenesisForward)
    PROVE  Ledger!Valid(block)
<1> DEFINE s == Replayed(accepted)
           n == Len(accepted)
<1>1. accepted \in Seq(Block) /\ Leaves(accepted, s)
    BY PathEnds DEF NodeInv
<1>2. DOMAIN accepted = 1 .. n /\ n \in Nat
    BY <1>1
<1>3. PassesStaging(s, block, GenesisForward)
    OBVIOUS
<1> HIDE DEF s
<1>4. /\ Ledger!CreatedBy(accepted) = Created(accepted)
      /\ Ledger!SpentBy(accepted) = Spent(accepted)
      /\ \A p : Ledger!RevealedBy(accepted, p) = Revealed(accepted, p)
    BY <1>2 DEF Ledger!CreatedBy, Ledger!SpentBy, Ledger!RevealedBy, Created, Spent, Revealed,
                Range, Ledger!Range
<1>5. accepted # <<>> => block.height = accepted[Len(accepted)].height + 1
    <2> SUFFICES ASSUME accepted # <<>> PROVE block.height = accepted[n].height + 1
        OBVIOUS
    <2>1. n \in 1 .. n
        BY <1>1, <1>2, EmptySeq
    <2>2. accepted[n] \in BlockSummary /\ s.tip = accepted[n].height
        BY <1>1, <2>1, BlockAssumption, ElementOfSeq DEF Leaves
    <2>3. accepted[n].height \in Nat
        BY <2>2 DEF BlockSummary
    <2> QED BY <1>3, <2>2, <2>3 DEF PassesStaging, Contiguous, NoTip
<1>6. /\ IsInjective(block.transparent_spends)
      /\ Range(block.transparent_spends)
             \subseteq (Ledger!CreatedBy(accepted) \ Ledger!SpentBy(accepted))
                           \cup Range(block.transparent_creates)
    BY <1>1, <1>3, <1>4
       DEF PassesStaging, SpendsResolve, NoRepeat, Leaves, GenesisForward
<1>7. \A p \in Pool : /\ IsInjective(block.nullifiers[p])
                      /\ Range(block.nullifiers[p]) \cap Ledger!RevealedBy(accepted, p) = {}
    BY <1>1, <1>3, <1>4 DEF PassesStaging, NullifiersFresh, NoRepeat, Leaves
<1> QED BY <1>5, <1>6, <1>7, Zenon
        DEF Ledger!Valid, Range, Ledger!Range, IsInjective, Ledger!IsInjective

\* NodeImplementsLedger: a node with no outputs and no nullifiers of its own
\* accepts valid chains only, and gives up only its newest blocks.
THEOREM NodeImplementsTheLedger == Spec => NodeImplementsLedger
<1>1. Init => Ledger!Init
    BY DEF Init, Ledger!Init
<1>2. CompactInv /\ [Next]_vars => [Ledger!Next]_(Ledger!vars)
    <2> SUFFICES ASSUME CompactInv, [Next]_vars PROVE [Ledger!Next]_(Ledger!vars)
        OBVIOUS
    <2>1. NodeInv /\ (fetched = None \/ Honest(fetched))
        BY DEF CompactInv
    <2>2. ASSUME accepted' = accepted PROVE UNCHANGED Ledger!vars
        BY <2>2 DEF Ledger!vars
    <2>3. ASSUME NEW block \in Block, BridgeApplies(block) PROVE UNCHANGED Ledger!vars
        BY <2>2, <2>3 DEF BridgeApplies, node
    <2>4. ASSUME NEW length \in 0 .. Len(served), BridgeRestarts(length)
          PROVE  UNCHANGED Ledger!vars
        BY <2>2, <2>4 DEF BridgeRestarts, node
    <2>5. ASSUME NEW height \in DOMAIN bundles, Fetch(height) PROVE UNCHANGED Ledger!vars
        BY <2>2, <2>5 DEF Fetch, node
    <2>6. ASSUME NEW block \in Block, ApplyBundle(block) PROVE Ledger!Next
        <3>1. fetched # None /\ accepted' = Append(accepted, block)
            BY <2>6 DEF ApplyBundle
        <3>2. PassesStaging(Replayed(accepted), block, GenesisForward)
            BY <2>1, <2>6, <3>1, ApplyBundleKeepsNode
        <3>3. Ledger!Valid(block)
            BY <2>1, <3>2, AcceptedIsValid
        <3>4. Ledger!Extend(block)
            BY <3>1, <3>3 DEF Ledger!Extend
        <3> QED BY <3>4 DEF Ledger!Next
    <2>7. CASE Discard
        BY <2>2, <2>7 DEF Discard, node
    <2>8. ASSUME NEW n \in DOMAIN kept, Rollback(n) PROVE Ledger!Next
        <3>1. \E length \in 1 .. Len(accepted) - 1 : accepted' = SubSeq(accepted, 1, length)
            BY <2>1, <2>8, RollbackKeepsNode
        <3>2. Ledger!Reorganise
            BY <3>1 DEF Ledger!Reorganise
        <3> QED BY <3>2 DEF Ledger!Next
    <2>9. CASE Reload
        BY <2>2, <2>9 DEF Reload
    <2>10. CASE UNCHANGED vars
        BY <2>2, <2>10 DEF vars, node
    <2> QED BY <2>3, <2>4, <2>5, <2>6, <2>7, <2>8, <2>9, <2>10 DEF Next
<1> QED BY <1>1, <1>2, CompactInvariant, PTL DEF Spec, NodeImplementsLedger, Ledger!Spec
=============================================================================
