---------------------------- MODULE ChainProofs ----------------------------
(***************************************************************************)
(* Theorems about Chain, for every set of blocks, every journal setting,   *)
(* every order of pools and every capacity; and about Reorg, the fuzzer    *)
(* that drives it, for every configuration and every set of draws.         *)
(*                                                                         *)
(* The history holds the state after each block of the active chain, and   *)
(* the argument is that everything else the follower keeps is a function   *)
(* of it: a delta is the delta of one of its blocks, a snapshot the        *)
(* transparent half of one of its states, and a rollback walks the state   *)
(* from the last entry to an earlier one through states the history holds. *)
(*                                                                         *)
(* The fuzzer's own chain is the blocks of that history, up to what its    *)
(* fault does to one side: then the state holds more than the chain says,  *)
(* or the chain has a nullifier that the history has not.                  *)
(***************************************************************************)
EXTENDS Reorg, ChainStateProofs

----------------------------------------------------------------------------
(* The history.                                                            *)

HistoryEntry == [block : BlockSummary, state : State]

\* The state after the first i blocks of a history.
After(h, i) == IF i = 0 THEN NewState ELSE h[i].state

BlockAt(h, i) == h[i].block

CreatedUpTo(h, i) == UNION {Range(BlockAt(h, j).transparent_creates) : j \in 1 .. i}
SpentUpTo(h, i)   == UNION {Range(BlockAt(h, j).transparent_spends) : j \in 1 .. i}
RevealedUpTo(h, i, p) == UNION {Range(BlockAt(h, j).nullifiers[p]) : j \in 1 .. i}

\* The i-th entry is what apply_block makes of its block.
EntryApplied(h, i, opts) ==
    /\ PassesStaging(After(h, i - 1), BlockAt(h, i), opts)
    /\ ForestHolds(After(h, i - 1), SpentLeaves(After(h, i - 1), BlockAt(h, i)))
    /\ h[i].state = Applied(After(h, i - 1), BlockAt(h, i))
    /\ h[i].state.tip = BlockAt(h, i).height
    /\ BlockAt(h, i).height = BlockAt(h, 1).height + i - 1
    /\ \A p \in Pool : After(h, i).nullifiers[p]
                           = After(h, i - 1).nullifiers[p] \o BlockAt(h, i).nullifiers[p]

\* The state after i blocks holds what these blocks created and did not spend,
\* and the nullifiers they revealed.
StateIsSum(h, i) ==
    /\ Matching(After(h, i))
    /\ DOMAIN After(h, i).utxo_index = CreatedUpTo(h, i) \ SpentUpTo(h, i)
    /\ \A j \in 1 .. i : \A o \in Range(BlockAt(h, j).transparent_creates) :
           o \in DOMAIN After(h, i).utxo_index =>
               After(h, i).utxo_index[o] = [outpoint |-> o, height |-> BlockAt(h, j).height]
    /\ \A p \in Pool : Range(After(h, i).nullifiers[p]) = RevealedUpTo(h, i, p)

GoodHistory(h, opts) ==
    /\ h \in Seq(HistoryEntry)
    /\ \A i \in 1 .. Len(h) : EntryApplied(h, i, opts)
    /\ \A i \in 0 .. Len(h) : StateIsSum(h, i)

\* What a history is made of.
LEMMA HistoryType ==
    ASSUME NEW h \in Seq(HistoryEntry)
    PROVE  /\ Len(h) \in Nat /\ DOMAIN h = 1 .. Len(h)
           /\ \A i \in 1 .. Len(h) :
                  BlockAt(h, i) \in BlockSummary /\ h[i].state \in State
           /\ \A i \in 0 .. Len(h) : After(h, i) \in State
<1>1. Len(h) \in Nat /\ DOMAIN h = 1 .. Len(h) /\ \A i \in 1 .. Len(h) : h[i] \in HistoryEntry
    BY LenProperties
<1>2. \A i \in 1 .. Len(h) : h[i].block \in BlockSummary /\ h[i].state \in State
    BY <1>1 DEF HistoryEntry
<1>3. \A i \in 0 .. Len(h) : After(h, i) \in State
    BY <1>1, <1>2, NewStateType DEF After
<1> QED BY <1>1, <1>2, <1>3 DEF BlockAt

\* Nothing of what is said of the first i entries depends on the others.
LEMMA SamePrefix ==
    ASSUME NEW h, NEW g, NEW n \in Nat, \A i \in 1 .. n : g[i] = h[i]
    PROVE  /\ \A i \in 0 .. n : After(g, i) = After(h, i)
           /\ \A i \in 1 .. n : BlockAt(g, i) = BlockAt(h, i)
           /\ \A i \in 1 .. n : \A opts : EntryApplied(h, i, opts) => EntryApplied(g, i, opts)
           /\ \A i \in 0 .. n : StateIsSum(h, i) => StateIsSum(g, i)
<1>1. \A i \in 0 .. n : After(g, i) = After(h, i)
    BY DEF After
<1>2. \A i \in 1 .. n : BlockAt(g, i) = BlockAt(h, i)
    BY DEF BlockAt
<1>3. ASSUME NEW i \in 1 .. n, NEW opts, EntryApplied(h, i, opts)
      PROVE  EntryApplied(g, i, opts)
    <2>1. /\ i - 1 \in 0 .. n /\ i \in 0 .. n /\ 1 \in 1 .. n /\ g[i] = h[i]
        OBVIOUS
    <2>2. /\ After(g, i - 1) = After(h, i - 1) /\ After(g, i) = After(h, i)
          /\ BlockAt(g, i) = BlockAt(h, i) /\ BlockAt(g, 1) = BlockAt(h, 1)
        BY <1>1, <1>2, <2>1
    <2> QED BY <1>3, <2>1, <2>2 DEF EntryApplied
<1>4. ASSUME NEW i \in 0 .. n, StateIsSum(h, i)
      PROVE  StateIsSum(g, i)
    <2>1. \A j \in 1 .. i : BlockAt(g, j) = BlockAt(h, j)
        BY <1>2
    <2>2. /\ CreatedUpTo(g, i) = CreatedUpTo(h, i) /\ SpentUpTo(g, i) = SpentUpTo(h, i)
          /\ \A p : RevealedUpTo(g, i, p) = RevealedUpTo(h, i, p)
        BY <2>1 DEF CreatedUpTo, SpentUpTo, RevealedUpTo
    <2>3. After(g, i) = After(h, i)
        BY <1>1
    <2> QED BY <1>4, <2>1, <2>2, <2>3 DEF StateIsSum
<1> QED BY <1>1, <1>2, <1>3, <1>4

\* A reorganisation leaves a good history.
LEMMA GoodPrefix ==
    ASSUME NEW h, NEW opts, GoodHistory(h, opts), NEW n \in 0 .. Len(h)
    PROVE  /\ GoodHistory(SubSeq(h, 1, n), opts)
           /\ Len(SubSeq(h, 1, n)) = n
           /\ \A i \in 1 .. n : SubSeq(h, 1, n)[i] = h[i]
<1>1. h \in Seq(HistoryEntry) /\ Len(h) \in Nat /\ \A i \in 1 .. n : h[i] \in HistoryEntry
    BY LenProperties DEF GoodHistory
<1> DEFINE g == SubSeq(h, 1, n)
<1>2. /\ g \in Seq(HistoryEntry) /\ Len(g) = n
      /\ \A i \in 1 .. n : g[i] = h[i]
    BY <1>1, SubSeqProperties
<1> HIDE DEF g
<1>3. ASSUME NEW i \in 1 .. n PROVE EntryApplied(g, i, opts)
    <2>1. EntryApplied(h, i, opts)
        BY <1>1 DEF GoodHistory
    <2> QED BY <1>1, <1>2, <2>1, SamePrefix, SMTT(40)
<1>4. ASSUME NEW i \in 0 .. n PROVE StateIsSum(g, i)
    <2>1. StateIsSum(h, i)
        BY <1>1 DEF GoodHistory
    <2> QED BY <1>1, <1>2, <2>1, SamePrefix, SMTT(40)
<1>5. GoodHistory(g, opts)
    BY <1>2, <1>3, <1>4 DEF GoodHistory
<1> QED BY <1>2, <1>5 DEF g

\* What the blocks of a chain created and spent is known to a fresh block.
FreshFor(h, block) ==
    \A i \in DOMAIN h :
        Range(block.transparent_creates)
            \cap (Range(h[i].block.transparent_creates)
                    \cup Range(h[i].block.transparent_spends)) = {}

\* Outputs that are fresh were neither created nor spent on the chain.
LEMMA FreshOutputs ==
    ASSUME NEW h \in Seq(HistoryEntry), NEW block, FreshFor(h, block)
    PROVE  /\ Range(block.transparent_creates) \cap CreatedUpTo(h, Len(h)) = {}
           /\ Range(block.transparent_creates) \cap SpentUpTo(h, Len(h)) = {}
<1>1. DOMAIN h = 1 .. Len(h)
    BY LenProperties
<1>2. \A i \in 1 .. Len(h) :
          /\ Range(block.transparent_creates) \cap Range(BlockAt(h, i).transparent_creates) = {}
          /\ Range(block.transparent_creates) \cap Range(BlockAt(h, i).transparent_spends) = {}
    BY <1>1 DEF FreshFor, BlockAt
<1> QED BY <1>2 DEF CreatedUpTo, SpentUpTo

\* The sums after one more block.
LEMMA SumsGrow ==
    ASSUME NEW h, NEW i \in Nat \ {0}
    PROVE  /\ CreatedUpTo(h, i) = CreatedUpTo(h, i - 1) \cup Range(BlockAt(h, i).transparent_creates)
           /\ SpentUpTo(h, i) = SpentUpTo(h, i - 1) \cup Range(BlockAt(h, i).transparent_spends)
           /\ \A p : RevealedUpTo(h, i, p)
                          = RevealedUpTo(h, i - 1, p) \cup Range(BlockAt(h, i).nullifiers[p])
<1>1. 1 .. i = (1 .. i - 1) \cup {i}
    OBVIOUS
<1>2. CreatedUpTo(h, i) = CreatedUpTo(h, i - 1) \cup Range(BlockAt(h, i).transparent_creates)
    BY <1>1 DEF CreatedUpTo
<1>3. SpentUpTo(h, i) = SpentUpTo(h, i - 1) \cup Range(BlockAt(h, i).transparent_spends)
    BY <1>1 DEF SpentUpTo
<1>4. ASSUME NEW p
      PROVE  RevealedUpTo(h, i, p) = RevealedUpTo(h, i - 1, p) \cup Range(BlockAt(h, i).nullifiers[p])
    BY <1>1 DEF RevealedUpTo
<1> QED BY <1>2, <1>3, <1>4

\* A block applied on top of a good history makes it a longer good history.
LEMMA GoodAppend ==
    ASSUME NEW h, NEW opts, GoodHistory(h, opts), NEW block \in BlockSummary,
           PassesStaging(After(h, Len(h)), block, opts),
           ForestHolds(After(h, Len(h)), SpentLeaves(After(h, Len(h)), block)),
           FreshFor(h, block)
    PROVE  LET entry == [block |-> block, state |-> Applied(After(h, Len(h)), block)]
               longer == Append(h, entry)
           IN  /\ GoodHistory(longer, opts)
               /\ Len(longer) = Len(h) + 1
               /\ longer[Len(h) + 1] = entry
               /\ \A i \in 1 .. Len(h) : longer[i] = h[i]
<1> DEFINE n == Len(h)
           s == After(h, n)
           next == Applied(s, block)
           entry == [block |-> block, state |-> next]
           g == Append(h, entry)
           creates == Range(block.transparent_creates)
           spends == Range(block.transparent_spends)
<1>1. /\ h \in Seq(HistoryEntry) /\ n \in Nat
      /\ s \in State /\ block \in BlockSummary /\ StateIsSum(h, n)
    BY HistoryType DEF GoodHistory
<1>2. creates \cap CreatedUpTo(h, n) = {} /\ creates \cap SpentUpTo(h, n) = {}
    BY <1>1, FreshOutputs
<1>3. DOMAIN s.utxo_index = CreatedUpTo(h, n) \ SpentUpTo(h, n) /\ Matching(s)
    BY <1>1 DEF StateIsSum
<1>4. creates \cap DOMAIN s.utxo_index = {}
    BY <1>2, <1>3
<1> HIDE DEF s, creates, spends
<1>5. /\ next \in State /\ next.tip = block.height /\ Matching(next)
      /\ \A p \in Pool : next.nullifiers[p] = s.nullifiers[p] \o block.nullifiers[p]
      /\ DOMAIN next.utxo_index = UnspentAfter(s, block)
      /\ \A o \in DOMAIN s.utxo_index \ spends : next.utxo_index[o] = s.utxo_index[o]
      /\ \A o \in creates \ Cancelled(s, block) :
             next.utxo_index[o] = [outpoint |-> o, height |-> block.height]
    <2> DEFINE t == WithTransparent(s, Delta(s, block))
    <2>1. /\ next \in State /\ next.tip = block.height /\ Matching(next)
          /\ \A p \in Pool : next.nullifiers[p] = s.nullifiers[p] \o block.nullifiers[p]
          /\ next.utxo_index = t.utxo_index
        BY <1>1, <1>3, <1>4, AppliedFacts DEF creates
    <2>2. /\ DOMAIN t.utxo_index = UnspentAfter(s, block)
          /\ \A o \in DOMAIN s.utxo_index \ spends : t.utxo_index[o] = s.utxo_index[o]
          /\ \A o \in creates \ Cancelled(s, block) :
                 t.utxo_index[o] = [outpoint |-> o, height |-> block.height]
        BY <1>1, <1>3, <1>4, TransparentFacts DEF creates, spends
    <2> HIDE DEF next, t
    <2> QED BY <2>1, <2>2
<1>6. Cancelled(s, block) = spends \cap creates
    BY <1>4 DEF Cancelled, spends, creates
<1> HIDE DEF next
<1>7. entry \in HistoryEntry
    BY <1>5 DEF HistoryEntry
<1>8. /\ g \in Seq(HistoryEntry) /\ Len(g) = n + 1 /\ g[n + 1] = entry
      /\ \A i \in 1 .. n : g[i] = h[i]
    BY <1>1, <1>7, AppendProperties
<1> HIDE DEF g, n
<1>9. /\ After(g, n) = s /\ After(g, n + 1) = next
      /\ BlockAt(g, n + 1) = block /\ g[n + 1].state = next
      /\ n + 1 \in 1 .. n + 1 /\ (n + 1) - 1 = n
    <2>1. After(g, n) = s
        <3>1. \A i \in 0 .. n : After(g, i) = After(h, i)
            BY <1>1, <1>8, SamePrefix
        <3> QED BY <1>1, <3>1 DEF s
    <2> QED BY <1>1, <1>8, <2>1 DEF After, BlockAt
<1>10. block.height = BlockAt(g, 1).height + n
    <2>1. CASE n = 0
        BY <2>1, <1>1, <1>5, <1>9, BlockType
    <2>2. CASE n # 0
        <3>1. n \in 1 .. n /\ 1 \in 1 .. n /\ EntryApplied(h, n, opts)
            BY <1>1, <2>2 DEF GoodHistory, n
        <3>2. s.tip = BlockAt(h, n).height /\ BlockAt(h, n).height = BlockAt(h, 1).height + n - 1
            BY <2>2, <3>1 DEF EntryApplied, s, After
        <3>3. BlockAt(h, 1).height \in Nat
            <4>1. 1 \in 1 .. Len(h)
                BY <3>1 DEF n
            <4> QED BY <1>1, <4>1, HistoryType, BlockType
        <3>4. block.height = s.tip + 1
            <4>1. s.tip # NoTip
                BY <1>1, <3>1, <3>2, <3>3 DEF NoTip
            <4> QED BY <4>1 DEF PassesStaging, Contiguous, s, n
        <3>5. BlockAt(g, 1) = BlockAt(h, 1)
            BY <1>8, <3>1 DEF BlockAt
        <3> QED BY <1>1, <3>2, <3>3, <3>4, <3>5, SMTT(40)
    <2> QED BY <2>1, <2>2
<1>11. EntryApplied(g, n + 1, opts)
    <2>1. /\ PassesStaging(s, block, opts)
          /\ ForestHolds(s, SpentLeaves(s, block))
        BY DEF s, n
    <2>2. block.height = BlockAt(g, 1).height + (n + 1) - 1
        <3>1. block.height \in Nat
            BY <1>1, BlockType
        <3>2. BlockAt(g, 1).height \in Nat
            <4>1. 1 \in 1 .. Len(g)
                BY <1>1, <1>8
            <4> QED BY <1>8, <4>1, HistoryType, BlockType
        <3> QED BY <1>1, <1>10, <3>1, <3>2
    <2> QED BY <1>5, <1>9, <2>1, <2>2 DEF EntryApplied, next
<1>12. StateIsSum(g, n + 1)
    <2>1. /\ CreatedUpTo(g, n) = CreatedUpTo(h, n) /\ SpentUpTo(g, n) = SpentUpTo(h, n)
          /\ \A p : RevealedUpTo(g, n, p) = RevealedUpTo(h, n, p)
          /\ \A j \in 1 .. n : BlockAt(g, j) = BlockAt(h, j)
        <3>1. \A j \in 1 .. n : BlockAt(g, j) = BlockAt(h, j)
            BY <1>8 DEF BlockAt
        <3> QED BY <3>1 DEF CreatedUpTo, SpentUpTo, RevealedUpTo
    <2>2. /\ CreatedUpTo(g, n + 1) = CreatedUpTo(h, n) \cup creates
          /\ SpentUpTo(g, n + 1) = SpentUpTo(h, n) \cup spends
          /\ \A p : RevealedUpTo(g, n + 1, p)
                        = RevealedUpTo(h, n, p) \cup Range(block.nullifiers[p])
        BY <1>1, <1>9, <2>1, SumsGrow DEF creates, spends
    <2>3. DOMAIN next.utxo_index = CreatedUpTo(g, n + 1) \ SpentUpTo(g, n + 1)
        BY <1>2, <1>3, <1>5, <1>6, <2>2 DEF UnspentAfter, creates, spends
    <2>4. ASSUME NEW j \in 1 .. n + 1, NEW o \in Range(BlockAt(g, j).transparent_creates),
                 o \in DOMAIN next.utxo_index
          PROVE  next.utxo_index[o] = [outpoint |-> o, height |-> BlockAt(g, j).height]
        <3>1. CASE j = n + 1
            <4>1. o \in creates \ Cancelled(s, block)
                BY <1>4, <1>5, <1>9, <2>4, <3>1 DEF UnspentAfter, creates
            <4> QED BY <1>5, <1>9, <3>1, <4>1
        <3>2. CASE j # n + 1
            <4>1. j \in 1 .. n
                BY <1>1, <3>2
            <4>2. o \in Range(BlockAt(h, j).transparent_creates) /\ o \in CreatedUpTo(h, n)
                BY <2>1, <2>4, <4>1 DEF CreatedUpTo
            <4>3. o \in DOMAIN s.utxo_index \ spends
                BY <1>2, <1>5, <2>4, <4>2 DEF UnspentAfter, creates, spends
            <4>4. s.utxo_index[o] = [outpoint |-> o, height |-> BlockAt(h, j).height]
                BY <1>1, <4>1, <4>2, <4>3 DEF StateIsSum, s
            <4> QED BY <1>5, <2>1, <4>1, <4>3, <4>4
        <3> QED BY <3>1, <3>2
    <2>5. ASSUME NEW p \in Pool
          PROVE  Range(next.nullifiers[p]) = RevealedUpTo(g, n + 1, p)
        <3>1. s.nullifiers[p] \in Seq(Value) /\ block.nullifiers[p] \in Seq(Value)
            BY <1>1, BlockType DEF State
        <3>2. Range(next.nullifiers[p]) = Range(s.nullifiers[p]) \cup Range(block.nullifiers[p])
            <4>1. Range(s.nullifiers[p] \o block.nullifiers[p])
                      = Range(s.nullifiers[p]) \cup Range(block.nullifiers[p])
                BY <3>1, RangeConcatenation
            <4> QED BY <1>5, <4>1
        <3>3. Range(s.nullifiers[p]) = RevealedUpTo(h, n, p)
            BY <1>1 DEF StateIsSum, s
        <3> QED BY <2>2, <3>2, <3>3
    <2> QED BY <1>5, <1>9, <2>3, <2>4, <2>5 DEF StateIsSum
<1>13. \A i \in 1 .. n + 1 : EntryApplied(g, i, opts)
    <2>1. ASSUME NEW i \in 1 .. n PROVE EntryApplied(g, i, opts)
        <3>1. EntryApplied(h, i, opts)
            BY DEF GoodHistory, n
        <3> QED BY <1>1, <1>8, <3>1, SamePrefix
    <2> QED BY <1>1, <1>11, <2>1
<1>14. \A i \in 0 .. n + 1 : StateIsSum(g, i)
    <2>1. ASSUME NEW i \in 0 .. n PROVE StateIsSum(g, i)
        <3>1. StateIsSum(h, i)
            BY DEF GoodHistory, n
        <3> QED BY <1>1, <1>8, <3>1, SamePrefix
    <2> QED BY <1>1, <1>12, <2>1
<1>15. GoodHistory(g, opts)
    BY <1>8, <1>13, <1>14 DEF GoodHistory
<1> QED BY <1>8, <1>15 DEF g, n, next, s

----------------------------------------------------------------------------
(* The journal.                                                            *)

DeltaRecord    == [height : Nat, spent : Seq(Leaf), created : Seq(Leaf),
                   insertions : [Pool -> Seq(Value)]]
SnapshotRecord == [height : Nat, utxos : CallForest, utxo_index : Index]

\* The height before the first block, so that entry i is at height Base + i.
Base(h) == BlockAt(h, 1).height - 1

DeltaAt(h, i) == Delta(After(h, i - 1), BlockAt(h, i))

\* A snapshot is the transparent half of a state of the first r blocks.
SnapshotTaken(h, r, snapshot) ==
    /\ snapshot.height - Base(h) \in 1 .. r
    /\ snapshot.utxos = h[snapshot.height - Base(h)].state.utxos
    /\ snapshot.utxo_index = h[snapshot.height - Base(h)].state.utxo_index

\* The deltas are those of the newest blocks, all that are above the oldest
\* snapshot and perhaps the one it was taken at.
DeltasReachTheSnapshot(h, r, snaps, dels) ==
    /\ Len(dels) <= r
    /\ \A k \in 1 .. Len(dels) : dels[k] = DeltaAt(h, r - Len(dels) + k)
    /\ r > 0 => /\ Base(h) + r - snaps[1].height <= Len(dels)
                /\ Len(dels) <= Base(h) + r - snaps[1].height + 1

\* What the journal holds once it has recorded the first r blocks of a chain.
JournalOf(h, r, snaps, dels) ==
    /\ snaps \in Seq(SnapshotRecord) /\ dels \in Seq(DeltaRecord)
    /\ r \in 0 .. Len(h)
    /\ Len(snaps) = 0 <=> r = 0
    /\ \A m \in 1 .. Len(snaps) : SnapshotTaken(h, r, snaps[m])
    /\ \A l, m \in 1 .. Len(snaps) : l < m => snaps[l].height < snaps[m].height
    /\ DeltasReachTheSnapshot(h, r, snaps, dels)

\* The blocks of a history are of consecutive heights, and so are its deltas.
LEMMA Heights ==
    ASSUME NEW h, NEW opts, GoodHistory(h, opts)
    PROVE  /\ Len(h) \in Nat
           /\ Len(h) > 0 => Base(h) \in Int
           /\ \A i \in 1 .. Len(h) : /\ BlockAt(h, i).height = Base(h) + i
                                     /\ BlockAt(h, i).height \in Nat
                                     /\ After(h, i).tip = Base(h) + i
                                     /\ DeltaAt(h, i).height = Base(h) + i
                                     /\ DeltaAt(h, i) \in DeltaRecord
<1>1. /\ h \in Seq(HistoryEntry) /\ Len(h) \in Nat
      /\ \A i \in 1 .. Len(h) : /\ BlockAt(h, i) \in BlockSummary
                                /\ BlockAt(h, i).height \in Nat
                                /\ After(h, i - 1) \in State
    <2>1. h \in Seq(HistoryEntry)
        BY DEF GoodHistory
    <2>2. Len(h) \in Nat /\ \A i \in 1 .. Len(h) : BlockAt(h, i) \in BlockSummary
        BY <2>1, HistoryType
    <2>3. ASSUME NEW i \in 1 .. Len(h) PROVE After(h, i - 1) \in State
        <3>1. i - 1 \in 0 .. Len(h)
            BY <2>2
        <3> QED BY <2>1, <3>1, HistoryType
    <2> QED BY <2>1, <2>2, <2>3, BlockType
<1>2. Len(h) > 0 => Base(h) \in Int
    BY <1>1 DEF Base
<1>3. ASSUME NEW i \in 1 .. Len(h)
      PROVE  /\ BlockAt(h, i).height = Base(h) + i
             /\ After(h, i).tip = Base(h) + i
    <2>1. EntryApplied(h, i, opts)
        BY DEF GoodHistory
    <2>2. BlockAt(h, 1).height \in Nat
        BY <1>1
    <2>3. BlockAt(h, i).height = BlockAt(h, 1).height + i - 1
        BY <2>1, SMTT(40) DEF EntryApplied
    <2>4. After(h, i).tip = BlockAt(h, i).height
        BY <1>1, <2>1 DEF EntryApplied, After
    <2> QED BY <1>1, <2>2, <2>3, <2>4 DEF Base
<1>4. ASSUME NEW i \in 1 .. Len(h)
      PROVE  /\ DeltaAt(h, i) \in DeltaRecord
             /\ DeltaAt(h, i).height = BlockAt(h, i).height
    <2> DEFINE s == After(h, i - 1)
               block == BlockAt(h, i)
    <2>1. s \in State /\ block \in BlockSummary
        BY <1>1
    <2> HIDE DEF s, block
    <2>2. /\ SpentLeaves(s, block) \in Seq(Leaf) /\ CreatedLeaves(s, block) \in Seq(Leaf)
          /\ block.height \in Nat /\ block.nullifiers \in [Pool -> Seq(Value)]
        BY <2>1, SpentLeavesFacts, CreatedLeavesFacts, BlockType
    <2>3. Delta(s, block) \in DeltaRecord /\ Delta(s, block).height = block.height
        BY <2>2 DEF Delta, DeltaRecord
    <2> QED BY <2>3 DEF DeltaAt, s, block
<1> QED BY <1>1, <1>2, <1>3, <1>4

----------------------------------------------------------------------------
(* prune and rollback_to cut sequences by height.                          *)

\* s is ordered by height.
Ascending(s) == \A l, m \in 1 .. Len(s) : l < m => s[l].height < s[m].height

HaveHeights(s) == Len(s) \in Nat /\ \A i \in 1 .. Len(s) : s[i].height \in Int

\* LeadingUpTo counts the entries before the first one above a height.
LEMMA LeadingFacts ==
    ASSUME NEW s, NEW height \in Int, HaveHeights(s)
    PROVE  LET n == LeadingUpTo(s, height)
           IN  /\ n \in 0 .. Len(s)
               /\ \A i \in 1 .. n : s[i].height <= height
               /\ n < Len(s) => s[n + 1].height > height
<1> DEFINE fits == {n \in 0 .. Len(s) : \A i \in 1 .. n : s[i].height <= height}
<1>1. fits \in SUBSET Nat /\ 0 \in fits /\ \A n \in fits : n <= Len(s)
    BY DEF HaveHeights
<1>2. Max(fits) \in fits /\ \A n \in fits : n <= Max(fits)
    <2> HIDE DEF fits
    <2>1. Len(s) \in Nat
        BY DEF HaveHeights
    <2> QED BY <1>1, <2>1, BoundedMax
<1>3. LeadingUpTo(s, height) = Max(fits)
    BY DEF LeadingUpTo
<1> DEFINE n == Max(fits)
<1> HIDE DEF n
<1>4. n \in 0 .. Len(s) /\ \A i \in 1 .. n : s[i].height <= height
    BY <1>2 DEF n
<1>5. n < Len(s) => s[n + 1].height > height
    <2> SUFFICES ASSUME n < Len(s), ~(s[n + 1].height > height) PROVE FALSE
        OBVIOUS
    <2>1. n + 1 \in 0 .. Len(s) /\ n + 1 \in 1 .. Len(s)
        BY <1>4 DEF HaveHeights
    <2>2. s[n + 1].height <= height
        BY <2>1 DEF HaveHeights
    <2>3. \A i \in 1 .. n + 1 : i \in 1 .. n \/ i = n + 1
        BY <1>4
    <2>4. n + 1 \in fits
        BY <1>4, <2>1, <2>2, <2>3
    <2> HIDE DEF fits
    <2> QED BY <1>2, <1>4, <2>4 DEF n
<1> QED BY <1>3, <1>4, <1>5 DEF n

\* KeptUpTo counts the entries up to the last one not above a height.
LEMMA KeptFacts ==
    ASSUME NEW s, NEW height \in Int, HaveHeights(s)
    PROVE  LET n == KeptUpTo(s, height)
           IN  /\ n \in 0 .. Len(s)
               /\ n > 0 => s[n].height <= height
               /\ \A i \in n + 1 .. Len(s) : s[i].height > height
<1> DEFINE fits == {0} \cup {n \in 1 .. Len(s) : s[n].height <= height}
<1>1. fits \in SUBSET Nat /\ 0 \in fits /\ \A n \in fits : n <= Len(s)
    BY DEF HaveHeights
<1>2. Max(fits) \in fits /\ \A n \in fits : n <= Max(fits)
    <2> HIDE DEF fits
    <2>1. Len(s) \in Nat
        BY DEF HaveHeights
    <2> QED BY <1>1, <2>1, BoundedMax
<1>3. KeptUpTo(s, height) = Max(fits)
    BY DEF KeptUpTo
<1> DEFINE n == Max(fits)
<1> HIDE DEF n
<1>4. n \in 0 .. Len(s) /\ (n > 0 => s[n].height <= height)
    BY <1>2 DEF n, HaveHeights
<1>5. \A i \in n + 1 .. Len(s) : s[i].height > height
    <2> SUFFICES ASSUME NEW i \in n + 1 .. Len(s), ~(s[i].height > height) PROVE FALSE
        OBVIOUS
    <2>1. i \in 1 .. Len(s) /\ i > n
        BY <1>4 DEF HaveHeights
    <2>2. i \in fits
        BY <2>1 DEF HaveHeights
    <2> HIDE DEF fits
    <2> QED BY <1>2, <1>4, <2>1, <2>2 DEF n
<1> QED BY <1>3, <1>4, <1>5 DEF n

\* What is left of a sequence without its first n elements.
LEMMA DropFrontFacts ==
    ASSUME NEW S, NEW s \in Seq(S), NEW n \in 0 .. Len(s)
    PROVE  /\ DropFront(s, n) \in Seq(S) /\ Len(DropFront(s, n)) = Len(s) - n
           /\ \A i \in 1 .. Len(s) - n : DropFront(s, n)[i] = s[n + i]
<1>1. Len(s) \in Nat /\ \A i \in n + 1 .. Len(s) : s[i] \in S
    BY LenProperties
<1> DEFINE t == SubSeq(s, n + 1, Len(s))
<1>2. /\ t \in Seq(S) /\ Len(t) = IF n + 1 <= Len(s) THEN Len(s) - (n + 1) + 1 ELSE 0
      /\ \A i \in 1 .. Len(s) - (n + 1) + 1 : t[i] = s[(n + 1) + i - 1]
    BY <1>1, SubSeqProperties
<1> HIDE DEF t
<1>3. \A i \in 1 .. Len(s) - n : t[i] = s[n + i]
    <2> TAKE i \in 1 .. Len(s) - n
    <2>1. i \in 1 .. Len(s) - (n + 1) + 1 /\ (n + 1) + i - 1 = n + i
        BY <1>1
    <2>2. t[i] = s[(n + 1) + i - 1]
        BY <1>2, <2>1
    <2> QED BY <2>1, <2>2
<1>4. Len(t) = Len(s) - n
    BY <1>1, <1>2
<1> QED BY <1>2, <1>3, <1>4 DEF DropFront, t

\* A snapshot of an early block stays one when there are more blocks.
LEMMA SnapshotsStay ==
    ASSUME NEW h, NEW r \in Nat, NEW q \in Nat, r <= q, NEW snapshot, Base(h) \in Int,
           snapshot.height \in Nat, SnapshotTaken(h, r, snapshot)
    PROVE  SnapshotTaken(h, q, snapshot)
BY DEF SnapshotTaken

\* What a journal of the first r blocks of a history is made of.
LEMMA JournalTypes ==
    ASSUME NEW h, NEW opts, GoodHistory(h, opts), NEW r, NEW snaps, NEW dels,
           JournalOf(h, r, snaps, dels)
    PROVE  /\ r \in Nat /\ r <= Len(h) /\ Len(h) \in Nat
           /\ Len(snaps) \in Nat /\ Len(dels) \in Nat
           /\ HaveHeights(snaps) /\ HaveHeights(dels)
           /\ \A i \in 1 .. Len(snaps) : snaps[i].height \in Nat
           /\ \A k \in 1 .. Len(dels) : /\ r - Len(dels) + k \in 1 .. r
                                        /\ dels[k].height = Base(h) + r - Len(dels) + k
<1>1. snaps \in Seq(SnapshotRecord) /\ dels \in Seq(DeltaRecord)
    BY DEF JournalOf
<1>2. /\ Len(snaps) \in Nat /\ \A i \in 1 .. Len(snaps) : snaps[i] \in SnapshotRecord
      /\ Len(dels) \in Nat /\ \A i \in 1 .. Len(dels) : dels[i] \in DeltaRecord
    BY <1>1, LenProperties
<1>3. r \in Nat /\ r <= Len(h) /\ Len(h) \in Nat
    BY Heights DEF JournalOf
<1>4. ASSUME NEW k \in 1 .. Len(dels)
      PROVE  /\ r - Len(dels) + k \in 1 .. r
             /\ dels[k].height = Base(h) + r - Len(dels) + k
    <2>1. r - Len(dels) + k \in 1 .. r
        BY <1>2, <1>3 DEF JournalOf, DeltasReachTheSnapshot
    <2>2. dels[k] = DeltaAt(h, r - Len(dels) + k)
        BY DEF JournalOf, DeltasReachTheSnapshot
    <2>3. r - Len(dels) + k \in 1 .. Len(h) /\ Base(h) \in Int
        BY <1>3, <2>1, Heights
    <2>4. DeltaAt(h, r - Len(dels) + k).height = Base(h) + (r - Len(dels) + k)
        BY <2>3, Heights
    <2> QED BY <1>2, <1>3, <2>1, <2>2, <2>3, <2>4
<1> QED BY <1>2, <1>3, <1>4 DEF HaveHeights, SnapshotRecord, DeltaRecord

\* record between boundaries.
LEMMA RecordDelta ==
    ASSUME NEW h, NEW opts, GoodHistory(h, opts), NEW r, NEW snaps, NEW dels,
           JournalOf(h, r, snaps, dels), r < Len(h), Len(snaps) > 0
    PROVE  JournalOf(h, r + 1, snaps, Append(dels, DeltaAt(h, r + 1)))
<1>1. /\ r \in Nat /\ r + 1 \in 1 .. Len(h) /\ Len(h) \in Nat /\ Base(h) \in Int
      /\ Len(dels) \in Nat /\ Len(snaps) \in Nat /\ r > 0
      /\ \A i \in 1 .. Len(snaps) : snaps[i].height \in Nat
    <2>1. /\ r \in Nat /\ Len(h) \in Nat /\ Len(dels) \in Nat /\ Len(snaps) \in Nat
          /\ \A i \in 1 .. Len(snaps) : snaps[i].height \in Nat
        BY JournalTypes
    <2>2. Base(h) \in Int
        BY <2>1, Heights
    <2> QED BY <2>1, <2>2 DEF JournalOf
<1>2. DeltaAt(h, r + 1) \in DeltaRecord
    BY <1>1, Heights
<1> DEFINE longer == Append(dels, DeltaAt(h, r + 1))
<1>3. /\ longer \in Seq(DeltaRecord) /\ Len(longer) = Len(dels) + 1
      /\ \A k \in 1 .. Len(dels) : longer[k] = dels[k]
      /\ longer[Len(dels) + 1] = DeltaAt(h, r + 1)
    BY <1>2, AppendProperties DEF JournalOf
<1> HIDE DEF longer
<1>4. DeltasReachTheSnapshot(h, r + 1, snaps, longer)
    <2>1. /\ Len(dels) <= r
          /\ \A k \in 1 .. Len(dels) : dels[k] = DeltaAt(h, r - Len(dels) + k)
          /\ Base(h) + r - snaps[1].height <= Len(dels)
          /\ Len(dels) <= Base(h) + r - snaps[1].height + 1
        BY <1>1 DEF JournalOf, DeltasReachTheSnapshot
    <2>2. ASSUME NEW k \in 1 .. Len(longer)
          PROVE  longer[k] = DeltaAt(h, (r + 1) - Len(longer) + k)
        <3>1. CASE k \in 1 .. Len(dels)
            <4>1. (r + 1) - Len(longer) + k = r - Len(dels) + k
                BY <1>1, <1>3
            <4> QED BY <1>3, <2>1, <3>1, <4>1
        <3>2. CASE k = Len(dels) + 1
            <4>1. (r + 1) - Len(longer) + k = r + 1
                BY <1>1, <1>3, <3>2
            <4> QED BY <1>3, <3>2, <4>1
        <3> QED BY <1>1, <1>3, <3>1, <3>2
    <2>3. snaps[1].height \in Nat
        BY <1>1
    <2>4. /\ Len(longer) <= r + 1
          /\ Base(h) + (r + 1) - snaps[1].height <= Len(longer)
          /\ Len(longer) <= Base(h) + (r + 1) - snaps[1].height + 1
        BY <1>1, <1>3, <2>1, <2>3, SMTT(40)
    <2> QED BY <1>1, <1>3, <2>2, <2>4 DEF DeltasReachTheSnapshot
<1>5. \A m \in 1 .. Len(snaps) : SnapshotTaken(h, r + 1, snaps[m])
    <2> TAKE m \in 1 .. Len(snaps)
    <2>1. SnapshotTaken(h, r, snaps[m]) /\ snaps[m].height \in Nat
        BY <1>1 DEF JournalOf
    <2>2. r \in Nat /\ r + 1 \in Nat /\ r <= r + 1 /\ Base(h) \in Int
        BY <1>1
    <2> QED BY <2>1, <2>2, SnapshotsStay
<1>6. JournalOf(h, r + 1, snaps, longer)
    BY <1>1, <1>3, <1>4, <1>5 DEF JournalOf
<1> QED BY <1>6 DEF longer

\* record at a boundary, however many of the oldest snapshots prune drops.
LEMMA RecordSnapshotAt ==
    ASSUME NEW h, NEW opts, GoodHistory(h, opts), NEW r, NEW snaps, NEW dels,
           JournalOf(h, r, snaps, dels), r < Len(h),
           NEW snapshot \in SnapshotRecord, snapshot.height = Base(h) + (r + 1),
           SnapshotTaken(h, r + 1, snapshot),
           NEW n \in 0 .. Len(snaps)
    PROVE  LET kept == DropFront(Append(snaps, snapshot), n)
           IN  JournalOf(h, r + 1, kept,
                         Append(DropFront(dels, LeadingUpTo(dels, kept[1].height)),
                                DeltaAt(h, r + 1)))
<1> DEFINE taken == Append(snaps, snapshot)
           kept == DropFront(taken, n)
           gone == LeadingUpTo(dels, kept[1].height)
           left == DropFront(dels, gone)
           longer == Append(left, DeltaAt(h, r + 1))
<1>1. /\ r \in Nat /\ r + 1 \in 1 .. Len(h) /\ Len(h) \in Nat /\ Base(h) \in Int
      /\ Len(dels) \in Nat /\ Len(snaps) \in Nat
      /\ \A i \in 1 .. Len(snaps) : snaps[i].height \in Nat
      /\ HaveHeights(dels) /\ snapshot.height \in Nat
    <2>1. /\ r \in Nat /\ Len(h) \in Nat /\ Len(dels) \in Nat /\ Len(snaps) \in Nat
          /\ \A i \in 1 .. Len(snaps) : snaps[i].height \in Nat
          /\ HaveHeights(dels)
        BY JournalTypes
    <2>2. Base(h) \in Int
        BY <2>1, Heights
    <2> QED BY <2>1, <2>2 DEF SnapshotRecord
<1>2. /\ taken \in Seq(SnapshotRecord) /\ Len(taken) = Len(snaps) + 1
      /\ \A i \in 1 .. Len(snaps) : taken[i] = snaps[i]
      /\ taken[Len(snaps) + 1] = snapshot
    BY AppendProperties DEF JournalOf
<1> HIDE DEF taken
<1>3. /\ kept \in Seq(SnapshotRecord) /\ Len(kept) = Len(snaps) + 1 - n
      /\ \A i \in 1 .. Len(kept) : kept[i] = taken[n + i]
    <2>1. n \in 0 .. Len(taken)
        BY <1>1, <1>2
    <2>2. /\ kept \in Seq(SnapshotRecord) /\ Len(kept) = Len(taken) - n
          /\ \A i \in 1 .. Len(taken) - n : kept[i] = taken[n + i]
        BY <1>2, <2>1, DropFrontFacts
    <2> QED BY <1>1, <1>2, <2>2
<1> HIDE DEF kept
<1>4. Len(kept) \in Nat /\ Len(kept) >= 1
    BY <1>1, <1>3
<1>5. \A i \in 1 .. Len(taken) : taken[i].height \in Nat /\ SnapshotTaken(h, r + 1, taken[i])
    <2> TAKE i \in 1 .. Len(taken)
    <2>1. CASE i = Len(snaps) + 1
        BY <1>1, <1>2, <2>1
    <2>2. CASE i \in 1 .. Len(snaps)
        <3>1. SnapshotTaken(h, r, snaps[i]) /\ snaps[i].height \in Nat
            BY <1>1, <2>2 DEF JournalOf
        <3> QED BY <1>1, <1>2, <2>2, <3>1, SnapshotsStay
    <2> QED BY <1>1, <1>2, <2>1, <2>2
<1>6. \A l, m \in 1 .. Len(taken) : l < m => taken[l].height < taken[m].height
    <2> SUFFICES ASSUME NEW l \in 1 .. Len(taken), NEW m \in 1 .. Len(taken), l < m
                 PROVE  taken[l].height < taken[m].height
        OBVIOUS
    <2>1. l \in 1 .. Len(snaps)
        BY <1>1, <1>2
    <2>2. CASE m \in 1 .. Len(snaps)
        BY <1>2, <2>1, <2>2 DEF JournalOf
    <2>3. CASE m = Len(snaps) + 1
        <3>1. SnapshotTaken(h, r, snaps[l]) /\ snaps[l].height \in Nat
            BY <1>1, <2>1 DEF JournalOf
        <3>2. snaps[l].height - Base(h) <= r
            BY <3>1, <1>1, SMTT(40) DEF SnapshotTaken
        <3> QED BY <1>1, <1>2, <2>1, <2>3, <3>1, <3>2, SMTT(40)
    <2>4. m \in 1 .. Len(snaps) \/ m = Len(snaps) + 1
        <3>1. Len(snaps) \in Nat /\ Len(taken) = Len(snaps) + 1
            BY <1>1, <1>2
        <3> QED BY <3>1
    <2> QED BY <2>2, <2>3, <2>4
<1>7. /\ \A i \in 1 .. Len(kept) : n + i \in 1 .. Len(taken)
      /\ \A i \in 1 .. Len(kept) : kept[i].height \in Nat /\ SnapshotTaken(h, r + 1, kept[i])
    <2>1. \A i \in 1 .. Len(kept) : n + i \in 1 .. Len(taken)
        BY <1>1, <1>2, <1>3
    <2> QED BY <1>3, <1>5, <2>1
<1>8. \A l, m \in 1 .. Len(kept) : l < m => kept[l].height < kept[m].height
    <2> SUFFICES ASSUME NEW l \in 1 .. Len(kept), NEW m \in 1 .. Len(kept), l < m
                 PROVE  kept[l].height < kept[m].height
        OBVIOUS
    <2>1. n + l \in 1 .. Len(taken) /\ n + m \in 1 .. Len(taken) /\ n + l < n + m
        BY <1>1, <1>4, <1>7
    <2> QED BY <1>3, <1>6, <2>1
<1>9. /\ kept[1].height \in Nat /\ kept[1].height <= Base(h) + (r + 1)
      /\ Len(snaps) > 0 => kept[1].height >= snaps[1].height
    <2>1. 1 \in 1 .. Len(kept)
        BY <1>4
    <2>2. kept[1].height \in Nat /\ SnapshotTaken(h, r + 1, kept[1])
        BY <1>7, <2>1
    <2>3. kept[1].height <= Base(h) + (r + 1)
        BY <1>1, <2>2, SMTT(40) DEF SnapshotTaken
    <2>4. ASSUME Len(snaps) > 0 PROVE kept[1].height >= snaps[1].height
        <3>0. 1 \in 1 .. Len(snaps) /\ n + 1 = 1 + n /\ n \in Nat
            BY <1>1, <2>4
        <3>1. taken[1] = snaps[1] /\ kept[1] = taken[n + 1]
            BY <1>2, <1>3, <2>1, <3>0
        <3>2. n + 1 \in 1 .. Len(taken) /\ 1 \in 1 .. Len(taken)
            BY <1>7, <2>1, <1>1, <1>2
        <3>3. n = 0 \/ taken[1].height < taken[n + 1].height
            BY <1>6, <3>0, <3>2
        <3>4. taken[1].height \in Nat /\ taken[n + 1].height \in Nat
            BY <1>5, <3>2
        <3>5. taken[n + 1].height >= taken[1].height
            BY <3>0, <3>3, <3>4
        <3> QED BY <3>1, <3>5
    <2> QED BY <2>2, <2>3, <2>4
<1>10. /\ gone \in 0 .. Len(dels)
       /\ \A i \in 1 .. gone : dels[i].height <= kept[1].height
       /\ gone < Len(dels) => dels[gone + 1].height > kept[1].height
    BY <1>1, <1>9, LeadingFacts, SMTT(40)
<1> HIDE DEF gone
<1>11. /\ left \in Seq(DeltaRecord) /\ Len(left) = Len(dels) - gone
       /\ \A i \in 1 .. Len(dels) - gone : left[i] = dels[gone + i]
    BY <1>10, DropFrontFacts DEF JournalOf
<1> HIDE DEF left
<1>12. /\ longer \in Seq(DeltaRecord) /\ Len(longer) = Len(left) + 1
       /\ \A i \in 1 .. Len(left) : longer[i] = left[i]
       /\ longer[Len(left) + 1] = DeltaAt(h, r + 1)
    <2>1. DeltaAt(h, r + 1) \in DeltaRecord
        BY <1>1, Heights
    <2> QED BY <1>11, <2>1, AppendProperties
<1> HIDE DEF longer
<1>13. \A k \in 1 .. Len(dels) : dels[k].height = Base(h) + r - Len(dels) + k
    BY JournalTypes
<1>14. /\ Len(longer) <= r + 1
       /\ Base(h) + (r + 1) - kept[1].height <= Len(longer)
       /\ Len(longer) <= Base(h) + (r + 1) - kept[1].height + 1
    <2>1. /\ Len(dels) <= r
          /\ r > 0 => Base(h) + r - snaps[1].height <= Len(dels)
          /\ Len(snaps) > 0 <=> r > 0
        BY <1>1 DEF JournalOf, DeltasReachTheSnapshot
    <2>2. Len(longer) = Len(dels) - gone + 1 /\ gone \in Nat /\ gone <= Len(dels)
        BY <1>1, <1>10, <1>11, <1>12
    <2>3. gone > 0 => Base(h) + r - Len(dels) + gone <= kept[1].height
        <3> SUFFICES ASSUME gone > 0 PROVE dels[gone].height <= kept[1].height
            BY <1>1, <1>10, <1>13, <2>2
        <3>1. gone \in 1 .. gone
            BY <2>2
        <3> QED BY <1>10, <3>1
    <2>4. gone < Len(dels) => Base(h) + r - Len(dels) + gone + 1 > kept[1].height
        <3> SUFFICES ASSUME gone < Len(dels) PROVE dels[gone + 1].height > kept[1].height
            <4>1. gone < Len(dels) => dels[gone + 1].height = Base(h) + r - Len(dels) + (gone + 1)
                BY <1>1, <1>13, <2>2
            <4> QED BY <1>1, <2>2, <4>1, SMTT(40)
        <3> QED BY <1>10
    <2>5. Base(h) + (r + 1) - kept[1].height <= Len(longer)
        <3>1. CASE gone > 0
            <4>1. Base(h) + r - Len(dels) + gone <= kept[1].height
                BY <2>3, <3>1
            <4>2. Len(longer) = (Len(dels) - gone) + 1 /\ kept[1].height \in Nat
                BY <1>9, <2>2
            <4>3. Base(h) \in Int /\ r \in Int /\ Len(dels) \in Int /\ gone \in Int
                BY <1>1, <2>2
            <4> QED BY <4>1, <4>2, <4>3, SMTT(40)
        <3>2. CASE gone = 0 /\ r > 0
            <4>1. snaps[1].height \in Nat /\ kept[1].height >= snaps[1].height
                BY <1>1, <1>9, <2>1, <3>2, SMTT(40)
            <4> QED BY <1>1, <1>9, <2>1, <2>2, <3>2, <4>1, SMTT(40)
        <3>3. CASE r = 0
            <4>1. Base(h) + 1 - kept[1].height <= 1
                <5>1. 1 \in 1 .. Len(kept)
                    BY <1>4
                <5>2. SnapshotTaken(h, r + 1, kept[1])
                    BY <1>7, <5>1
                <5> QED BY <1>1, <1>9, <5>2, SMTT(40) DEF SnapshotTaken
            <4> QED BY <1>1, <1>9, <2>1, <2>2, <3>3, <4>1
        <3> QED BY <1>1, <2>2, <3>1, <3>2, <3>3
    <2>6. Len(longer) <= Base(h) + (r + 1) - kept[1].height + 1
        <3>1. CASE gone = Len(dels)
            BY <1>1, <1>9, <2>2, <3>1
        <3>2. CASE gone < Len(dels)
            <4>1. Base(h) + r - Len(dels) + gone + 1 > kept[1].height
                BY <2>4, <3>2
            <4>2. Len(longer) = (Len(dels) - gone) + 1 /\ kept[1].height \in Nat
                BY <1>9, <2>2
            <4>3. Base(h) \in Int /\ r \in Int /\ Len(dels) \in Int /\ gone \in Int
                BY <1>1, <2>2
            <4>4. kept[1].height \in Int /\ kept[1].height <= Base(h) + r - (Len(dels) - gone)
                BY <4>1, <4>2, <4>3, SMTT(40)
            <4>5. Len(dels) - gone <= Base(h) + r - kept[1].height
                BY <4>3, <4>4, SMTT(40)
            <4> QED BY <4>2, <4>3, <4>5, SMTT(40)
        <3> QED BY <1>1, <2>2, <3>1, <3>2
    <2> QED BY <1>1, <2>1, <2>2, <2>5, <2>6
<1>15. \A k \in 1 .. Len(longer) : longer[k] = DeltaAt(h, (r + 1) - Len(longer) + k)
    <2> TAKE k \in 1 .. Len(longer)
    <2>1. CASE k = Len(left) + 1
        <3>1. (r + 1) - Len(longer) + k = r + 1
            BY <1>1, <1>10, <1>11, <1>12, <2>1
        <3> QED BY <1>12, <2>1, <3>1
    <2>2. CASE k \in 1 .. Len(left)
        <3>1. gone + k \in 1 .. Len(dels) /\ longer[k] = dels[gone + k]
            BY <1>1, <1>10, <1>11, <1>12, <2>2, SMTT(40)
        <3>2. dels[gone + k] = DeltaAt(h, r - Len(dels) + (gone + k))
            BY <3>1 DEF JournalOf, DeltasReachTheSnapshot
        <3>3. r - Len(dels) + (gone + k) = (r + 1) - Len(longer) + k
            BY <1>1, <1>10, <1>11, <1>12, <2>2
        <3> QED BY <3>1, <3>2, <3>3
    <2>3. k = Len(left) + 1 \/ k \in 1 .. Len(left)
        <3>1. Len(left) \in Nat
            BY <1>1, <1>10, <1>11
        <3> QED BY <1>12, <3>1
    <2> QED BY <2>1, <2>2, <2>3
<1>16. DeltasReachTheSnapshot(h, r + 1, kept, longer)
    BY <1>1, <1>14, <1>15 DEF DeltasReachTheSnapshot
<1>17. JournalOf(h, r + 1, kept, longer)
    BY <1>1, <1>3, <1>4, <1>7, <1>8, <1>12, <1>16, SMTT(40) DEF JournalOf
<1> QED BY <1>17 DEF longer, left, gone, kept, taken

\* What is said of a journal is said of the first blocks of the history.
LEMMA JournalOfPrefix ==
    ASSUME NEW h, NEW opts, GoodHistory(h, opts), NEW g, NEW t \in 1 .. Len(h),
           \A i \in 1 .. t : g[i] = h[i]
    PROVE  /\ Base(g) = Base(h)
           /\ \A i \in 1 .. t : DeltaAt(g, i) = DeltaAt(h, i)
           /\ \A snapshot : SnapshotTaken(h, t, snapshot) => SnapshotTaken(g, t, snapshot)
<1>1. t \in Nat /\ 1 \in 1 .. t
    BY Heights
<1>2. /\ \A i \in 0 .. t : After(g, i) = After(h, i)
      /\ \A i \in 1 .. t : BlockAt(g, i) = BlockAt(h, i)
    BY <1>1, SamePrefix
<1>3. Base(g) = Base(h)
    BY <1>1, <1>2 DEF Base
<1>4. ASSUME NEW i \in 1 .. t PROVE DeltaAt(g, i) = DeltaAt(h, i)
    <2>1. i - 1 \in 0 .. t
        BY <1>1
    <2> QED BY <1>2, <2>1 DEF DeltaAt
<1> QED BY <1>3, <1>4 DEF SnapshotTaken

\* rollback_to: dropping what is newer than the target leaves the journal of
\* the chain that is left.
LEMMA RollbackJournal ==
    ASSUME NEW h, NEW opts, GoodHistory(h, opts), Len(h) > 0, NEW snaps, NEW dels,
           JournalOf(h, Len(h), snaps, dels),
           NEW height \in Nat, snaps[1].height <= height, height < Base(h) + Len(h)
    PROVE  /\ height - Base(h) \in 1 .. Len(h)
           /\ JournalOf(SubSeq(h, 1, height - Base(h)), height - Base(h),
                        SubSeq(snaps, 1, KeptUpTo(snaps, height)),
                        SubSeq(dels, 1, KeptUpTo(dels, height)))
<1> DEFINE n == Len(h)
           t == height - Base(h)
           g == SubSeq(h, 1, t)
           ks == KeptUpTo(snaps, height)
           kd == KeptUpTo(dels, height)
           s == SubSeq(snaps, 1, ks)
           d == SubSeq(dels, 1, kd)
<1>1. /\ n \in Nat /\ n >= 1 /\ Base(h) \in Int /\ t \in Int
      /\ Len(snaps) \in Nat /\ Len(dels) \in Nat
      /\ HaveHeights(snaps) /\ HaveHeights(dels)
      /\ \A i \in 1 .. Len(snaps) : snaps[i].height \in Nat
    <2>1. /\ Len(snaps) \in Nat /\ Len(dels) \in Nat /\ n \in Nat
          /\ HaveHeights(snaps) /\ HaveHeights(dels)
          /\ \A i \in 1 .. Len(snaps) : snaps[i].height \in Nat
        BY JournalTypes
    <2>2. Base(h) \in Int
        BY Heights
    <2> QED BY <2>1, <2>2
<1>2. /\ Len(snaps) >= 1 /\ 1 \in 1 .. Len(snaps) /\ snaps[1].height \in Nat
      /\ snaps[1].height - Base(h) >= 1
    <2>1. Len(snaps) >= 1 /\ 1 \in 1 .. Len(snaps)
        BY <1>1 DEF JournalOf
    <2>2. SnapshotTaken(h, n, snaps[1])
        BY <2>1 DEF JournalOf
    <2> QED BY <1>1, <2>1, <2>2 DEF SnapshotTaken
<1>3. t \in 1 .. n /\ t \in 0 .. n /\ t \in Nat /\ Base(h) + t = height
    BY <1>1, <1>2
<1>4. /\ GoodHistory(g, opts) /\ Len(g) = t
      /\ \A i \in 1 .. t : g[i] = h[i]
    BY <1>3, GoodPrefix
<1>5. /\ ks \in 0 .. Len(snaps)
      /\ ks > 0 => snaps[ks].height <= height
      /\ \A i \in ks + 1 .. Len(snaps) : snaps[i].height > height
    BY <1>1, KeptFacts
<1>6. /\ kd \in 0 .. Len(dels)
      /\ kd > 0 => dels[kd].height <= height
      /\ \A i \in kd + 1 .. Len(dels) : dels[i].height > height
    BY <1>1, KeptFacts
<1> HIDE DEF t, g, ks, kd
<1>7. ks >= 1
    <2> SUFFICES ASSUME ks = 0 PROVE FALSE
        BY <1>1, <1>5
    <2>1. 1 \in ks + 1 .. Len(snaps)
        BY <1>2
    <2> QED BY <1>2, <1>5, <2>1
<1>8. \A k \in 1 .. Len(dels) : dels[k].height = Base(h) + n - Len(dels) + k
    BY JournalTypes
<1>9. /\ Len(dels) <= n
      /\ Base(h) + n - snaps[1].height <= Len(dels)
      /\ Len(dels) <= Base(h) + n - snaps[1].height + 1
      /\ \A k \in 1 .. Len(dels) : dels[k] = DeltaAt(h, n - Len(dels) + k)
    BY <1>1 DEF JournalOf, DeltasReachTheSnapshot
<1>10. kd = t - n + Len(dels) /\ kd \in Nat
    <2>1. kd \in Nat /\ kd <= Len(dels)
        BY <1>1, <1>6
    <2>2. kd <= (t - n) + Len(dels)
        <3>1. CASE kd = 0
            BY <1>1, <1>2, <1>3, <1>9, <3>1, SMTT(40)
        <3>2. CASE kd > 0
            <4>1. kd \in 1 .. Len(dels)
                BY <2>1, <3>2, <1>1
            <4>2. dels[kd].height = Base(h) + n - Len(dels) + kd /\ dels[kd].height <= height
                BY <1>6, <1>8, <3>2, <4>1
            <4>3. Base(h) + n - Len(dels) + kd <= Base(h) + t
                BY <1>3, <4>2
            <4>4. Base(h) \in Int /\ n \in Int /\ Len(dels) \in Int /\ kd \in Int /\ t \in Int
                BY <1>1, <2>1, <1>3
            <4> QED BY <4>3, <4>4
        <3> QED BY <2>1, <3>1, <3>2
    <2>3. kd >= (t - n) + Len(dels)
        <3>1. CASE kd = Len(dels)
            BY <1>1, <1>3, <3>1
        <3>2. CASE kd < Len(dels)
            <4>1. kd + 1 \in 1 .. Len(dels) /\ kd + 1 \in kd + 1 .. Len(dels)
                BY <2>1, <3>2, <1>1
            <4>2. /\ dels[kd + 1].height = Base(h) + n - Len(dels) + (kd + 1)
                  /\ dels[kd + 1].height > height
                BY <1>6, <1>8, <4>1
            <4>3. Base(h) + n - Len(dels) + (kd + 1) > Base(h) + t
                BY <1>3, <4>2
            <4>4. Base(h) \in Int /\ n \in Int /\ Len(dels) \in Int /\ kd \in Int /\ t \in Int
                BY <1>1, <2>1, <1>3
            <4> QED BY <4>3, <4>4
        <3> QED BY <1>1, <2>1, <3>1, <3>2
    <2>4. kd \in Int /\ t \in Int /\ n \in Int /\ Len(dels) \in Int
        BY <1>1, <1>3, <2>1
    <2> QED BY <2>1, <2>2, <2>3, <2>4
<1>11. /\ s \in Seq(SnapshotRecord) /\ Len(s) = ks
       /\ \A i \in 1 .. ks : s[i] = snaps[i]
    <2>1. snaps \in Seq(SnapshotRecord) /\ \A i \in 1 .. ks : snaps[i] \in SnapshotRecord
        BY <1>1, <1>5, LenProperties DEF JournalOf
    <2> QED BY <1>1, <1>5, <1>7, <2>1, SubSeqProperties
<1>12. /\ d \in Seq(DeltaRecord) /\ Len(d) = kd
       /\ \A i \in 1 .. kd : d[i] = dels[i]
    <2>1. dels \in Seq(DeltaRecord) /\ \A i \in 1 .. kd : dels[i] \in DeltaRecord
        BY <1>1, <1>6, LenProperties DEF JournalOf
    <2> QED BY <1>1, <1>6, <1>10, <2>1, SubSeqProperties
<1> HIDE DEF s, d
<1>13. /\ Base(g) = Base(h)
       /\ \A i \in 1 .. t : DeltaAt(g, i) = DeltaAt(h, i)
       /\ \A snapshot : SnapshotTaken(h, t, snapshot) => SnapshotTaken(g, t, snapshot)
    BY <1>3, <1>4, JournalOfPrefix
<1>14. ASSUME NEW m \in 1 .. Len(s) PROVE SnapshotTaken(g, t, s[m])
    <2>1. m \in 1 .. Len(snaps) /\ ks \in 1 .. Len(snaps) /\ s[m] = snaps[m]
        BY <1>1, <1>5, <1>7, <1>11
    <2>2. SnapshotTaken(h, n, snaps[m]) /\ snaps[m].height \in Nat /\ snaps[ks].height \in Nat
        BY <1>1, <2>1 DEF JournalOf
    <2>3. m = ks \/ m < ks
        BY <1>1, <1>5, <1>11
    <2>4. snaps[m].height <= snaps[ks].height
        <3>1. m < ks => snaps[m].height < snaps[ks].height
            BY <2>1 DEF JournalOf
        <3> QED BY <2>2, <2>3, <3>1
    <2>5. snaps[m].height <= height
        BY <1>5, <1>7, <2>2, <2>4
    <2>6. snaps[m].height - Base(h) <= t
        BY <1>1, <1>3, <2>2, <2>5
    <2>7. SnapshotTaken(h, t, snaps[m])
        BY <1>1, <1>3, <2>2, <2>6 DEF SnapshotTaken
    <2> QED BY <1>13, <2>1, <2>7
<1>15. \A l, m \in 1 .. Len(s) : l < m => s[l].height < s[m].height
    <2> SUFFICES ASSUME NEW l \in 1 .. Len(s), NEW m \in 1 .. Len(s), l < m
                 PROVE  s[l].height < s[m].height
        OBVIOUS
    <2>1. l \in 1 .. Len(snaps) /\ m \in 1 .. Len(snaps) /\ s[l] = snaps[l] /\ s[m] = snaps[m]
        BY <1>1, <1>5, <1>11
    <2> QED BY <2>1 DEF JournalOf
<1>16. DeltasReachTheSnapshot(g, t, s, d)
    <2>1. ASSUME NEW k \in 1 .. Len(d) PROVE d[k] = DeltaAt(g, t - Len(d) + k)
        <3>1. k \in 1 .. Len(dels) /\ k \in 1 .. kd /\ d[k] = dels[k]
            BY <1>1, <1>6, <1>12
        <3>2. d[k] = DeltaAt(h, n - Len(dels) + k)
            BY <1>9, <3>1
        <3>3. t - Len(d) + k = n - Len(dels) + k /\ t - Len(d) + k \in 1 .. t
            BY <1>1, <1>3, <1>9, <1>10, <1>12, <3>1
        <3> QED BY <1>13, <3>2, <3>3
    <2>2. s[1] = snaps[1]
        BY <1>1, <1>5, <1>7, <1>11
    <2>3. Len(d) <= t
        BY <1>1, <1>3, <1>9, <1>10, <1>12
    <2>4. /\ Base(h) + t - snaps[1].height <= Len(d)
          /\ Len(d) <= Base(h) + t - snaps[1].height + 1
        <3>1. Len(d) = t - n + Len(dels)
            BY <1>10, <1>12
        <3>2. /\ Base(h) \in Int /\ t \in Int /\ n \in Int /\ Len(dels) \in Int
              /\ snaps[1].height \in Int
            BY <1>1, <1>2, <1>3
        <3>3. /\ Base(h) + n - snaps[1].height <= Len(dels)
              /\ Len(dels) <= Base(h) + n - snaps[1].height + 1
            BY <1>9
        <3>4. \A b, x, m, l, c \in Int :
                  b + m - x <= l /\ l <= b + m - x + 1
                      => b + c - x <= c - m + l /\ c - m + l <= b + c - x + 1
            OBVIOUS
        <3>5. /\ Base(h) + t - snaps[1].height <= t - n + Len(dels)
              /\ t - n + Len(dels) <= Base(h) + t - snaps[1].height + 1
            BY <3>2, <3>3, <3>4
        <3> QED BY <3>1, <3>5
    <2> QED BY <1>13, <2>1, <2>2, <2>3, <2>4 DEF DeltasReachTheSnapshot
<1>17. JournalOf(g, t, s, d)
    <2>1. t \in 0 .. Len(g) /\ t > 0 /\ Len(s) > 0
        BY <1>1, <1>3, <1>4, <1>5, <1>7, <1>11
    <2>2. Len(s) = 0 <=> t = 0
        BY <2>1
    <2> QED BY <1>11, <1>12, <1>14, <1>15, <1>16, <2>1, <2>2 DEF JournalOf
<1> QED BY <1>3, <1>17 DEF t, g, ks, kd, s, d

----------------------------------------------------------------------------
(* The inductive invariant.                                                *)

Types ==
    /\ interval \in Nat \ {0} /\ max_depth \in Nat /\ served \subseteq Block
    /\ phase \in {"idle", "applied", "failed", "undoing", "replaying"}
    /\ recorded = Nothing \/ recorded \in [first : Nat, highest : Nat]

\* How many blocks of the active chain the journal has recorded: all, but the
\* newest while it is on its way to record.
InJournal == IF phase = "applied" THEN Len(history) - 1 ELSE Len(history)

\* The transparent half of the state after i blocks and the nullifiers of the
\* state after p, under the tip of the whole chain.
Mixture(i, p) ==
    [utxos      |-> After(history, i).utxos,
     utxo_index |-> After(history, i).utxo_index,
     nullifiers |-> After(history, p).nullifiers,
     tip        |-> Base(history) + Len(history)]

AcceptedTarget ==
    /\ Len(history) > 0 /\ target \in Nat
    /\ snapshots[1].height <= target /\ target < Base(history) + Len(history)

\* Between calls the state is that of the active chain.
SettledPart ==
    /\ Settled => state = After(history, Len(history))
    /\ phase = "applied" => Len(history) > 0 /\ delta = DeltaAt(history, Len(history))
    /\ phase = "failed" => Matching(state)

\* The undo loop has taken the nullifiers back to an earlier state, and what
\* is left to undo is what lies between that state and the target.
UndoingPart ==
    phase = "undoing" =>
        /\ AcceptedTarget
        /\ \E p \in 1 .. Len(history) :
               /\ target <= Base(history) + p
               /\ state = Mixture(Len(history), p)
               /\ to_undo = {k \in DOMAIN deltas : /\ target < deltas[k].height
                                                   /\ deltas[k].height <= Base(history) + p}

\* The replay loop has brought the transparent half forward to `step`.
ReplayingPart ==
    phase = "replaying" =>
        /\ AcceptedTarget
        /\ step \in snapshots[1].height .. target
        /\ state = Mixture(step - Base(history), target - Base(history))

\* The oldest snapshot is old enough.
ReachPart ==
    IF recorded = Nothing THEN InJournal = 0
    ELSE /\ InJournal > 0
         /\ snapshots[1].height <= recorded.first
            \/ snapshots[1].height <= recorded.highest - max_depth

\* All but the oldest snapshot are at boundaries, none between them is missing,
\* and the second is less than max_depth below the newest.
BoundaryPart ==
    /\ \A m \in 2 .. Len(snapshots) : snapshots[m].height % interval = 0
    /\ \A height \in Nat :
           /\ Len(snapshots) > 0 /\ snapshots[1].height < height
           /\ height <= Base(history) + InJournal /\ height % interval = 0
           => \E m \in 1 .. Len(snapshots) : snapshots[m].height = height
    /\ Len(snapshots) >= 2 =>
           snapshots[Len(snapshots)].height - snapshots[2].height < max_depth

ChainInv ==
    /\ Types
    /\ GoodHistory(history, options)
    /\ JournalOf(history, InJournal, snapshots, deltas)
    /\ SettledPart
    /\ UndoingPart
    /\ ReplayingPart
    /\ ReachPart
    /\ BoundaryPart

\* A block more does not disturb the journal of the blocks before it.
LEMMA JournalBeforeRecord ==
    ASSUME NEW h, NEW opts, GoodHistory(h, opts), NEW snaps, NEW dels,
           JournalOf(h, Len(h), snaps, dels),
           NEW g, Len(g) = Len(h) + 1, \A i \in 1 .. Len(h) : g[i] = h[i]
    PROVE  /\ JournalOf(g, Len(h), snaps, dels)
           /\ Len(h) > 0 => Base(g) = Base(h)
<1>1. /\ Len(h) \in Nat /\ Len(h) \in 0 .. Len(g)
      /\ Len(dels) \in Nat /\ Len(snaps) \in Nat
    BY Heights, JournalTypes
<1>2. CASE Len(h) = 0
    <2>1. Len(snaps) = 0 /\ Len(dels) = 0
        BY <1>1, <1>2 DEF JournalOf, DeltasReachTheSnapshot
    <2>2. DeltasReachTheSnapshot(g, Len(h), snaps, dels)
        BY <1>2, <2>1 DEF DeltasReachTheSnapshot
    <2> QED BY <1>1, <1>2, <2>1, <2>2 DEF JournalOf
<1>3. CASE Len(h) > 0
    <2>1. Len(h) \in 1 .. Len(h)
        BY <1>1, <1>3
    <2>2. /\ Base(g) = Base(h)
          /\ \A i \in 1 .. Len(h) : DeltaAt(g, i) = DeltaAt(h, i)
          /\ \A snapshot : SnapshotTaken(h, Len(h), snapshot)
                               => SnapshotTaken(g, Len(h), snapshot)
        BY <2>1, JournalOfPrefix
    <2>3. \A k \in 1 .. Len(dels) : Len(h) - Len(dels) + k \in 1 .. Len(h)
        BY JournalTypes
    <2>4. DeltasReachTheSnapshot(g, Len(h), snaps, dels)
        BY <2>2, <2>3 DEF DeltasReachTheSnapshot, JournalOf
    <2> QED BY <1>1, <2>2, <2>4 DEF JournalOf
<1> QED BY <1>1, <1>2, <1>3

\* A new follower, however it was configured.
LEMMA FreshFollower ==
    ASSUME Fresh, Types
    PROVE  ChainInv
<1>1. history = <<>> /\ snapshots = <<>> /\ deltas = <<>> /\ phase = "idle"
    BY DEF Fresh
<1>2. /\ Len(history) = 0 /\ Len(snapshots) = 0 /\ Len(deltas) = 0
      /\ history \in Seq(HistoryEntry) /\ snapshots \in Seq(SnapshotRecord)
      /\ deltas \in Seq(DeltaRecord)
    BY <1>1, EmptySeq
<1>3. GoodHistory(history, options)
    <2>1. StateIsSum(history, 0)
        <3>1. After(history, 0) = NewState
            BY DEF After
        <3>2. /\ CreatedUpTo(history, 0) = {} /\ SpentUpTo(history, 0) = {}
              /\ \A p : RevealedUpTo(history, 0, p) = {}
            BY DEF CreatedUpTo, SpentUpTo, RevealedUpTo
        <3>3. \A p \in Pool : Range(NewState.nullifiers[p]) = {}
            BY EmptyRange DEF NewState
        <3>4. DOMAIN NewState.utxo_index = {} /\ NewState.utxos.live = {}
            BY DEF NewState, EmptyForest
        <3>5. Matching(NewState)
            BY <3>4 DEF Matching
        <3> QED BY <3>1, <3>2, <3>3, <3>4, <3>5 DEF StateIsSum
    <2> QED BY <1>2, <2>1 DEF GoodHistory
<1>4. JournalOf(history, 0, snapshots, deltas)
    BY <1>2 DEF JournalOf, DeltasReachTheSnapshot
<1>5. InJournal = 0
    BY <1>1, <1>2 DEF InJournal
<1>6. SettledPart
    BY <1>1, <1>2 DEF SettledPart, Settled, After, Fresh
<1>7. UndoingPart /\ ReplayingPart
    BY <1>1 DEF UndoingPart, ReplayingPart
<1>8. ReachPart
    BY <1>5 DEF ReachPart, Fresh
<1>9. BoundaryPart
    BY <1>2 DEF BoundaryPart
<1> QED BY <1>3, <1>4, <1>5, <1>6, <1>7, <1>8, <1>9 DEF ChainInv

\* A new follower.
LEMMA InvariantHoldsInitially ==
    ASSUME Init
    PROVE  ChainInv
<1>1. Types
    <2>1. PICK f \in Followers :
              /\ interval = Max({f.interval, 1}) /\ max_depth = f.max_depth
              /\ options = f.options /\ served = f.served
        BY DEF Init
    <2>2. f.interval \in Nat /\ f.max_depth \in Nat /\ f.served \subseteq Block
        BY FollowersAssumption DEF Follower
    <2>3. interval \in Nat \ {0}
        BY <2>1, <2>2, MaxOfTwo
    <2> QED BY <2>1, <2>2, <2>3 DEF Init, Fresh, Types
<1> QED BY <1>1, FreshFollower DEF Init

\* What a step that leaves the history and the journal alone need not show again.
LEMMA JournalUntouched ==
    ASSUME ChainInv, UNCHANGED <<config, journal, ghosts>>,
           phase # "applied", phase' # "applied",
           phase' \in {"idle", "applied", "failed", "undoing", "replaying"},
           SettledPart', UndoingPart', ReplayingPart'
    PROVE  ChainInv'
<1>1. /\ interval' = interval /\ max_depth' = max_depth /\ options' = options
      /\ served' = served /\ snapshots' = snapshots /\ deltas' = deltas
      /\ history' = history /\ recorded' = recorded
    BY DEF config, journal, ghosts
<1>2. InJournal' = InJournal
    BY <1>1 DEF InJournal
<1>3. Types'
    BY <1>1 DEF ChainInv, Types
<1>4. GoodHistory(history, options)' /\ JournalOf(history, InJournal, snapshots, deltas)'
    BY <1>1, <1>2 DEF ChainInv
<1>5. ReachPart'
    BY <1>1, <1>2 DEF ChainInv, ReachPart
<1>6. BoundaryPart'
    BY <1>1, <1>2 DEF ChainInv, BoundaryPart
<1> QED BY <1>3, <1>4, <1>5, <1>6 DEF ChainInv

\* A step that changes nothing.
LEMMA NothingChanges ==
    ASSUME ChainInv, UNCHANGED vars
    PROVE  ChainInv'
<1>1. /\ UNCHANGED <<interval, max_depth, options, served>>
      /\ UNCHANGED <<state, snapshots, deltas, phase, delta>>
      /\ UNCHANGED <<target, to_undo, step, history, recorded>>
    BY DEF vars, config, journal, loop, ghosts
<1>2. InJournal' = InJournal /\ \A i, p : Mixture(i, p)' = Mixture(i, p)
    BY <1>1 DEF InJournal, Mixture
<1>3. Types' /\ GoodHistory(history, options)'
    BY <1>1 DEF ChainInv, Types
<1>4. JournalOf(history, InJournal, snapshots, deltas)'
    BY <1>1, <1>2 DEF ChainInv
<1>5. SettledPart' /\ UndoingPart' /\ ReplayingPart'
    BY <1>1, <1>2
       DEF ChainInv, SettledPart, Settled, UndoingPart, ReplayingPart, AcceptedTarget
<1>6. ReachPart' /\ BoundaryPart'
    BY <1>1, <1>2 DEF ChainInv, ReachPart, BoundaryPart
<1> QED BY <1>3, <1>4, <1>5, <1>6 DEF ChainInv

\* A block applied whole makes the history longer.
LEMMA ApplyBlockKeepsInvariant ==
    ASSUME ChainInv, NEW block \in BlockSummary, ApplyBlock(block)
    PROVE  ChainInv'
<1> DEFINE entry == [block |-> block, state |-> Applied(state, block)]
           n == Len(history)
<1>1. /\ phase = "idle" /\ phase' = "applied"
      /\ history' = Append(history, entry)
      /\ interval' = interval /\ max_depth' = max_depth /\ options' = options
      /\ served' = served /\ snapshots' = snapshots /\ deltas' = deltas
      /\ recorded' = recorded
      /\ state = After(history, n) /\ n \in Nat
    <2>1. state = After(history, n)
        BY DEF ChainInv, SettledPart, Settled, ApplyBlock
    <2>2. n \in Nat
        BY Heights DEF ChainInv
    <2> QED BY <2>1, <2>2 DEF ApplyBlock, config, journal, ChainInv, Types
<1>2. /\ GoodHistory(history', options)
      /\ Len(history') = n + 1
      /\ history'[n + 1] = entry
      /\ \A i \in 1 .. n : history'[i] = history[i]
    <2>1. FreshFor(history, block)
        BY DEF ApplyBlock, CreatesFreshOutputs, FreshFor
    <2>2. /\ PassesStaging(After(history, n), block, options)
          /\ ForestHolds(After(history, n), SpentLeaves(After(history, n), block))
        BY <1>1 DEF ApplyBlock
    <2> QED BY <1>1, <2>1, <2>2, GoodAppend DEF ChainInv
<1>3. InJournal = n /\ InJournal' = n
    BY <1>1, <1>2 DEF InJournal
<1>4. /\ JournalOf(history', n, snapshots, deltas)
      /\ n > 0 => Base(history') = Base(history)
    BY <1>2, <1>3, JournalBeforeRecord DEF ChainInv
<1>5. SettledPart'
    <2>1. After(history', n + 1) = Applied(state, block)
        BY <1>1, <1>2 DEF After
    <2>2. DeltaAt(history', n + 1) = Delta(state, block)
        <3>1. After(history', n) = state
            BY <1>1, <1>2 DEF After
        <3>2. BlockAt(history', n + 1) = block
            BY <1>2 DEF BlockAt
        <3>3. (n + 1) - 1 = n
            BY <1>1
        <3> QED BY <3>1, <3>2, <3>3 DEF DeltaAt
    <2> QED BY <1>1, <1>2, <2>1, <2>2 DEF SettledPart, Settled, ApplyBlock
<1>6. UndoingPart' /\ ReplayingPart' /\ Types'
    BY <1>1 DEF UndoingPart, ReplayingPart, Types, ChainInv
<1>7. ReachPart'
    BY <1>1, <1>3 DEF ChainInv, ReachPart
<1>8. BoundaryPart'
    <2>1. Len(snapshots) > 0 => n > 0
        BY <1>1, <1>3 DEF ChainInv, JournalOf
    <2>2. n > 0 => Base(history') = Base(history)
        BY <1>4
    <2>3. BoundaryPart
        BY DEF ChainInv
    <2>4. Len(snapshots) \in Nat
        BY JournalTypes DEF ChainInv
    <2>5. CASE Len(snapshots) > 0
        BY <1>1, <1>3, <2>1, <2>2, <2>3, <2>5 DEF BoundaryPart
    <2>6. CASE Len(snapshots) = 0
        BY <1>1, <2>6 DEF BoundaryPart
    <2> QED BY <2>4, <2>5, <2>6
<1> QED BY <1>1, <1>2, <1>3, <1>4, <1>5, <1>6, <1>7, <1>8 DEF ChainInv

\* A block that fails halfway stops the follower: nothing is claimed after it.
LEMMA ApplyBlockFailsKeepsInvariant ==
    ASSUME ChainInv, NEW block \in served, ApplyBlockFails(block)
    PROVE  ChainInv'
<1>1. Matching(state')
    <2>1. state = After(history, Len(history))
        BY DEF ChainInv, SettledPart, Settled, ApplyBlockFails
    <2>2. /\ history \in Seq(HistoryEntry) /\ Len(history) \in Nat
          /\ StateIsSum(history, Len(history))
        BY Heights DEF ChainInv, GoodHistory
    <2>3. Len(history) \in 0 .. Len(history)
        BY <2>2
    <2>4. state \in State /\ block \in BlockSummary /\ Matching(state)
        BY <2>1, <2>2, <2>3, HistoryType, BlockAssumption DEF StateIsSum, ChainInv, Types
    <2>5. Range(block.transparent_creates) \cap DOMAIN state.utxo_index = {}
        <3>1. FreshFor(history, block)
            BY DEF ApplyBlockFails, CreatesFreshOutputs, FreshFor
        <3>2. Range(block.transparent_creates) \cap CreatedUpTo(history, Len(history)) = {}
            BY <2>2, <3>1, FreshOutputs
        <3> QED BY <2>1, <2>2, <3>2 DEF StateIsSum
    <2>6. Matching(WithTransparent(state, Delta(state, block)))
        BY <2>4, <2>5, TransparentFacts
    <2>7. /\ state'.utxos = WithTransparent(state, Delta(state, block)).utxos
          /\ state'.utxo_index = WithTransparent(state, Delta(state, block)).utxo_index
        <3> DEFINE next == WithTransparent(state, Delta(state, block))
        <3>1. next \in State
            BY <2>4, <2>5, TransparentFacts
        <3>2. PICK taken : state' = [next EXCEPT !.nullifiers = taken]
            BY DEF ApplyBlockFails, HalfApplied
        <3> HIDE DEF next
        <3>3. DOMAIN next = {"utxos", "utxo_index", "nullifiers", "tip"}
            BY <3>1 DEF State
        <3>4. state'.utxos = next.utxos /\ state'.utxo_index = next.utxo_index
            BY <3>2, <3>3
        <3> QED BY <3>4 DEF next
    <2> QED BY <2>6, <2>7 DEF Matching
<1>2. SettledPart' /\ UndoingPart' /\ ReplayingPart'
    BY <1>1 DEF ApplyBlockFails, SettledPart, Settled, UndoingPart, ReplayingPart
<1> QED BY <1>2, JournalUntouched DEF ApplyBlockFails

----------------------------------------------------------------------------
(* Steps of rollback_to.                                                   *)

\* Outside a record, the delta at a height is the one of the block there, in
\* order, and there is one for each height above the oldest snapshot.
LEMMA DeltasByHeight ==
    ASSUME ChainInv, phase # "applied", Len(history) > 0
    PROVE  /\ Base(history) \in Int /\ Len(history) \in Nat
           /\ DOMAIN deltas \subseteq Nat
           /\ \A k \in DOMAIN deltas :
                  /\ deltas[k].height - Base(history) \in 1 .. Len(history)
                  /\ deltas[k].height \in Nat
                  /\ deltas[k] = DeltaAt(history, deltas[k].height - Base(history))
           /\ \A j, k \in DOMAIN deltas : j <= k <=> deltas[j].height <= deltas[k].height
           /\ \A p \in 1 .. Len(history) :
                  snapshots[1].height < Base(history) + p =>
                      \E k \in DOMAIN deltas : deltas[k].height = Base(history) + p
<1> DEFINE n == Len(history)
           l == Len(deltas)
<1>1. JournalOf(history, n, snapshots, deltas)
    BY DEF ChainInv, InJournal
<1>2. /\ n \in Nat /\ l \in Nat /\ Len(snapshots) \in Nat /\ Base(history) \in Int
      /\ \A k \in 1 .. l : /\ n - l + k \in 1 .. n
                           /\ deltas[k].height = Base(history) + n - l + k
    <2>1. GoodHistory(history, options)
        BY DEF ChainInv
    <2> QED BY <1>1, <2>1, JournalTypes, Heights
<1>3. DOMAIN deltas = 1 .. l
    BY <1>1, LenProperties DEF JournalOf
<1>4. ASSUME NEW k \in 1 .. l
      PROVE  /\ deltas[k].height - Base(history) = n - l + k
             /\ deltas[k].height \in Nat
             /\ deltas[k] = DeltaAt(history, n - l + k)
    <2>1. deltas[k].height = Base(history) + n - l + k
        BY <1>2
    <2>2. deltas[k] \in DeltaRecord
        BY <1>1 DEF JournalOf
    <2>3. deltas[k] = DeltaAt(history, n - l + k)
        BY <1>1 DEF JournalOf, DeltasReachTheSnapshot
    <2> HIDE DEF n, l
    <2> QED BY <1>2, <2>1, <2>2, <2>3 DEF DeltaRecord
<1>5. ASSUME NEW j \in 1 .. l, NEW k \in 1 .. l
      PROVE  j <= k <=> deltas[j].height <= deltas[k].height
    <2>1. /\ deltas[j].height = Base(history) + n - l + j
          /\ deltas[k].height = Base(history) + n - l + k
        BY <1>2
    <2> HIDE DEF n, l
    <2> QED BY <1>2, <2>1, SMTT(40)
<1>6. ASSUME NEW p \in 1 .. n, snapshots[1].height < Base(history) + p
      PROVE  \E k \in 1 .. l : deltas[k].height = Base(history) + p
    <2>1. Base(history) + n - snapshots[1].height <= l
        BY <1>1 DEF JournalOf, DeltasReachTheSnapshot
    <2>2. snapshots[1].height \in Nat
        <3>1. Len(snapshots) > 0
            BY <1>1, <1>2 DEF JournalOf
        <3>2. 1 \in 1 .. Len(snapshots)
            BY <1>2, <3>1
        <3> QED BY <1>1, <3>2, JournalTypes DEF ChainInv
    <2> DEFINE k == p - n + l
    <2>3. k \in 1 .. l
        <3> HIDE DEF n, l
        <3> QED BY <1>2, <1>6, <2>1, <2>2
    <2>4. deltas[k].height = Base(history) + n - l + k
        BY <1>2, <2>3
    <2>5. Base(history) + n - l + k = Base(history) + p
        <3> HIDE DEF n, l
        <3> QED BY <1>2
    <2> QED BY <2>3, <2>4, <2>5
<1>7. \A k \in 1 .. l :
          /\ deltas[k].height - Base(history) \in 1 .. n
          /\ deltas[k].height \in Nat
          /\ deltas[k] = DeltaAt(history, deltas[k].height - Base(history))
    <2> TAKE k \in 1 .. l
    <2>1. n - l + k \in 1 .. n
        BY <1>2
    <2> QED BY <1>4, <2>1
<1> HIDE DEF l
<1>8. DOMAIN deltas \subseteq Nat
    BY <1>2, <1>3
<1>9. \A j, k \in DOMAIN deltas : j <= k <=> deltas[j].height <= deltas[k].height
    BY <1>3, <1>5
<1>10. \A p \in 1 .. n : snapshots[1].height < Base(history) + p =>
           \E k \in DOMAIN deltas : deltas[k].height = Base(history) + p
    BY <1>3, <1>6
<1>11. \A k \in DOMAIN deltas :
          /\ deltas[k].height - Base(history) \in 1 .. n
          /\ deltas[k].height \in Nat
          /\ deltas[k] = DeltaAt(history, deltas[k].height - Base(history))
    BY <1>3, <1>7
<1> QED BY <1>2, <1>8, <1>9, <1>10, <1>11

\* The snapshots outside a record: transparent halves of states of the history.
LEMMA SnapshotsByHeight ==
    ASSUME ChainInv, phase # "applied", Len(history) > 0
    PROVE  /\ 1 \in DOMAIN snapshots /\ DOMAIN snapshots \subseteq Nat
           /\ \A m \in DOMAIN snapshots :
                  /\ snapshots[m].height \in Nat
                  /\ snapshots[1].height <= snapshots[m].height
                  /\ snapshots[m].height - Base(history) \in 1 .. Len(history)
                  /\ LET i == snapshots[m].height - Base(history)
                     IN  /\ snapshots[m].utxos = After(history, i).utxos
                         /\ snapshots[m].utxo_index = After(history, i).utxo_index
<1>1. /\ GoodHistory(history, options)
      /\ JournalOf(history, Len(history), snapshots, deltas)
    BY DEF ChainInv, InJournal
<1>2. /\ Len(snapshots) \in Nat /\ Len(history) \in Nat
      /\ DOMAIN snapshots = 1 .. Len(snapshots)
      /\ \A m \in 1 .. Len(snapshots) : snapshots[m].height \in Nat
    BY <1>1, JournalTypes, LenProperties DEF JournalOf
<1>3. 1 \in 1 .. Len(snapshots)
    BY <1>1, <1>2 DEF JournalOf
<1>4. ASSUME NEW m \in 1 .. Len(snapshots)
      PROVE  snapshots[1].height <= snapshots[m].height
    <2>1. m = 1 \/ snapshots[1].height < snapshots[m].height
        BY <1>1, <1>3, <1>2 DEF JournalOf
    <2> QED BY <1>2, <1>3, <2>1
<1>5. ASSUME NEW m \in 1 .. Len(snapshots)
      PROVE  /\ snapshots[m].height - Base(history) \in 1 .. Len(history)
             /\ LET i == snapshots[m].height - Base(history)
                IN  /\ snapshots[m].utxos = After(history, i).utxos
                    /\ snapshots[m].utxo_index = After(history, i).utxo_index
    <2> DEFINE i == snapshots[m].height - Base(history)
    <2>1. /\ i \in 1 .. Len(history)
          /\ snapshots[m].utxos = history[i].state.utxos
          /\ snapshots[m].utxo_index = history[i].state.utxo_index
        BY <1>1 DEF JournalOf, SnapshotTaken
    <2>2. After(history, i) = history[i].state
        BY <1>2, <2>1 DEF After
    <2> QED BY <2>1, <2>2
<1> QED BY <1>2, <1>3, <1>4, <1>5

\* A rollback that starts is one the journal reaches.
LEMMA RollbackToKeepsInvariant ==
    ASSUME ChainInv, NEW height \in 0 .. state.tip, RollbackTo(height)
    PROVE  ChainInv'
<1> DEFINE n == Len(history)
<1>1. /\ state = After(history, n) /\ GoodHistory(history, options)
      /\ JournalOf(history, n, snapshots, deltas)
    BY DEF ChainInv, SettledPart, Settled, InJournal, RollbackTo
<1>2. n \in Nat /\ Len(snapshots) \in Nat
    BY <1>1, JournalTypes
<1>3. n > 0
    <2>1. snapshots \in Seq(SnapshotRecord) /\ snapshots # <<>>
        BY <1>1 DEF JournalOf, RollbackTo
    <2>2. Len(snapshots) # 0
        BY <2>1, EmptySeq
    <2> QED BY <1>1, <1>2, <2>2 DEF JournalOf
<1>4. /\ n \in 1 .. n /\ Base(history) \in Int /\ state \in State
      /\ state.tip = Base(history) + n
    <2>1. n \in 1 .. n /\ n \in 0 .. n
        BY <1>2, <1>3
    <2>2. Base(history) \in Int /\ After(history, n).tip = Base(history) + n
        BY <1>1, <1>3, <2>1, Heights
    <2>3. After(history, n) \in State
        BY <1>1, <2>1, HistoryType DEF GoodHistory
    <2> QED BY <1>1, <2>1, <2>2, <2>3
<1>5. AcceptedTarget'
    <2>1. height \in Nat
        BY <1>2, <1>4
    <2> QED BY <1>3, <1>4, <2>1 DEF AcceptedTarget, RollbackTo, journal, ghosts
<1>6. state = Mixture(n, n)
    <2>1. state = [utxos |-> state.utxos, utxo_index |-> state.utxo_index,
                   nullifiers |-> state.nullifiers, tip |-> state.tip]
        BY <1>4 DEF State
    <2> QED BY <1>1, <1>4, <2>1 DEF Mixture
<1>7. to_undo' = {k \in DOMAIN deltas' : /\ target' < deltas'[k].height
                                         /\ deltas'[k].height <= Base(history') + n}
    <2>1. \A k \in DOMAIN deltas : deltas[k].height <= Base(history) + n
                                     /\ deltas[k].height \in Nat
        <3> TAKE k \in DOMAIN deltas
        <3>1. deltas[k].height - Base(history) \in 1 .. n /\ deltas[k].height \in Nat
            BY <1>3, DeltasByHeight DEF RollbackTo
        <3> QED BY <1>2, <1>4, <3>1
    <2>2. height \in Int
        BY <1>2, <1>4
    <2>3. /\ to_undo' = {k \in DOMAIN deltas : deltas[k].height > height}
          /\ target' = height /\ deltas' = deltas /\ history' = history
        BY DEF RollbackTo, journal, ghosts
    <2> QED BY <2>1, <2>2, <2>3
<1>8. UndoingPart'
    <2>1. history' = history /\ state' = state
        BY DEF RollbackTo, ghosts
    <2>2. target' <= Base(history) + n
        BY <1>4, <1>5, <2>1 DEF AcceptedTarget
    <2>3. Mixture(n, n)' = Mixture(n, n)
        BY <2>1 DEF Mixture
    <2> QED BY <1>4, <1>5, <1>6, <1>7, <2>1, <2>2, <2>3 DEF UndoingPart
<1>9. SettledPart' /\ ReplayingPart'
    BY DEF RollbackTo, SettledPart, Settled, ReplayingPart
<1> QED BY <1>8, <1>9, JournalUntouched DEF RollbackTo

\* undo_insert takes back what insert_batch has put at the end.
LEMMA UndoneInsertion ==
    ASSUME NEW S, NEW s \in Seq(S), NEW newest \in Seq(S)
    PROVE  /\ EndsWith(s \o newest, newest)
           /\ SubSeq(s \o newest, 1, Len(s \o newest) - Len(newest)) = s
<1> DEFINE t == s \o newest
           n == Len(s)
           m == Len(newest)
           front == SubSeq(t, 1, n)
           back == SubSeq(t, n + 1, n + m)
<1>1. /\ n \in Nat /\ m \in Nat /\ Len(t) = n + m
      /\ \A i \in 1 .. n + m : t[i] \in S /\ t[i] = IF i <= n THEN s[i] ELSE newest[i - n]
    <2>1. t \in Seq(S) /\ Len(t) = n + m
        BY ConcatProperties
    <2> QED BY <2>1, ConcatProperties, LenProperties
<1> HIDE DEF t, n, m
<1>2. /\ front \in Seq(S) /\ Len(front) = n
      /\ \A i \in 1 .. n : front[i] = t[i]
    <2>1. \A i \in 1 .. n : t[i] \in S
        BY <1>1
    <2> QED BY <1>1, <2>1, SubSeqProperties
<1>3. front = s
    <2> HIDE DEF front
    <2>1. \A i \in 1 .. Len(front) : front[i] = s[i]
        BY <1>1, <1>2
    <2> QED BY <1>2, <2>1, SeqEqual DEF n
<1>4. /\ back \in Seq(S) /\ Len(back) = m
      /\ \A i \in 1 .. m : back[i] = t[n + 1 + i - 1]
    <2>1. \A i \in n + 1 .. n + m : t[i] \in S
        BY <1>1
    <2>2. /\ back \in Seq(S)
          /\ Len(back) = IF n + 1 <= n + m THEN (n + m) - (n + 1) + 1 ELSE 0
          /\ \A i \in 1 .. (n + m) - (n + 1) + 1 : back[i] = t[n + 1 + i - 1]
        BY <1>1, <2>1, SubSeqProperties
    <2> HIDE DEF back
    <2> QED BY <1>1, <2>2
<1>5. back = newest
    <2> HIDE DEF back
    <2>1. \A i \in 1 .. Len(back) : back[i] = newest[i]
        <3> TAKE i \in 1 .. Len(back)
        <3>1. i \in 1 .. m /\ n + 1 + i - 1 = n + i /\ n + i \in 1 .. n + m
                /\ ~(n + i <= n) /\ n + i - n = i
            BY <1>1, <1>4
        <3> QED BY <1>1, <1>4, <3>1
    <2> QED BY <1>4, <2>1, SeqEqual DEF m
<1>6. m <= Len(t) /\ Len(t) - m + 1 = n + 1 /\ Len(t) = n + m /\ Len(t) - m = n
    BY <1>1
<1>7. EndsWith(t, newest)
    BY <1>5, <1>6 DEF EndsWith, m
<1>8. SubSeq(t, 1, Len(t) - m) = s
    BY <1>3, <1>6
<1> QED BY <1>7, <1>8 DEF t, m

\* The newest delta still to undo is the delta of the state the nullifiers are
\* at, and undoing it takes them to the state before.
LEMMA NewestToUndo ==
    ASSUME ChainInv, phase = "undoing", NEW k \in to_undo, \A j \in to_undo : j <= k
    PROVE  \E p \in 2 .. Len(history) :
               /\ target < Base(history) + p
               /\ state = Mixture(Len(history), p)
               /\ to_undo = {j \in DOMAIN deltas : /\ target < deltas[j].height
                                                   /\ deltas[j].height <= Base(history) + p}
               /\ deltas[k].height = Base(history) + p
               /\ UndoFits(k)
               /\ [q \in Pool |-> SubSeq(state.nullifiers[q], 1,
                          Len(state.nullifiers[q]) - Len(deltas[k].insertions[q]))]
                      = After(history, p - 1).nullifiers
<1> DEFINE n == Len(history)
<1>1. PICK p \in 1 .. n :
          /\ AcceptedTarget
          /\ target <= Base(history) + p
          /\ state = Mixture(n, p)
          /\ to_undo = {j \in DOMAIN deltas : /\ target < deltas[j].height
                                              /\ deltas[j].height <= Base(history) + p}
    BY DEF ChainInv, UndoingPart
<1>2. /\ target \in Nat /\ n > 0 /\ snapshots[1].height <= target
      /\ Base(history) \in Int /\ n \in Nat
    BY <1>1, DeltasByHeight DEF AcceptedTarget
<1>3. /\ snapshots[1].height \in Nat /\ snapshots[1].height - Base(history) >= 1
    <2>1. 1 \in DOMAIN snapshots
        BY <1>2, SnapshotsByHeight
    <2>2. snapshots[1].height \in Nat /\ snapshots[1].height - Base(history) \in 1 .. n
        BY <1>2, <2>1, SnapshotsByHeight
    <2> QED BY <1>2, <2>2
<1>4. k \in DOMAIN deltas /\ target < deltas[k].height /\ deltas[k].height <= Base(history) + p
    BY <1>1
<1>5. deltas[k].height \in Nat /\ target < Base(history) + p
    <2>1. deltas[k].height \in Nat
        BY <1>2, <1>4, DeltasByHeight
    <2> QED BY <1>2, <1>4, <2>1
<1>6. deltas[k].height = Base(history) + p
    <2>1. PICK j \in DOMAIN deltas : deltas[j].height = Base(history) + p
        <3>1. snapshots[1].height < Base(history) + p
            BY <1>2, <1>3, <1>5
        <3> QED BY <1>2, <3>1, DeltasByHeight
    <2>2. j \in to_undo
        BY <1>1, <1>2, <1>5, <2>1
    <2>3. deltas[j].height <= deltas[k].height
        BY <1>2, <1>4, <2>1, <2>2, DeltasByHeight
    <2> QED BY <1>2, <1>4, <1>5, <2>1, <2>3
<1>7. p \in 2 .. n /\ p - 1 \in 0 .. n /\ p \in 0 .. n
    BY <1>2, <1>3, <1>5
<1>8. deltas[k].insertions = BlockAt(history, p).nullifiers
    <2>1. deltas[k] = DeltaAt(history, p)
        <3>1. deltas[k].height - Base(history) = p
            BY <1>2, <1>6
        <3>2. deltas[k] = DeltaAt(history, deltas[k].height - Base(history))
            BY <1>2, <1>4, DeltasByHeight
        <3> QED BY <3>1, <3>2
    <2> QED BY <2>1 DEF DeltaAt, Delta
<1>9. /\ BlockAt(history, p).nullifiers \in [Pool -> Seq(Value)]
      /\ After(history, p - 1).nullifiers \in [Pool -> Seq(Value)]
      /\ \A q \in Pool : After(history, p).nullifiers[q]
             = After(history, p - 1).nullifiers[q] \o BlockAt(history, p).nullifiers[q]
    <2>1. history \in Seq(HistoryEntry) /\ EntryApplied(history, p, options)
        BY DEF ChainInv, GoodHistory
    <2>2. BlockAt(history, p) \in BlockSummary /\ After(history, p - 1) \in State
        BY <1>7, <2>1, HistoryType
    <2> QED BY <2>1, <2>2, BlockType DEF EntryApplied, State
<1>10. state.nullifiers = After(history, p).nullifiers
    BY <1>1 DEF Mixture
<1>11. ASSUME NEW q \in Pool
       PROVE  /\ EndsWith(state.nullifiers[q], deltas[k].insertions[q])
              /\ SubSeq(state.nullifiers[q], 1,
                        Len(state.nullifiers[q]) - Len(deltas[k].insertions[q]))
                     = After(history, p - 1).nullifiers[q]
    <2>1. /\ After(history, p - 1).nullifiers[q] \in Seq(Value)
          /\ BlockAt(history, p).nullifiers[q] \in Seq(Value)
          /\ state.nullifiers[q] = After(history, p - 1).nullifiers[q]
                                       \o BlockAt(history, p).nullifiers[q]
        BY <1>9, <1>10
    <2> DEFINE x == After(history, p - 1).nullifiers[q]
               y == BlockAt(history, p).nullifiers[q]
    <2>2. EndsWith(x \o y, y) /\ SubSeq(x \o y, 1, Len(x \o y) - Len(y)) = x
        BY <2>1, UndoneInsertion
    <2>3. state.nullifiers[q] = x \o y /\ deltas[k].insertions[q] = y
        BY <1>8, <2>1
    <2> HIDE DEF x, y
    <2>4. /\ EndsWith(state.nullifiers[q], deltas[k].insertions[q])
          /\ SubSeq(state.nullifiers[q], 1,
                    Len(state.nullifiers[q]) - Len(deltas[k].insertions[q])) = x
        BY <2>2, <2>3
    <2> QED BY <2>4 DEF x
<1>12. [q \in Pool |-> SubSeq(state.nullifiers[q], 1,
               Len(state.nullifiers[q]) - Len(deltas[k].insertions[q]))]
           = After(history, p - 1).nullifiers
    BY <1>9, <1>11
<1> QED BY <1>1, <1>5, <1>6, <1>7, <1>11, <1>12 DEF UndoFits

\* A delta undone takes the nullifier trees one block back.
LEMMA UndoDeltaKeepsInvariant ==
    ASSUME ChainInv, NEW k \in DOMAIN deltas, UndoDelta(k)
    PROVE  ChainInv'
<1> DEFINE n == Len(history)
<1>1. PICK p \in 2 .. n :
          /\ target < Base(history) + p
          /\ state = Mixture(n, p)
          /\ to_undo = {j \in DOMAIN deltas : /\ target < deltas[j].height
                                              /\ deltas[j].height <= Base(history) + p}
          /\ deltas[k].height = Base(history) + p
          /\ [q \in Pool |-> SubSeq(state.nullifiers[q], 1,
                     Len(state.nullifiers[q]) - Len(deltas[k].insertions[q]))]
                 = After(history, p - 1).nullifiers
    BY NewestToUndo DEF UndoDelta
<1>2. /\ phase = "undoing" /\ phase' = "undoing" /\ history' = history
      /\ deltas' = deltas /\ snapshots' = snapshots /\ target' = target
    BY DEF UndoDelta, journal, ghosts
<1>3. /\ AcceptedTarget /\ target \in Nat /\ Base(history) \in Int /\ n \in Nat
    BY <1>2, DeltasByHeight DEF ChainInv, UndoingPart, AcceptedTarget
<1>4. state' = Mixture(n, p - 1)'
    <2>1. state' = [state EXCEPT !.nullifiers = After(history, p - 1).nullifiers]
        BY <1>1 DEF UndoDelta
    <2>2. Mixture(n, p - 1)' = Mixture(n, p - 1)
        BY <1>2 DEF Mixture
    <2> QED BY <1>1, <2>1, <2>2 DEF Mixture
<1>5. to_undo' = {j \in DOMAIN deltas : /\ target < deltas[j].height
                                        /\ deltas[j].height <= Base(history) + (p - 1)}
    <2>1. to_undo' = to_undo \ {k}
        BY DEF UndoDelta
    <2>2. ASSUME NEW j \in DOMAIN deltas
          PROVE  deltas[j].height <= Base(history) + p /\ j # k
                     <=> deltas[j].height <= Base(history) + (p - 1)
        <3>1. /\ deltas[j].height \in Nat /\ j \in Nat /\ k \in Nat
              /\ j <= k <=> deltas[j].height <= deltas[k].height
              /\ k <= j <=> deltas[k].height <= deltas[j].height
            BY <1>2, <1>3, DeltasByHeight DEF AcceptedTarget
        <3>2. p \in Int
            BY <1>1
        <3> QED BY <1>1, <1>3, <3>1, <3>2
    <2> QED BY <1>1, <2>1, <2>2
<1>6. p - 1 \in 1 .. n /\ target <= Base(history) + (p - 1)
    BY <1>1, <1>3
<1>7. AcceptedTarget'
    BY <1>2, <1>3 DEF AcceptedTarget
<1>8. UndoingPart'
    BY <1>2, <1>4, <1>5, <1>6, <1>7 DEF UndoingPart
<1>9. SettledPart' /\ ReplayingPart'
    BY <1>2 DEF SettledPart, Settled, ReplayingPart
<1> QED BY <1>2, <1>8, <1>9, JournalUntouched DEF UndoDelta

\* A snapshot restored takes the forest and the index to its height.
LEMMA RestoreSnapshotKeepsInvariant ==
    ASSUME ChainInv, NEW base \in DOMAIN snapshots, RestoreSnapshot(base)
    PROVE  ChainInv'
<1> DEFINE n == Len(history)
           t == target - Base(history)
           i == snapshots[base].height - Base(history)
<1>1. PICK p \in 1 .. n :
          /\ AcceptedTarget
          /\ target <= Base(history) + p
          /\ state = Mixture(n, p)
          /\ to_undo = {k \in DOMAIN deltas : /\ target < deltas[k].height
                                              /\ deltas[k].height <= Base(history) + p}
    BY DEF ChainInv, UndoingPart, RestoreSnapshot
<1>2. /\ target \in Nat /\ n > 0 /\ snapshots[1].height <= target
      /\ Base(history) \in Int /\ n \in Nat
      /\ phase = "undoing" /\ phase' = "replaying" /\ to_undo = {}
    BY <1>1, DeltasByHeight DEF AcceptedTarget, RestoreSnapshot
<1>3. /\ history' = history /\ snapshots' = snapshots /\ target' = target
      /\ step' = snapshots[base].height
    BY DEF RestoreSnapshot, journal, ghosts
<1>4. /\ snapshots[base].height \in Nat /\ snapshots[1].height \in Nat
      /\ snapshots[1].height <= snapshots[base].height
      /\ i \in 1 .. n
      /\ snapshots[base].utxos = After(history, i).utxos
      /\ snapshots[base].utxo_index = After(history, i).utxo_index
    BY <1>2, SnapshotsByHeight
<1>5. p = t
    <2> SUFFICES ASSUME target < Base(history) + p PROVE FALSE
        BY <1>1, <1>2
    <2>1. snapshots[1].height < Base(history) + p
        BY <1>2, <1>4
    <2>2. PICK k \in DOMAIN deltas : deltas[k].height = Base(history) + p
        BY <1>2, <2>1, DeltasByHeight
    <2>3. k \in to_undo
        BY <1>1, <1>2, <2>2
    <2> QED BY <1>2, <2>3
<1>6. state' = Mixture(step - Base(history), target - Base(history))'
    <2>1. state' = [state EXCEPT !.utxos = After(history, i).utxos,
                                 !.utxo_index = After(history, i).utxo_index]
        BY <1>4 DEF RestoreSnapshot
    <2>2. Mixture(step - Base(history), target - Base(history))' = Mixture(i, t)
        BY <1>3 DEF Mixture
    <2> QED BY <1>1, <1>5, <2>1, <2>2 DEF Mixture
<1>7. step' \in snapshots'[1].height .. target'
    BY <1>2, <1>3, <1>4 DEF RestoreSnapshot
<1>8. AcceptedTarget'
    BY <1>1, <1>3 DEF AcceptedTarget
<1>9. ReplayingPart'
    BY <1>2, <1>6, <1>7, <1>8 DEF ReplayingPart
<1>10. SettledPart' /\ UndoingPart'
    BY <1>2 DEF SettledPart, Settled, UndoingPart
<1> QED BY <1>2, <1>9, <1>10, JournalUntouched DEF RestoreSnapshot

\* Replaying a delta on the transparent half of the state before it, whatever
\* the nullifiers are, gives the transparent half of the state after it.
LEMMA ReplayedDelta ==
    ASSUME NEW i \in 1 .. Len(history), GoodHistory(history, options), NEW p,
           NEW current, current = Mixture(i - 1, p)
    PROVE  /\ ReplayedTransparent(current, DeltaAt(history, i)) = Mixture(i, p)
           /\ ForestHolds(current, DeltaAt(history, i).spent)
<1> DEFINE s == After(history, i - 1)
           block == BlockAt(history, i)
           t == WithTransparent(s, Delta(s, block))
<1>1. /\ EntryApplied(history, i, options) /\ Len(history) \in Nat
      /\ history \in Seq(HistoryEntry) /\ i - 1 \in 0 .. Len(history)
    BY Heights DEF GoodHistory
<1>2. s \in State
    BY <1>1, HistoryType, SMTT(40)
<1>3. After(history, i) = Applied(s, block)
    BY <1>1 DEF EntryApplied, After
<1> HIDE DEF s, block
<1>4. DOMAIN s = {"utxos", "utxo_index", "nullifiers", "tip"}
    BY <1>2 DEF State
<1>5. /\ DOMAIN t = {"utxos", "utxo_index", "nullifiers", "tip"}
      /\ t.utxos = ForestInserts(ForestDeletes(s.utxos, Delta(s, block).spent),
                                 Delta(s, block).created)
      /\ t.utxo_index = IndexWith(IndexWithout(s.utxo_index, Outpoints(Delta(s, block).spent)),
                                  Delta(s, block).created)
    BY <1>4 DEF WithTransparent
<1> HIDE DEF t
<1>6. /\ After(history, i).utxos = t.utxos
      /\ After(history, i).utxo_index = t.utxo_index
    BY <1>3, <1>5 DEF Applied, t
<1>7. DeltaAt(history, i) = Delta(s, block)
    BY DEF DeltaAt, s, block
<1>8. /\ current = [utxos |-> s.utxos, utxo_index |-> s.utxo_index,
                    nullifiers |-> After(history, p).nullifiers,
                    tip |-> Base(history) + Len(history)]
    BY DEF Mixture, s
<1>9. ReplayedTransparent(current, DeltaAt(history, i)) = Mixture(i, p)
    <2> DEFINE d == Delta(s, block)
               u == ForestInserts(ForestDeletes(s.utxos, d.spent), d.created)
               x == IndexWith(IndexWithout(s.utxo_index, Outpoints(d.spent)), d.created)
    <2>1. current.utxos = s.utxos /\ current.utxo_index = s.utxo_index
        BY <1>8
    <2>2. ReplayedTransparent(current, d) = [current EXCEPT !.utxos = u, !.utxo_index = x]
        <3> HIDE DEF d
        <3> QED BY <2>1 DEF ReplayedTransparent
    <2>3. After(history, i).utxos = u /\ After(history, i).utxo_index = x
        BY <1>5, <1>6
    <2> HIDE DEF d, u, x
    <2>4. [current EXCEPT !.utxos = u, !.utxo_index = x] = Mixture(i, p)
        <3> DEFINE m == After(history, p).nullifiers
                   tip == Base(history) + Len(history)
        <3>1. Mixture(i, p) = [utxos |-> u, utxo_index |-> x, nullifiers |-> m, tip |-> tip]
            BY <2>3 DEF Mixture
        <3>2. current = [utxos |-> s.utxos, utxo_index |-> s.utxo_index,
                         nullifiers |-> m, tip |-> tip]
            BY <1>8
        <3> HIDE DEF m, tip
        <3>3. [current EXCEPT !.utxos = u]
                  = [utxos |-> u, utxo_index |-> s.utxo_index, nullifiers |-> m, tip |-> tip]
            BY <3>2
        <3>4. [[utxos |-> u, utxo_index |-> s.utxo_index, nullifiers |-> m, tip |-> tip]
                  EXCEPT !.utxo_index = x]
                  = [utxos |-> u, utxo_index |-> x, nullifiers |-> m, tip |-> tip]
            OBVIOUS
        <3>5. [current EXCEPT !.utxos = u, !.utxo_index = x]
                  = [[current EXCEPT !.utxos = u] EXCEPT !.utxo_index = x]
            OBVIOUS
        <3> QED BY <3>1, <3>3, <3>4, <3>5
    <2> QED BY <1>7, <2>2, <2>4 DEF d
<1>10. ForestHolds(current, DeltaAt(history, i).spent)
    <2>1. ForestHolds(s, SpentLeaves(s, block))
        BY <1>1 DEF EntryApplied, s, block
    <2> QED BY <1>7, <1>8, <2>1 DEF ForestHolds, Delta
<1> QED BY <1>9, <1>10

\* A delta replayed takes the forest and the index one block forward.
LEMMA ReplayDeltaKeepsInvariant ==
    ASSUME ChainInv, NEW k \in DOMAIN deltas, ReplayDelta(k)
    PROVE  ChainInv'
<1> DEFINE i == step - Base(history)
           t == target - Base(history)
<1>1. /\ AcceptedTarget /\ step \in snapshots[1].height .. target
      /\ state = Mixture(i, t)
      /\ phase = "replaying" /\ phase' = "replaying" /\ step < target
      /\ deltas[k].height = step + 1
      /\ state' = ReplayedTransparent(state, deltas[k])
      /\ step' = step + 1
      /\ history' = history /\ snapshots' = snapshots /\ target' = target
    BY DEF ChainInv, ReplayingPart, ReplayDelta, journal, ghosts
<1>2. /\ target \in Nat /\ Len(history) > 0 /\ Base(history) \in Int /\ Len(history) \in Nat
    BY <1>1, DeltasByHeight DEF AcceptedTarget
<1>3. /\ snapshots[1].height \in Nat /\ snapshots[1].height - Base(history) \in 1 .. Len(history)
    <2>1. 1 \in DOMAIN snapshots
        BY <1>1, <1>2, SnapshotsByHeight
    <2> QED BY <1>1, <1>2, <2>1, SnapshotsByHeight
<1>4. step \in Nat /\ i + 1 \in 1 .. Len(history) /\ (i + 1) - 1 = i
      /\ (step + 1) - Base(history) = i + 1
    BY <1>1, <1>2, <1>3, SMTT(40) DEF AcceptedTarget
<1>5. deltas[k] = DeltaAt(history, i + 1)
    <2>1. deltas[k] = DeltaAt(history, deltas[k].height - Base(history))
        BY <1>1, <1>2, DeltasByHeight
    <2> QED BY <1>1, <1>4, <2>1
<1>6. state' = Mixture(i + 1, t)
    <2>1. state = Mixture((i + 1) - 1, t)
        BY <1>1, <1>4
    <2>2. ReplayedTransparent(state, DeltaAt(history, i + 1)) = Mixture(i + 1, t)
        <3> HIDE DEF i, t
        <3> QED BY <1>4, <2>1, ReplayedDelta DEF ChainInv
    <2> QED BY <1>1, <1>5, <2>2
<1>7. Mixture(step - Base(history), target - Base(history))' = Mixture(i + 1, t)
    BY <1>1, <1>4 DEF Mixture
<1>8. step' \in snapshots'[1].height .. target'
    BY <1>1, <1>2, <1>3, <1>4, SMTT(40)
<1>9. AcceptedTarget'
    BY <1>1 DEF AcceptedTarget
<1>10. ReplayingPart'
    BY <1>1, <1>6, <1>7, <1>8, <1>9 DEF ReplayingPart
<1>11. SettledPart' /\ UndoingPart'
    BY <1>1 DEF SettledPart, Settled, UndoingPart
<1> QED BY <1>1, <1>10, <1>11, JournalUntouched DEF ReplayDelta

\* The snapshots that survive a rollback: all at or below the target.
LEMMA KeptSnapshots ==
    ASSUME ChainInv, phase # "applied", AcceptedTarget
    PROVE  LET kept == SubSeq(snapshots, 1, KeptUpTo(snapshots, target))
           IN  /\ Len(snapshots) \in Nat /\ Len(kept) \in 1 .. Len(snapshots)
               /\ \A m \in 1 .. Len(kept) : kept[m] = snapshots[m]
               /\ \A m \in 1 .. Len(snapshots) :
                      snapshots[m].height <= target => m \in 1 .. Len(kept)
<1> DEFINE n == KeptUpTo(snapshots, target)
           kept == SubSeq(snapshots, 1, n)
<1>1. /\ JournalOf(history, Len(history), snapshots, deltas) /\ GoodHistory(history, options)
      /\ target \in Nat /\ snapshots[1].height <= target /\ Len(history) > 0
    BY DEF ChainInv, InJournal, AcceptedTarget
<1>2. /\ Len(snapshots) \in Nat /\ HaveHeights(snapshots) /\ Len(history) \in Nat
      /\ \A m \in 1 .. Len(snapshots) : snapshots[m].height \in Nat
    BY <1>1, JournalTypes
<1>3. /\ n \in 0 .. Len(snapshots)
      /\ \A i \in n + 1 .. Len(snapshots) : snapshots[i].height > target
    BY <1>1, <1>2, KeptFacts
<1> HIDE DEF n
<1>4. n >= 1
    <2> SUFFICES ASSUME n = 0 PROVE FALSE
        BY <1>2, <1>3
    <2>1. 1 \in n + 1 .. Len(snapshots)
        BY <1>1, <1>2 DEF JournalOf
    <2>2. snapshots[1].height > target /\ snapshots[1].height \in Nat
        BY <1>2, <1>3, <2>1
    <2> QED BY <1>1, <2>2
<1>5. /\ Len(kept) = n
      /\ \A i \in 1 .. n : kept[i] = snapshots[i]
    <2>1. \A i \in 1 .. n : snapshots[i] \in SnapshotRecord
        BY <1>1, <1>2, <1>3, LenProperties DEF JournalOf
    <2> QED BY <1>2, <1>3, <1>4, <2>1, SubSeqProperties
<1> HIDE DEF kept
<1>6. ASSUME NEW m \in 1 .. Len(snapshots), snapshots[m].height <= target
      PROVE  m \in 1 .. n
    <2> SUFFICES ASSUME ~(m <= n) PROVE FALSE
        BY <1>2, <1>3
    <2>1. m \in n + 1 .. Len(snapshots)
        BY <1>2, <1>3
    <2>2. snapshots[m].height > target /\ snapshots[m].height \in Nat
        BY <1>2, <1>3, <2>1
    <2> QED BY <1>1, <1>6, <2>2
<1> QED BY <1>2, <1>3, <1>4, <1>5, <1>6 DEF kept, n

\* The rollback done, the history and the journal are cut at the target.
LEMMA FinishRollbackKeepsInvariant ==
    ASSUME ChainInv, FinishRollback
    PROVE  ChainInv'
<1> DEFINE n == Len(history)
           t == target - Base(history)
           kept == SubSeq(snapshots, 1, KeptUpTo(snapshots, target))
<1>1. /\ phase = "replaying" /\ step = target /\ phase' = "idle"
      /\ AcceptedTarget /\ state = Mixture(t, t)
      /\ GoodHistory(history, options) /\ JournalOf(history, n, snapshots, deltas)
      /\ Types /\ ReachPart /\ BoundaryPart
    BY DEF ChainInv, InJournal, ReplayingPart, FinishRollback
<1>2. /\ interval' = interval /\ max_depth' = max_depth /\ options' = options
      /\ served' = served /\ recorded' = recorded
      /\ snapshots' = kept
      /\ deltas' = SubSeq(deltas, 1, KeptUpTo(deltas, target))
    BY DEF FinishRollback, config
<1>3. /\ target \in Nat /\ n > 0 /\ n \in Nat /\ Base(history) \in Int
      /\ snapshots[1].height <= target /\ target < Base(history) + n
    BY <1>1, DeltasByHeight DEF AcceptedTarget
<1>4. /\ t \in 1 .. n
      /\ JournalOf(SubSeq(history, 1, t), t, snapshots', deltas')
    BY <1>1, <1>2, <1>3, RollbackJournal
<1>5. history' = SubSeq(history, 1, t)
    <2>1. state.tip = Base(history) + n
        BY <1>1 DEF Mixture
    <2>2. n - ((Base(history) + n) - target) = t
        BY <1>3
    <2>3. history' = SubSeq(history, 1, n - (state.tip - target))
        BY DEF FinishRollback
    <2> QED BY <2>1, <2>2, <2>3
<1>6. /\ GoodHistory(history', options) /\ Len(history') = t
      /\ \A i \in 1 .. t : history'[i] = history[i]
    <2>1. t \in 0 .. n
        BY <1>3, <1>4
    <2> HIDE DEF t
    <2> QED BY <1>1, <1>5, <2>1, GoodPrefix
<1>7. InJournal' = t
    BY <1>1, <1>6 DEF InJournal
<1>8. Base(history') = Base(history)
    BY <1>3, <1>4, <1>6 DEF Base, BlockAt
<1>9. SettledPart'
    <2>1. After(history, t) \in State
        <3>1. t \in 0 .. n
            BY <1>3, <1>4
        <3> HIDE DEF t
        <3> QED BY <1>1, <3>1, HistoryType DEF GoodHistory
    <2>2. After(history', t) = After(history, t)
        BY <1>3, <1>4, <1>6 DEF After
    <2>3. After(history, t).tip = target
        <3>1. After(history, t).tip = Base(history) + t
            BY <1>1, <1>4, Heights
        <3> QED BY <1>3, <3>1
    <2>4. state' = [state EXCEPT !.tip = target]
        BY DEF FinishRollback
    <2> DEFINE s == After(history, t)
    <2>5. state' = [utxos |-> s.utxos, utxo_index |-> s.utxo_index,
                    nullifiers |-> s.nullifiers, tip |-> target]
        <3> HIDE DEF s
        <3>1. state = [utxos |-> s.utxos, utxo_index |-> s.utxo_index,
                       nullifiers |-> s.nullifiers, tip |-> Base(history) + n]
            BY <1>1 DEF Mixture, s
        <3> QED BY <2>4, <3>1
    <2>6. s = [utxos |-> s.utxos, utxo_index |-> s.utxo_index,
               nullifiers |-> s.nullifiers, tip |-> s.tip]
        <3> HIDE DEF s
        <3>1. s \in State
            BY <2>1 DEF s
        <3> QED BY <3>1 DEF State
    <2>7. state' = After(history', t)
        <3>1. s.tip = target
            BY <2>3
        <3> HIDE DEF s
        <3>2. state' = s
            BY <2>5, <2>6, <3>1
        <3> QED BY <2>2, <3>2 DEF s
    <2> QED BY <1>1, <1>6, <2>7 DEF SettledPart, Settled
<1>10. UndoingPart' /\ ReplayingPart' /\ Types'
    BY <1>1, <1>2 DEF UndoingPart, ReplayingPart, Types
<1>11. /\ Len(snapshots) \in Nat /\ Len(kept) \in 1 .. Len(snapshots)
       /\ \A m \in 1 .. Len(kept) : kept[m] = snapshots[m]
       /\ \A m \in 1 .. Len(snapshots) : snapshots[m].height <= target => m \in 1 .. Len(kept)
    BY <1>1, KeptSnapshots
<1> HIDE DEF kept
<1>12. /\ \A m \in 1 .. Len(snapshots) : snapshots[m].height \in Nat
       /\ \A l, m \in 1 .. Len(snapshots) : l < m => snapshots[l].height < snapshots[m].height
    BY <1>1, JournalTypes DEF JournalOf
<1>13. ReachPart'
    <2>1. recorded # Nothing
        BY <1>1, <1>3 DEF ReachPart, InJournal
    <2>2. snapshots'[1] = snapshots[1]
        BY <1>2, <1>11
    <2>3. t > 0
        BY <1>3, <1>4
    <2> QED BY <1>1, <1>2, <1>7, <2>1, <2>2, <2>3 DEF ReachPart
<1>14. BoundaryPart'
    <2>1. \A m \in 2 .. Len(kept) : kept[m].height % interval = 0
        <3> TAKE m \in 2 .. Len(kept)
        <3>1. m \in 2 .. Len(snapshots) /\ kept[m] = snapshots[m]
            BY <1>11
        <3> QED BY <1>1, <3>1 DEF BoundaryPart
    <2>2. ASSUME NEW height \in Nat, kept[1].height < height,
                 height <= Base(history) + t, height % interval = 0
          PROVE  \E m \in 1 .. Len(kept) : kept[m].height = height
        <3>1. height <= target /\ height <= Base(history) + n
            BY <1>3, <1>4, <2>2
        <3>2. snapshots[1].height < height /\ Len(snapshots) > 0
            BY <1>11, <2>2
        <3>3. PICK m \in 1 .. Len(snapshots) : snapshots[m].height = height
            BY <1>1, <2>2, <3>1, <3>2 DEF BoundaryPart, InJournal
        <3>4. m \in 1 .. Len(kept)
            BY <1>11, <3>1, <3>3
        <3> QED BY <1>11, <3>3, <3>4
    <2>3. ASSUME Len(kept) >= 2
          PROVE  kept[Len(kept)].height - kept[2].height < max_depth
        <3> DEFINE k == Len(kept)
                   l == Len(snapshots)
        <3>1. /\ k \in 1 .. l /\ 2 \in 1 .. l /\ l \in 1 .. l /\ l >= 2
              /\ kept[k] = snapshots[k] /\ kept[2] = snapshots[2]
            BY <1>11, <2>3
        <3>2. snapshots[k].height <= snapshots[l].height
            <4>1. k = l \/ k < l
                BY <1>11, <3>1
            <4>2. k < l => snapshots[k].height < snapshots[l].height
                BY <1>12, <3>1
            <4>3. snapshots[k].height \in Nat /\ snapshots[l].height \in Nat
                BY <1>12, <3>1
            <4> QED BY <4>1, <4>2, <4>3
        <3>3. snapshots[l].height - snapshots[2].height < max_depth
            BY <1>1, <3>1 DEF BoundaryPart
        <3>4. /\ snapshots[k].height \in Nat /\ snapshots[l].height \in Nat
              /\ snapshots[2].height \in Nat /\ max_depth \in Nat
            BY <1>1, <1>12, <3>1 DEF Types
        <3> QED BY <3>1, <3>2, <3>3, <3>4
    <2> QED BY <1>2, <1>7, <1>8, <2>1, <2>2, <2>3 DEF BoundaryPart
<1>15. JournalOf(history, InJournal, snapshots, deltas)'
    BY <1>4, <1>5, <1>7
<1>16. GoodHistory(history, options)'
    BY <1>2, <1>6
<1> QED BY <1>9, <1>10, <1>13, <1>14, <1>15, <1>16 DEF ChainInv

\* A rollback that ends takes back one block at least, and never all of them.
LEMMA RollbackShortens ==
    ASSUME ChainInv, FinishRollback
    PROVE  /\ Len(history) \in Nat /\ target - Base(history) \in 1 .. Len(history) - 1
           /\ history' = SubSeq(history, 1, target - Base(history))
           /\ Len(history') = target - Base(history) /\ DOMAIN history' = 1 .. Len(history')
           /\ \A i \in 1 .. Len(history') : history'[i] = history[i]
<1> DEFINE n == Len(history)
           t == target - Base(history)
<1>1. /\ AcceptedTarget /\ state = Mixture(t, t) /\ phase # "applied"
      /\ history \in Seq(HistoryEntry)
    BY DEF ChainInv, ReplayingPart, FinishRollback, GoodHistory
<1>2. /\ target \in Nat /\ n > 0 /\ n \in Nat /\ Base(history) \in Int
      /\ snapshots[1].height <= target /\ target < Base(history) + n
    BY <1>1, DeltasByHeight DEF AcceptedTarget
<1>3. t \in 1 .. n - 1
    <2>1. 1 \in DOMAIN snapshots
        BY <1>1, <1>2, SnapshotsByHeight
    <2>2. snapshots[1].height - Base(history) \in 1 .. n /\ snapshots[1].height \in Nat
        BY <1>1, <1>2, <2>1, SnapshotsByHeight
    <2> QED BY <1>2, <2>2, SMTT(40)
<1>4. history' = SubSeq(history, 1, t)
    <2>1. state.tip = Base(history) + n
        BY <1>1 DEF Mixture
    <2>2. n - ((Base(history) + n) - target) = t
        BY <1>2
    <2> QED BY <2>1, <2>2 DEF FinishRollback
<1> HIDE DEF t, n
<1>5. /\ Len(history') = t /\ DOMAIN history' = 1 .. t
      /\ \A i \in 1 .. t : history'[i] = history[i]
    <2>1. ChainInv'
        BY FinishRollbackKeepsInvariant
    <2>2. history' \in Seq(HistoryEntry)
        BY <2>1 DEF ChainInv, GoodHistory
    <2>3. GoodHistory(history, options) /\ t \in 0 .. Len(history)
        BY <1>2, <1>3 DEF ChainInv, n
    <2>4. Len(history') = t /\ \A i \in 1 .. t : history'[i] = history[i]
        BY <1>4, <2>3, GoodPrefix
    <2> QED BY <2>2, <2>4, LenProperties
<1> QED BY <1>2, <1>3, <1>4, <1>5 DEF t, n

----------------------------------------------------------------------------
(* Steps of record.                                                        *)

\* What prune leaves of the snapshots: the newest is never dropped, the oldest
\* left is at or below the horizon if any was dropped, the next is above it.
LEMMA PruneFacts ==
    ASSUME NEW snaps \in Seq(SnapshotRecord), NEW snapshot \in SnapshotRecord,
           NEW horizon \in Nat
    PROVE  LET taken == Append(snaps, snapshot)
               n == Redundant(taken, horizon)
               kept == DropFront(taken, n)
           IN  /\ n \in 0 .. Len(snaps) /\ Len(snaps) \in Nat
               /\ kept \in Seq(SnapshotRecord) /\ Len(kept) = Len(snaps) + 1 - n
               /\ \A i \in 1 .. Len(kept) : kept[i] = taken[n + i]
               /\ \A i \in 1 .. Len(snaps) : taken[i] = snaps[i]
               /\ taken[Len(snaps) + 1] = snapshot
               /\ n > 0 => kept[1].height <= horizon
               /\ Len(kept) >= 2 => kept[2].height > horizon
<1> DEFINE taken == Append(snaps, snapshot)
           rest == Tail(taken)
           n == Redundant(taken, horizon)
           kept == DropFront(taken, n)
           l == Len(snaps)
<1>1. /\ taken \in Seq(SnapshotRecord) /\ Len(taken) = l + 1 /\ l \in Nat
      /\ \A i \in 1 .. l : taken[i] = snaps[i]
      /\ taken[l + 1] = snapshot
    BY AppendProperties, LenProperties
<1> HIDE DEF taken
<1>2. /\ rest \in Seq(SnapshotRecord) /\ Len(rest) = l
      /\ \A i \in 1 .. l : rest[i] = taken[i + 1]
    <2>1. taken # <<>>
        BY <1>1, EmptySeq
    <2>2. /\ rest \in Seq(SnapshotRecord) /\ Len(rest) = Len(taken) - 1
          /\ \A i \in 1 .. Len(rest) : rest[i] = taken[i + 1]
        BY <1>1, <2>1, HeadTailProperties
    <2>3. Len(rest) = l
        BY <1>1, <2>2
    <2> QED BY <2>2, <2>3
<1> HIDE DEF rest, l
<1>3. HaveHeights(rest)
    <2>1. \A i \in 1 .. Len(rest) : rest[i] \in SnapshotRecord
        BY <1>2, LenProperties
    <2> QED BY <1>1, <1>2, <2>1 DEF HaveHeights, SnapshotRecord
<1>4. /\ n \in 0 .. l
      /\ \A i \in 1 .. n : rest[i].height <= horizon
      /\ n < l => rest[n + 1].height > horizon
    <2>1. n = LeadingUpTo(rest, horizon)
        BY DEF Redundant, rest
    <2>2. /\ LeadingUpTo(rest, horizon) \in 0 .. Len(rest)
          /\ \A i \in 1 .. LeadingUpTo(rest, horizon) : rest[i].height <= horizon
          /\ LeadingUpTo(rest, horizon) < Len(rest) =>
                 rest[LeadingUpTo(rest, horizon) + 1].height > horizon
        BY <1>3, LeadingFacts
    <2> HIDE DEF n
    <2> QED BY <1>2, <2>1, <2>2
<1> HIDE DEF n
<1>5. /\ kept \in Seq(SnapshotRecord) /\ Len(kept) = l + 1 - n
      /\ \A i \in 1 .. Len(kept) : kept[i] = taken[n + i]
    <2>1. n \in 0 .. Len(taken)
        BY <1>1, <1>4
    <2>2. /\ kept \in Seq(SnapshotRecord) /\ Len(kept) = Len(taken) - n
          /\ \A i \in 1 .. Len(taken) - n : kept[i] = taken[n + i]
        BY <1>1, <2>1, DropFrontFacts, ZenonT(60)
    <2>3. Len(taken) - n = l + 1 - n
        BY <1>1, <1>4
    <2> HIDE DEF kept
    <2> QED BY <2>2, <2>3
<1> HIDE DEF kept
<1>6. n > 0 => kept[1].height <= horizon
    <2> SUFFICES ASSUME n > 0 PROVE kept[1].height <= horizon
        OBVIOUS
    <2>1. n \in 1 .. n /\ n \in 1 .. l /\ 1 \in 1 .. Len(kept)
        BY <1>1, <1>4, <1>5
    <2>2. rest[n] = taken[n + 1] /\ kept[1] = taken[n + 1] /\ rest[n].height <= horizon
        BY <1>2, <1>4, <1>5, <2>1
    <2> QED BY <2>2
<1>7. Len(kept) >= 2 => kept[2].height > horizon
    <2> SUFFICES ASSUME Len(kept) >= 2 PROVE kept[2].height > horizon
        OBVIOUS
    <2>1. n < l /\ n + 1 \in 1 .. l /\ 2 \in 1 .. Len(kept) /\ (n + 1) + 1 = n + 2
        BY <1>1, <1>4, <1>5
    <2>2. rest[n + 1] = taken[n + 2] /\ kept[2] = taken[n + 2] /\ rest[n + 1].height > horizon
        BY <1>2, <1>4, <1>5, <2>1
    <2> QED BY <2>2
<1> QED BY <1>1, <1>4, <1>5, <1>6, <1>7 DEF kept, n, taken, l

\* Before a record: the delta and the state are those of the newest block.
LEMMA BeforeRecord ==
    ASSUME ChainInv, phase = "applied"
    PROVE  LET n == Len(history)
           IN  /\ n \in Nat /\ n > 0 /\ Base(history) \in Int /\ InJournal = n - 1
               /\ delta = DeltaAt(history, n)
               /\ delta.height = Base(history) + n /\ delta.height \in Nat
               /\ state = After(history, n) /\ state = history[n].state
               /\ Snapshot \in SnapshotRecord /\ SnapshotTaken(history, n, Snapshot)
               /\ Snapshot.height = delta.height
<1> DEFINE n == Len(history)
<1>1. /\ n > 0 /\ delta = DeltaAt(history, n) /\ state = After(history, n)
      /\ GoodHistory(history, options) /\ InJournal = n - 1
    BY DEF ChainInv, SettledPart, Settled, InJournal
<1>2. n \in Nat /\ Base(history) \in Int
    BY <1>1, Heights
<1>3. n \in 1 .. n /\ n \in 0 .. n
    BY <1>1, <1>2
<1>4. delta.height = Base(history) + n /\ delta \in DeltaRecord
    BY <1>1, <1>3, Heights
<1>5. state \in State /\ state = history[n].state
    BY <1>1, <1>3, HistoryType DEF GoodHistory, After
<1>6. delta.height \in Nat
    BY <1>4 DEF DeltaRecord
<1>7. Snapshot \in SnapshotRecord
    BY <1>5, <1>6 DEF Snapshot, SnapshotRecord, State
<1>8. SnapshotTaken(history, n, Snapshot) /\ Snapshot.height = delta.height
    <2>1. /\ Snapshot.height = delta.height /\ Snapshot.utxos = state.utxos
          /\ Snapshot.utxo_index = state.utxo_index
        BY DEF Snapshot
    <2>2. Snapshot.height - Base(history) = n
        BY <1>2, <1>4, <2>1
    <2> QED BY <1>3, <1>5, <2>1, <2>2 DEF SnapshotTaken
<1> QED BY <1>1, <1>2, <1>4, <1>5, <1>6, <1>7, <1>8

\* What record remembers of the heights.
LEMMA RecordedFacts ==
    ASSUME ChainInv, Record
    PROVE  /\ recorded' \in [first : Nat, highest : Nat] /\ recorded' # Nothing
           /\ recorded'.highest >= delta.height
           /\ recorded = Nothing => recorded'.first = delta.height
           /\ recorded # Nothing => /\ recorded \in [first : Nat, highest : Nat]
                                    /\ recorded'.first = recorded.first
                                    /\ recorded'.highest >= recorded.highest
<1>1. delta.height \in Nat
    BY BeforeRecord DEF Record
<1>2. CASE recorded = Nothing
    <2>1. recorded' = [first |-> delta.height, highest |-> delta.height]
        BY <1>2 DEF Record
    <2>2. recorded' # Nothing
        <3>1. DOMAIN recorded' = {"first", "highest"} /\ DOMAIN Nothing = {}
            BY <2>1 DEF Nothing
        <3> QED BY <3>1
    <2> QED BY <1>1, <1>2, <2>1, <2>2
<1>3. CASE recorded # Nothing
    <2>1. recorded \in [first : Nat, highest : Nat]
        BY <1>3 DEF ChainInv, Types
    <2>2. recorded' = [recorded EXCEPT !.highest = Max({recorded.highest, delta.height})]
        BY <1>3 DEF Record
    <2> DEFINE h == Max({recorded.highest, delta.height})
    <2>3. h \in Nat /\ h >= recorded.highest /\ h >= delta.height
        BY <1>1, <2>1, MaxOfTwo
    <2> HIDE DEF h
    <2>4. /\ recorded' \in [first : Nat, highest : Nat]
          /\ recorded'.highest = h /\ recorded'.first = recorded.first
        BY <2>1, <2>2, <2>3 DEF h
    <2>5. recorded' # Nothing
        <3>1. DOMAIN recorded' = {"first", "highest"} /\ DOMAIN Nothing = {}
            BY <2>4 DEF Nothing
        <3> QED BY <3>1
    <2> QED BY <1>3, <2>1, <2>3, <2>4, <2>5
<1> QED BY <1>2, <1>3

\* What is recorded of a block is pruned back to what the bounds allow.
LEMMA RecordKeepsInvariant ==
    ASSUME ChainInv, Record
    PROVE  ChainInv'
<1> DEFINE n == Len(history)
           r == n - 1
           tip == delta.height
<1>1. /\ phase = "applied" /\ phase' = "idle" /\ interval' = interval
      /\ max_depth' = max_depth /\ options' = options /\ served' = served
      /\ state' = state /\ history' = history
      /\ Types /\ GoodHistory(history, options) /\ JournalOf(history, InJournal, snapshots, deltas)
      /\ ReachPart /\ BoundaryPart
    BY DEF Record, config, ChainInv
<1>2. /\ n \in Nat /\ n > 0 /\ Base(history) \in Int /\ InJournal = r
      /\ delta = DeltaAt(history, n) /\ tip = Base(history) + n /\ tip \in Nat
      /\ state = After(history, n)
      /\ Snapshot \in SnapshotRecord /\ SnapshotTaken(history, n, Snapshot)
      /\ Snapshot.height = tip
    BY <1>1, BeforeRecord
<1>3. r + 1 = n /\ r < n /\ r \in Nat /\ InJournal' = n
    BY <1>1, <1>2 DEF InJournal
<1>4. /\ recorded' \in [first : Nat, highest : Nat] /\ recorded' # Nothing
      /\ recorded'.highest >= tip
      /\ recorded = Nothing => recorded'.first = tip
      /\ recorded # Nothing => /\ recorded \in [first : Nat, highest : Nat]
                               /\ recorded'.first = recorded.first
                               /\ recorded'.highest >= recorded.highest
    BY RecordedFacts
<1>5. /\ Len(snapshots) \in Nat /\ snapshots \in Seq(SnapshotRecord)
      /\ Len(snapshots) = 0 <=> r = 0
      /\ \A m \in 1 .. Len(snapshots) : snapshots[m].height \in Nat
    BY <1>1, <1>2, JournalTypes DEF JournalOf
<1>6. Types' /\ SettledPart' /\ UndoingPart' /\ ReplayingPart'
    BY <1>1, <1>2, <1>4 DEF Types, SettledPart, Settled, UndoingPart, ReplayingPart
<1>7. CASE ~IsBoundary(tip)
    <2>1. /\ snapshots' = snapshots /\ deltas' = Append(deltas, DeltaAt(history, n))
          /\ snapshots # <<>> /\ tip % interval # 0
        BY <1>2, <1>7 DEF Record, IsBoundary
    <2>2. Len(snapshots) > 0 /\ r > 0
        BY <1>3, <1>5, <2>1, EmptySeq
    <2>3. JournalOf(history, n, snapshots', deltas')
        <3>1. JournalOf(history, r + 1, snapshots, Append(deltas, DeltaAt(history, r + 1)))
            <4> HIDE DEF r
            <4> QED BY <1>1, <1>2, <1>3, <2>2, RecordDelta
        <3> QED BY <1>3, <2>1, <3>1
    <2>4. ReachPart'
        <3>1. recorded # Nothing
            BY <1>1, <1>2, <2>2, SMTT(40) DEF ReachPart
        <3>2. \/ snapshots[1].height <= recorded.first
              \/ snapshots[1].height <= recorded.highest - max_depth
            BY <1>1, <3>1 DEF ReachPart
        <3>3. snapshots[1].height \in Nat /\ max_depth \in Nat
            BY <1>1, <1>5, <2>2 DEF Types
        <3>4. /\ recorded.highest \in Nat /\ recorded'.highest \in Nat
              /\ recorded'.first = recorded.first /\ recorded'.highest >= recorded.highest
            BY <1>4, <3>1
        <3>5. \/ snapshots[1].height <= recorded'.first
              \/ snapshots[1].height <= recorded'.highest - max_depth
            BY <3>2, <3>3, <3>4
        <3> QED BY <1>1, <1>2, <1>3, <1>4, <2>1, <3>5 DEF ReachPart
    <2>5. BoundaryPart'
        <3>1. ASSUME NEW height \in Nat, snapshots[1].height < height,
                     height <= Base(history) + n, height % interval = 0
              PROVE  \E m \in 1 .. Len(snapshots) : snapshots[m].height = height
            <4>1. height # tip
                BY <2>1, <3>1
            <4>2. height <= Base(history) + InJournal
                BY <1>2, <3>1, <4>1
            <4> QED BY <1>1, <2>2, <3>1, <4>2 DEF BoundaryPart
        <3> QED BY <1>1, <1>3, <2>1, <3>1 DEF BoundaryPart
    <2> QED BY <1>1, <1>3, <1>6, <2>3, <2>4, <2>5 DEF ChainInv
<1>8. CASE IsBoundary(tip)
    <2> DEFINE taken == Append(snapshots, Snapshot)
               drop == Redundant(taken, Horizon(tip))
               kept == DropFront(taken, drop)
               l == Len(snapshots)
    <2>1. /\ snapshots' = kept
          /\ deltas' = Append(DropFront(deltas, LeadingUpTo(deltas, kept[1].height)),
                              DeltaAt(history, n))
        BY <1>2, <1>8 DEF Record, RecordBoundary
    <2>2. /\ max_depth \in Nat /\ Horizon(tip) \in Nat
          /\ Horizon(tip) = IF tip > max_depth THEN tip - max_depth ELSE 0
        BY <1>1, <1>2 DEF Types, Horizon
    <2>3. /\ drop \in 0 .. l /\ l \in Nat
          /\ kept \in Seq(SnapshotRecord) /\ Len(kept) = l + 1 - drop
          /\ \A i \in 1 .. Len(kept) : kept[i] = taken[drop + i]
          /\ \A i \in 1 .. l : taken[i] = snapshots[i]
          /\ taken[l + 1] = Snapshot
          /\ drop > 0 => kept[1].height <= Horizon(tip)
          /\ Len(kept) >= 2 => kept[2].height > Horizon(tip)
        BY <1>2, <1>5, <2>2, PruneFacts
    <2>4. JournalOf(history, n, snapshots', deltas')
        <3>1. Snapshot.height = Base(history) + (r + 1)
            BY <1>2, <1>3
        <3>2. SnapshotTaken(history, r + 1, Snapshot)
            BY <1>2, <1>3
        <3>3. JournalOf(history, r, snapshots, deltas)
            BY <1>1, <1>2
        <3>4. JournalOf(history, r + 1, kept,
                  Append(DropFront(deltas, LeadingUpTo(deltas, kept[1].height)),
                         DeltaAt(history, r + 1)))
            <4> HIDE DEF r, drop
            <4> QED BY <1>1, <1>2, <1>3, <2>3, <3>1, <3>2, <3>3, RecordSnapshotAt
        <3> QED BY <1>3, <2>1, <3>4
    <2> HIDE DEF kept, drop, taken
    <2>5. /\ Len(kept) \in Nat /\ Len(kept) >= 1 /\ 1 \in 1 .. Len(kept)
          /\ kept[Len(kept)] = Snapshot
          /\ \A i \in 1 .. Len(kept) : kept[i].height \in Nat
          /\ \A i, j \in 1 .. Len(kept) : i < j => kept[i].height < kept[j].height
        <3>1. Len(kept) \in Nat /\ Len(kept) >= 1 /\ 1 \in 1 .. Len(kept)
            BY <2>3
        <3>2. Len(kept) \in 1 .. Len(kept) /\ drop + Len(kept) = l + 1
            BY <2>3, <3>1
        <3>3. kept[Len(kept)] = Snapshot
            BY <2>3, <3>2
        <3>4. \A i \in 1 .. Len(kept) : kept[i] \in SnapshotRecord
            BY <2>3, LenProperties
        <3>5. \A i, j \in 1 .. Len(kept) : i < j => kept[i].height < kept[j].height
            BY <2>1, <2>4 DEF JournalOf
        <3> QED BY <3>1, <3>3, <3>4, <3>5 DEF SnapshotRecord
    <2>6. ReachPart'
        <3>1. kept[1].height <= recorded'.first \/ kept[1].height <= recorded'.highest - max_depth
            <4>1. CASE drop > 0
                <5>1. kept[1].height <= Horizon(tip)
                    BY <2>3, <4>1
                <5>2. tip > max_depth
                    <6> SUFFICES ASSUME ~(tip > max_depth) PROVE FALSE
                        OBVIOUS
                    <6>1. kept[1].height <= 0 /\ kept[1].height \in Nat
                        BY <2>2, <2>5, <5>1
                    <6>2. drop \in 1 .. l /\ kept[1] = taken[drop + 1] /\ 1 \in 1 .. l
                        BY <2>3, <2>5, <4>1
                    <6>3. r > 0
                        BY <1>3, <1>5, <2>3, <6>2
                    <6>4. kept[1].height - Base(history) \in 1 .. n
                        BY <2>1, <2>4, <2>5 DEF JournalOf, SnapshotTaken
                    <6>5. Base(history) >= -1
                        <7>1. BlockAt(history, 1).height \in Nat /\ 1 \in 1 .. n
                            BY <1>1, <1>2, Heights
                        <7> QED BY <7>1 DEF Base
                    <6>6. /\ snapshots[1].height - Base(history) \in 1 .. r
                          /\ snapshots[1].height \in Nat /\ snapshots[drop].height \in Nat
                          /\ snapshots[1].height <= snapshots[drop].height
                        <7>1. SnapshotTaken(history, r, snapshots[1])
                            BY <1>1, <1>2, <6>2 DEF JournalOf
                        <7>2. drop = 1 \/ snapshots[1].height < snapshots[drop].height
                            BY <1>1, <6>2, <2>3 DEF JournalOf
                        <7> QED BY <1>5, <6>2, <7>1, <7>2 DEF SnapshotTaken
                    <6>7. snapshots[drop].height < kept[1].height
                        <7>1. CASE drop = l
                            <8>1. kept[1] = Snapshot
                                BY <2>3, <6>2, <7>1
                            <8>2. SnapshotTaken(history, r, snapshots[drop])
                                BY <1>1, <1>2, <6>2 DEF JournalOf
                            <8>3. snapshots[drop].height - Base(history) <= r
                                BY <1>3, <8>2 DEF SnapshotTaken
                            <8> QED BY <1>2, <6>6, <8>1, <8>3
                        <7>2. CASE drop < l
                            <8>1. drop + 1 \in 1 .. l /\ kept[1] = snapshots[drop + 1] /\ drop < drop + 1
                                BY <2>3, <6>2, <7>2
                            <8> QED BY <1>1, <6>2, <8>1 DEF JournalOf
                        <7> QED BY <2>3, <7>1, <7>2
                    <6> QED BY <6>1, <6>6, <6>7
                <5>3. /\ kept[1].height \in Nat /\ recorded'.highest \in Nat
                      /\ recorded'.highest >= tip
                    BY <1>4, <2>5
                <5> QED BY <1>2, <2>2, <5>1, <5>2, <5>3, SMTT(40)
            <4>2. CASE drop = 0 /\ l > 0
                <5>1. kept[1] = snapshots[1] /\ r > 0
                    BY <1>3, <1>5, <2>3, <2>5, <4>2, SMTT(40)
                <5>2. recorded # Nothing
                    <6>1. InJournal # 0
                        BY <1>2, <1>3, <5>1
                    <6> QED BY <1>1, <6>1 DEF ReachPart
                <5>3. \/ snapshots[1].height <= recorded.first
                      \/ snapshots[1].height <= recorded.highest - max_depth
                    BY <1>1, <5>2 DEF ReachPart
                <5>4. /\ recorded.highest \in Nat /\ recorded'.highest \in Nat
                      /\ recorded'.first = recorded.first
                      /\ recorded'.highest >= recorded.highest
                    BY <1>4, <5>2
                <5>5. snapshots[1].height \in Nat
                    BY <1>5, <4>2
                <5> QED BY <2>2, <5>1, <5>3, <5>4, <5>5
            <4>3. CASE drop = 0 /\ l = 0
                <5>1. kept[1] = Snapshot
                    BY <2>3, <2>5, <4>3
                <5>2. recorded = Nothing
                    <6>1. ~(InJournal > 0)
                        <7>1. r = 0
                            BY <1>5, <4>3
                        <7> HIDE DEF r
                        <7> QED BY <1>2, <7>1
                    <6> QED BY <1>1, <6>1 DEF ReachPart
                <5> QED BY <1>2, <1>4, <5>1, <5>2
            <4> QED BY <2>3, <4>1, <4>2, <4>3
        <3> QED BY <1>1, <1>2, <1>3, <1>4, <2>1, <3>1 DEF ReachPart
    <2>7. BoundaryPart'
        <3>1. \A m \in 2 .. Len(kept) : kept[m].height % interval = 0
            <4> TAKE m \in 2 .. Len(kept)
            <4>1. m \in 1 .. Len(kept) /\ kept[m] = taken[drop + m]
                BY <2>3, <2>5
            <4>2. CASE drop + m \in 2 .. l
                <5>1. kept[m] = snapshots[drop + m]
                    BY <2>3, <4>1, <4>2
                <5> QED BY <1>1, <4>2, <5>1 DEF BoundaryPart
            <4>3. CASE drop + m = l + 1
                <5>1. kept[m] = Snapshot /\ l > 0
                    BY <2>3, <2>5, <4>1, <4>3
                <5>2. snapshots # <<>>
                    BY <5>1, EmptySeq
                <5> QED BY <1>2, <1>8, <5>1, <5>2 DEF IsBoundary
            <4> QED BY <2>3, <2>5, <4>2, <4>3
        <3>2. ASSUME NEW height \in Nat, kept[1].height < height,
                     height <= Base(history) + n, height % interval = 0
              PROVE  \E m \in 1 .. Len(kept) : kept[m].height = height
            <4>1. CASE height = tip
                BY <1>2, <2>5, <4>1
            <4>2. CASE height # tip
                <5>1. height <= Base(history) + InJournal
                    BY <1>2, <3>2, <4>2
                <5>2. l > 0
                    <6> SUFFICES ASSUME l = 0 PROVE FALSE
                        BY <2>3
                    <6>1. kept[1] = Snapshot
                        BY <2>3, <2>5
                    <6> QED BY <1>2, <3>2, <4>2, <6>1
                <5>3. snapshots[1].height <= kept[1].height
                    <6>1. CASE drop = 0
                        <7>1. kept[1] = snapshots[1] /\ snapshots[1].height \in Nat
                            BY <1>5, <2>3, <2>5, <5>2, <6>1
                        <7> QED BY <7>1
                    <6>2. CASE drop = l
                        <7>1. kept[1] = Snapshot /\ 1 \in 1 .. l
                            BY <2>3, <2>5, <5>2, <6>2
                        <7>2. SnapshotTaken(history, r, snapshots[1]) /\ snapshots[1].height \in Nat
                            BY <1>1, <1>2, <1>5, <7>1 DEF JournalOf
                        <7>3. snapshots[1].height - Base(history) <= r
                            BY <1>3, <7>2 DEF SnapshotTaken
                        <7> QED BY <1>2, <7>1, <7>2, <7>3
                    <6>3. CASE drop > 0 /\ drop < l
                        <7>1. drop + 1 \in 1 .. l /\ 1 \in 1 .. l /\ 1 < drop + 1
                            BY <2>3, <6>3
                        <7>2. kept[1] = snapshots[drop + 1]
                            BY <2>3, <2>5, <7>1
                        <7>3. /\ snapshots[1].height < snapshots[drop + 1].height
                              /\ snapshots[1].height \in Nat /\ snapshots[drop + 1].height \in Nat
                            BY <1>1, <1>5, <7>1 DEF JournalOf
                        <7> QED BY <7>2, <7>3
                    <6> QED BY <2>3, <6>1, <6>2, <6>3
                <5>4. snapshots[1].height < height
                    <6>1. snapshots[1].height \in Nat /\ kept[1].height \in Nat
                        BY <1>5, <2>3, <2>5, <5>2
                    <6> QED BY <3>2, <5>3, <6>1
                <5>5. PICK m \in 1 .. l : snapshots[m].height = height
                    BY <1>1, <3>2, <5>1, <5>2, <5>4 DEF BoundaryPart
                <5>6. m > drop
                    <6> SUFFICES ASSUME m <= drop PROVE FALSE
                        BY <2>3
                    <6>1. CASE drop = l
                        <7>1. kept[1] = Snapshot
                            BY <2>3, <2>5, <6>1
                        <7> QED BY <1>2, <3>2, <4>2, <7>1
                    <6>2. CASE drop < l
                        <7>1. m < drop + 1 /\ drop + 1 \in 1 .. l
                            BY <2>3, <6>2
                        <7>2. kept[1] = snapshots[drop + 1]
                            BY <2>3, <2>5, <7>1
                        <7>3. /\ snapshots[m].height < snapshots[drop + 1].height
                              /\ snapshots[drop + 1].height \in Nat
                            BY <1>1, <1>5, <7>1 DEF JournalOf
                        <7> QED BY <3>2, <5>5, <7>2, <7>3
                    <6> QED BY <2>3, <6>1, <6>2
                <5>7. m - drop \in 1 .. Len(kept) /\ drop + (m - drop) = m
                    BY <2>3, <5>6
                <5>8. kept[m - drop] = snapshots[m]
                    BY <2>3, <5>7
                <5> QED BY <5>5, <5>7, <5>8
            <4> QED BY <4>1, <4>2
        <3>3. ASSUME Len(kept) >= 2
              PROVE  kept[Len(kept)].height - kept[2].height < max_depth
            <4>1. kept[Len(kept)].height = tip /\ kept[2].height > Horizon(tip)
                BY <1>2, <2>3, <2>5, <3>3
            <4>2. kept[2].height \in Nat
                BY <2>5, <3>3
            <4> QED BY <1>2, <2>2, <4>1, <4>2, SMTT(40)
        <3> QED BY <1>1, <1>3, <2>1, <3>1, <3>2, <3>3 DEF BoundaryPart
    <2> QED BY <1>1, <1>3, <1>6, <2>4, <2>6, <2>7 DEF ChainInv
<1> QED BY <1>7, <1>8

----------------------------------------------------------------------------
(* The theorems.                                                           *)

\* Everything the follower keeps is determined by the chain it is on, in every
\* reachable state: between two calls, before a record, and between any two
\* steps of a rollback.
THEOREM ChainInvariant == Spec => []ChainInv
<1>1. Init => ChainInv
    BY InvariantHoldsInitially
<1>2. ChainInv /\ [Next]_vars => ChainInv'
    <2> SUFFICES ASSUME ChainInv, [Next]_vars PROVE ChainInv'
        OBVIOUS
    <2>1. ASSUME NEW block \in served, ApplyBlock(block) PROVE ChainInv'
        <3>1. block \in BlockSummary
            BY BlockAssumption DEF ChainInv, Types
        <3> QED BY <2>1, <3>1, ApplyBlockKeepsInvariant
    <2>2. ASSUME NEW block \in served, ApplyBlockFails(block) PROVE ChainInv'
        BY <2>2, ApplyBlockFailsKeepsInvariant
    <2>3. CASE Record
        BY <2>3, RecordKeepsInvariant
    <2>4. ASSUME NEW height \in 0 .. state.tip, RollbackTo(height) PROVE ChainInv'
        BY <2>4, RollbackToKeepsInvariant
    <2>5. ASSUME NEW k \in DOMAIN deltas, UndoDelta(k) PROVE ChainInv'
        BY <2>5, UndoDeltaKeepsInvariant
    <2>6. ASSUME NEW base \in DOMAIN snapshots, RestoreSnapshot(base) PROVE ChainInv'
        BY <2>6, RestoreSnapshotKeepsInvariant
    <2>7. ASSUME NEW k \in DOMAIN deltas, ReplayDelta(k) PROVE ChainInv'
        BY <2>7, ReplayDeltaKeepsInvariant
    <2>8. CASE FinishRollback
        BY <2>8, FinishRollbackKeepsInvariant
    <2>9. CASE UNCHANGED vars
        BY <2>9, NothingChanges
    <2> QED BY <2>1, <2>2, <2>3, <2>4, <2>5, <2>6, <2>7, <2>8, <2>9 DEF Next
<1> QED BY <1>1, <1>2, PTL DEF Spec

\* MatchesColdReplay holds for every chain, journal setting and sequence of
\* reorganisations.
THEOREM FollowerMatchesColdReplay == Spec => []MatchesColdReplay
<1>1. ChainInv => MatchesColdReplay
    <2> SUFFICES ASSUME ChainInv, Settled PROVE
            /\ state = StateAt(Len(history))
            /\ \A i \in DOMAIN history :
                   history[i].state = Applied(StateAt(i - 1), history[i].block)
        BY DEF MatchesColdReplay
    <2>1. \A i : StateAt(i) = After(history, i)
        BY DEF StateAt, After
    <2>2. state = After(history, Len(history))
        BY DEF ChainInv, SettledPart
    <2>3. DOMAIN history = 1 .. Len(history)
        BY LenProperties DEF ChainInv, GoodHistory
    <2>4. \A i \in 1 .. Len(history) : EntryApplied(history, i, options)
        BY DEF ChainInv, GoodHistory
    <2> QED BY <2>1, <2>2, <2>3, <2>4 DEF EntryApplied, BlockAt
<1> QED BY <1>1, ChainInvariant, PTL

\* The forest and the outpoint index never part, not even in the middle of a
\* rollback or after a block that failed halfway.
THEOREM IndexAlwaysMatchesForest == Spec => []IndexMatchesForest
<1>1. ChainInv => IndexMatchesForest
    <2> SUFFICES ASSUME ChainInv PROVE Matching(state)
        BY DEF IndexMatchesForest, Matching
    <2>1. /\ Len(history) \in Nat
          /\ \A i \in 0 .. Len(history) : Matching(After(history, i))
        BY Heights DEF ChainInv, GoodHistory, StateIsSum
    <2>2. CASE Settled
        BY <2>1, <2>2 DEF ChainInv, SettledPart
    <2>3. CASE phase = "failed"
        BY <2>3 DEF ChainInv, SettledPart
    <2>4. ASSUME NEW i \in 0 .. Len(history), NEW p, state = Mixture(i, p)
          PROVE  Matching(state)
        <3>1. /\ state.utxos = After(history, i).utxos
              /\ state.utxo_index = After(history, i).utxo_index
            BY <2>4 DEF Mixture
        <3> QED BY <2>1, <3>1 DEF Matching
    <2>5. CASE phase = "undoing"
        BY <2>1, <2>4, <2>5 DEF ChainInv, UndoingPart
    <2>6. CASE phase = "replaying"
        <3>1. /\ AcceptedTarget /\ step \in snapshots[1].height .. target
              /\ state = Mixture(step - Base(history), target - Base(history))
            BY <2>6 DEF ChainInv, ReplayingPart
        <3>2. /\ target \in Nat /\ target < Base(history) + Len(history) /\ Len(history) > 0
              /\ Base(history) \in Int
            BY <2>6, <3>1, DeltasByHeight DEF AcceptedTarget
        <3>3. snapshots[1].height \in Nat /\ snapshots[1].height - Base(history) >= 1
            <4>1. 1 \in DOMAIN snapshots
                BY <2>6, <3>2, SnapshotsByHeight
            <4>2. snapshots[1].height - Base(history) \in 1 .. Len(history)
                    /\ snapshots[1].height \in Nat
                BY <2>6, <3>2, <4>1, SnapshotsByHeight
            <4> QED BY <2>1, <4>2
        <3>4. step - Base(history) \in 0 .. Len(history)
            BY <2>1, <3>1, <3>2, <3>3, SMTT(40)
        <3> QED BY <2>4, <3>1, <3>4
    <2> QED BY <2>2, <2>3, <2>5, <2>6 DEF ChainInv, Types, Settled
<1> QED BY <1>1, ChainInvariant, PTL

\* The transparent set is, whatever rollbacks came between, what the blocks of
\* the active chain created and did not spend.
THEOREM UtxosAreAlwaysTheUnspentOutputs == Spec => []UtxosAreTheUnspentOutputs
<1>1. ChainInv => UtxosAreTheUnspentOutputs
    <2> SUFFICES ASSUME ChainInv, Settled PROVE UtxosAreTheUnspentOutputs
        BY DEF UtxosAreTheUnspentOutputs
    <2> DEFINE n == Len(history)
               index == state.utxo_index
               unspent == {created \in OutPoint :
                              /\ \E i \in DOMAIN history :
                                     created \in Range(Blocks[i].transparent_creates)
                              /\ \A i \in DOMAIN history :
                                     created \notin Range(Blocks[i].transparent_spends)}
               at(o) == CHOOSE h \in {Blocks[i].height : i \in DOMAIN history} :
                            \E i \in DOMAIN history :
                                /\ Blocks[i].height = h
                                /\ o \in Range(Blocks[i].transparent_creates)
    <2>1. /\ n \in Nat /\ history \in Seq(HistoryEntry) /\ DOMAIN history = 1 .. n
          /\ state = After(history, n) /\ StateIsSum(history, n)
        BY Heights, LenProperties DEF ChainInv, GoodHistory, SettledPart
    <2>2. \A i \in 1 .. n : Blocks[i] = BlockAt(history, i)
        BY <2>1 DEF Blocks, BlockAt
    <2>3. state \in State
        <3>1. n \in 0 .. n
            BY <2>1
        <3> QED BY <2>1, <3>1, HistoryType
    <2>4. \A i \in 1 .. n : Range(BlockAt(history, i).transparent_creates) \subseteq OutPoint
        <3> TAKE i \in 1 .. n
        <3>1. BlockAt(history, i) \in BlockSummary
            BY <2>1, HistoryType
        <3>2. BlockAt(history, i).transparent_creates \in Seq(OutPoint)
            BY <3>1, BlockType
        <3> QED BY <3>2, LenProperties DEF Range
    <2>5. DOMAIN index = unspent
        <3>1. DOMAIN index = CreatedUpTo(history, n) \ SpentUpTo(history, n)
            BY <2>1 DEF StateIsSum
        <3> QED BY <2>1, <2>2, <2>4, <3>1 DEF CreatedUpTo, SpentUpTo
    <2>6. ASSUME NEW o \in unspent
          PROVE  index[o] = [outpoint |-> o, height |-> at(o)]
        <3>1. \A j \in 1 .. n : o \in Range(BlockAt(history, j).transparent_creates) =>
                  index[o] = [outpoint |-> o, height |-> BlockAt(history, j).height]
            BY <2>1, <2>5, <2>6 DEF StateIsSum
        <3>2. PICK i \in 1 .. n : o \in Range(BlockAt(history, i).transparent_creates)
            BY <2>1, <2>2, <2>6
        <3> DEFINE heights == {Blocks[j].height : j \in DOMAIN history}
                   made(h) == \E j \in DOMAIN history :
                                  /\ Blocks[j].height = h
                                  /\ o \in Range(Blocks[j].transparent_creates)
        <3>3. \E h \in heights : made(h)
            BY <2>1, <2>2, <3>2
        <3>4. at(o) \in heights /\ made(at(o))
            <4>1. at(o) = CHOOSE h \in heights : made(h)
                OBVIOUS
            <4> HIDE DEF heights, made, at
            <4> QED BY <3>3, <4>1
        <3>5. PICK j \in 1 .. n : /\ BlockAt(history, j).height = at(o)
                                  /\ o \in Range(BlockAt(history, j).transparent_creates)
            <4> HIDE DEF at
            <4> QED BY <2>1, <2>2, <3>4
        <3> HIDE DEF at
        <3> QED BY <3>1, <3>5
    <2>7. index = [o \in DOMAIN index |-> index[o]]
        BY <2>3, IndexType DEF State
    <2>8. index = [o \in unspent |-> [outpoint |-> o, height |-> at(o)]]
        <3> HIDE DEF index, unspent, at
        <3> QED BY <2>5, <2>6, <2>7
    <2> QED BY <2>8 DEF UtxosAreTheUnspentOutputs
<1> QED BY <1>1, ChainInvariant, PTL

\* The invariant leaves no step of a rollback anything to stumble over.
LEMMA NothingStopsARollback ==
    ASSUME ChainInv
    PROVE  RollbackNeverFailsMidway
<1>1. ASSUME phase = "undoing", NEW k \in to_undo, \A j \in to_undo : j <= k
      PROVE  UndoFits(k)
    BY <1>1, NewestToUndo
<1>2. ASSUME phase = "undoing" PROVE \E i \in DOMAIN snapshots : snapshots[i].height <= target
    <2>1. AcceptedTarget
        BY <1>2 DEF ChainInv, UndoingPart
    <2>2. 1 \in DOMAIN snapshots
        BY <1>2, <2>1, SnapshotsByHeight DEF AcceptedTarget
    <2> QED BY <2>1, <2>2 DEF AcceptedTarget
<1>3. ASSUME phase = "replaying", step < target
      PROVE  \E k \in DOMAIN deltas : /\ deltas[k].height = step + 1
                                      /\ ForestHolds(state, deltas[k].spent)
    <2> DEFINE i == step - Base(history)
               t == target - Base(history)
    <2>1. /\ AcceptedTarget /\ step \in snapshots[1].height .. target
          /\ state = Mixture(i, t)
        BY <1>3 DEF ChainInv, ReplayingPart
    <2>2. /\ target \in Nat /\ Len(history) > 0 /\ Base(history) \in Int
          /\ Len(history) \in Nat /\ target < Base(history) + Len(history)
        BY <1>3, <2>1, DeltasByHeight DEF AcceptedTarget
    <2>3. /\ snapshots[1].height \in Nat
          /\ snapshots[1].height - Base(history) \in 1 .. Len(history)
        <3>1. 1 \in DOMAIN snapshots
            BY <1>3, <2>2, SnapshotsByHeight
        <3> QED BY <1>3, <2>2, <3>1, SnapshotsByHeight
    <2>4. /\ i + 1 \in 1 .. Len(history) /\ (i + 1) - 1 = i
          /\ Base(history) + (i + 1) = step + 1 /\ (step + 1) - Base(history) = i + 1
          /\ snapshots[1].height < step + 1
        <3>1. step \in Int /\ snapshots[1].height <= step /\ step < target
            BY <1>3, <2>1, <2>2, <2>3
        <3> QED BY <2>2, <2>3, <3>1, SMTT(40)
    <2>5. PICK k \in DOMAIN deltas : deltas[k].height = step + 1
        <3>1. snapshots[1].height < Base(history) + (i + 1)
            BY <2>4
        <3> HIDE DEF i
        <3>2. \E k \in DOMAIN deltas : deltas[k].height = Base(history) + (i + 1)
            BY <1>3, <2>2, <2>4, <3>1, DeltasByHeight
        <3> QED BY <2>4, <3>2
    <2>6. deltas[k] = DeltaAt(history, i + 1)
        <3>1. deltas[k] = DeltaAt(history, deltas[k].height - Base(history))
            BY <1>3, <2>2, DeltasByHeight
        <3> QED BY <2>4, <2>5, <3>1
    <2>7. ForestHolds(state, DeltaAt(history, i + 1).spent)
        <3>1. state = Mixture((i + 1) - 1, t)
            BY <2>1, <2>4
        <3> HIDE DEF i, t
        <3> QED BY <2>4, <3>1, ReplayedDelta DEF ChainInv
    <2> QED BY <2>5, <2>6, <2>7
<1> QED BY <1>1, <1>2, <1>3 DEF RollbackNeverFailsMidway

\* A rollback that was not refused at its start finds every value it undoes
\* newest in its tree, a snapshot to restore, and every delta to replay.
THEOREM RollbackAlwaysRunsThrough == Spec => []RollbackNeverFailsMidway
<1> QED BY NothingStopsARollback, ChainInvariant, PTL

\* However much is pruned, rolled back and recorded again, the oldest snapshot
\* stays max_depth below the highest block ever recorded, or at the first.
THEOREM ReachIsAlwaysKept == Spec => []ReachIsKept
<1>1. ChainInv => ReachIsKept
    <2> SUFFICES ASSUME ChainInv, recorded # Nothing
                 PROVE  /\ snapshots # <<>>
                        /\ snapshots[1].height
                               <= Max({recorded.first, recorded.highest - max_depth})
        BY DEF ReachIsKept
    <2>1. /\ InJournal > 0 /\ recorded \in [first : Nat, highest : Nat] /\ max_depth \in Nat
          /\ \/ snapshots[1].height <= recorded.first
             \/ snapshots[1].height <= recorded.highest - max_depth
        BY DEF ChainInv, ReachPart, Types
    <2>2. /\ Len(snapshots) \in Nat /\ InJournal \in Nat
          /\ Len(snapshots) = 0 <=> InJournal = 0
          /\ \A m \in 1 .. Len(snapshots) : snapshots[m].height \in Nat
        BY JournalTypes DEF ChainInv, JournalOf
    <2>3. Len(snapshots) > 0 /\ 1 \in 1 .. Len(snapshots)
        BY <2>1, <2>2
    <2>4. snapshots # <<>>
        BY <2>3, EmptySeq
    <2> DEFINE first == recorded.first
               horizon == recorded.highest - max_depth
    <2>5. first \in Int /\ horizon \in Int /\ snapshots[1].height \in Nat
        BY <2>1, <2>2, <2>3
    <2>6. snapshots[1].height <= first \/ snapshots[1].height <= horizon
        BY <2>1
    <2> HIDE DEF first, horizon
    <2>7. snapshots[1].height <= Max({first, horizon})
        BY <2>5, <2>6, MaxOfTwo
    <2> QED BY <2>4, <2>7 DEF first, horizon
<1> QED BY <1>1, ChainInvariant, PTL

\* The second snapshot and those above it are at boundaries, so each is an
\* interval above the one before.
LEMMA SnapshotSpacing ==
    ASSUME ChainInv
    PROVE  \A m \in 2 .. Len(snapshots) :
               snapshots[2].height + (m - 2) * interval <= snapshots[m].height
<1> DEFINE l == Len(snapshots)
           below == {m \in 2 .. l :
                        ~(snapshots[2].height + (m - 2) * interval <= snapshots[m].height)}
<1>1. /\ interval \in Nat \ {0} /\ l \in Nat
      /\ \A m \in 1 .. l : snapshots[m].height \in Nat
      /\ \A i, j \in 1 .. l : i < j => snapshots[i].height < snapshots[j].height
      /\ \A m \in 2 .. l : snapshots[m].height % interval = 0
    BY JournalTypes DEF ChainInv, Types, JournalOf, BoundaryPart
<1> HIDE DEF l
<1>2. below = {}
    <2> SUFFICES ASSUME below # {} PROVE FALSE
        OBVIOUS
    <2>1. PICK m \in below : \A k \in below : m <= k
        <3>1. below \in SUBSET Nat
            BY <1>1
        <3> HIDE DEF below
        <3> QED BY <3>1, SmallestNat
    <2>2. m \in 2 .. l /\ m \in Nat
        BY <1>1
    <2>3. m # 2
        <3> SUFFICES ASSUME m = 2 PROVE FALSE
            OBVIOUS
        <3>1. snapshots[2].height \in Nat /\ (2 - 2) * interval = 0
            BY <1>1, <2>2
        <3> QED BY <3>1
    <2>4. m - 1 \in 2 .. l /\ m - 1 \in 1 .. l /\ m \in 1 .. l /\ m - 1 < m
        BY <1>1, <2>2, <2>3
    <2>5. snapshots[2].height + ((m - 1) - 2) * interval <= snapshots[m - 1].height
        <3>1. m - 1 \notin below
            BY <2>1, <2>2
        <3> QED BY <2>4, <3>1
    <2>6. snapshots[m - 1].height + interval <= snapshots[m].height
        BY <1>1, <2>2, <2>4, MultiplesApart
    <2>7. (m - 2) * interval = ((m - 1) - 2) * interval + interval
        BY <1>1, <2>2
    <2>8. ((m - 1) - 2) * interval \in Int
        BY <1>1, <2>2
    <2>9. /\ snapshots[2].height \in Nat /\ snapshots[m].height \in Nat
          /\ snapshots[m - 1].height \in Nat
        BY <1>1, <2>2, <2>4
    <2>10. snapshots[2].height + (m - 2) * interval <= snapshots[m].height
        BY <1>1, <2>5, <2>6, <2>7, <2>8, <2>9
    <2> QED BY <2>10
<1> QED BY <1>2 DEF l

\* prune leaves no more than the two settings allow: one snapshot for every
\* interval within the depth and one below, and the deltas above the oldest.
THEOREM JournalIsAlwaysBounded == Spec => []JournalIsBounded
<1>1. ChainInv => JournalIsBounded
    <2> SUFFICES ASSUME ChainInv PROVE JournalIsBounded
        OBVIOUS
    <2> DEFINE l == Len(snapshots)
               b == Base(history)
               tip == b + InJournal
    <2>1. /\ interval \in Nat \ {0} /\ max_depth \in Nat /\ l \in Nat
          /\ InJournal \in Nat /\ Len(deltas) \in Nat
          /\ \A m \in 1 .. l : snapshots[m].height \in Nat
          /\ \A i, j \in 1 .. l : i < j => snapshots[i].height < snapshots[j].height
          /\ l = 0 <=> InJournal = 0
        BY JournalTypes DEF ChainInv, Types, JournalOf
    <2>2. InJournal > 0 =>
              /\ b \in Int
              /\ \A m \in 1 .. l : snapshots[m].height <= tip
        <3> SUFFICES ASSUME InJournal > 0
                     PROVE  b \in Int /\ \A m \in 1 .. l : snapshots[m].height <= tip
            OBVIOUS
        <3>1. b \in Int
            <4>1. Len(history) \in Nat /\ InJournal <= Len(history)
                BY JournalTypes DEF ChainInv
            <4>2. Len(history) > 0
                BY <2>1, <4>1
            <4> QED BY <4>2, Heights DEF ChainInv
        <3>2. ASSUME NEW m \in 1 .. l PROVE snapshots[m].height <= tip
            <4>1. snapshots[m].height - b \in 1 .. InJournal
                BY DEF ChainInv, JournalOf, SnapshotTaken
            <4> HIDE DEF b
            <4> QED BY <2>1, <3>1, <4>1
        <3> QED BY <3>1, <3>2
    <2>3. /\ \A height \in Nat :
                 /\ l > 0 /\ snapshots[1].height < height
                 /\ height <= tip /\ height % interval = 0
                 => \E m \in 1 .. l : snapshots[m].height = height
          /\ l >= 2 => snapshots[l].height - snapshots[2].height < max_depth
        BY DEF ChainInv, BoundaryPart
    <2>4. /\ InJournal = 0 => Len(deltas) = 0
          /\ InJournal > 0 => Len(deltas) <= b + InJournal - snapshots[1].height + 1
        BY <2>1 DEF ChainInv, JournalOf, DeltasReachTheSnapshot
    <2> HIDE DEF l, b
    <2>5. l <= (max_depth + interval - 1) \div interval + 1
        <3>1. 0 <= (max_depth + interval - 1) \div interval
            BY <2>1, DivNat
        <3>2. CASE l <= 1
            BY <2>1, <3>1, <3>2
        <3>3. CASE l >= 2
            <4>1. l \in 2 .. l /\ l \in 1 .. l /\ 2 \in 1 .. l /\ l - 2 \in Nat
                BY <2>1, <3>3
            <4>2. snapshots[2].height + (l - 2) * interval <= snapshots[l].height
                BY <4>1, SnapshotSpacing DEF l
            <4>3. snapshots[l].height - snapshots[2].height < max_depth
                BY <2>3, <3>3
            <4>4. (l - 2) * interval < max_depth
                <5>1. snapshots[2].height \in Nat /\ snapshots[l].height \in Nat
                    BY <2>1, <4>1
                <5>2. (l - 2) * interval \in Int
                    BY <2>1, <4>1
                <5> QED BY <2>1, <4>2, <4>3, <5>1, <5>2
            <4>5. (l - 2) + 1 <= (max_depth + interval - 1) \div interval
                BY <2>1, <4>1, <4>4, FitsBelow
            <4> QED BY <2>1, <4>5
        <3> QED BY <2>1, <3>2, <3>3
    <2>6. Len(deltas) <= max_depth + 2 * interval - 1
        <3>1. CASE InJournal = 0
            BY <2>1, <2>4, <3>1
        <3>2. CASE InJournal > 0
            <4>1. /\ l > 0 /\ 1 \in 1 .. l /\ l \in 1 .. l /\ b \in Int /\ tip \in Int
                  /\ snapshots[1].height \in Nat /\ snapshots[l].height \in Nat
                  /\ snapshots[l].height <= tip
                  /\ snapshots[1].height <= snapshots[l].height
                <5>1. l > 0 /\ 1 \in 1 .. l /\ l \in 1 .. l /\ b \in Int
                    BY <2>1, <2>2, <3>2
                <5>2. snapshots[1].height \in Nat /\ snapshots[l].height \in Nat
                    BY <2>1, <5>1
                <5>3. l = 1 \/ snapshots[1].height < snapshots[l].height
                    BY <2>1, <5>1
                <5> QED BY <2>1, <2>2, <3>2, <5>1, <5>2, <5>3
            <4>2. tip - snapshots[l].height <= interval - 1
                <5> SUFFICES ASSUME tip >= snapshots[l].height + interval PROVE FALSE
                    BY <2>1, <4>1
                <5>1. PICK m \in snapshots[l].height + 1 .. snapshots[l].height + interval :
                          m % interval = 0
                    BY <2>1, <4>1, MultipleAmong
                <5>2. m \in Nat /\ snapshots[1].height < m /\ m <= tip /\ m > snapshots[l].height
                    BY <2>1, <4>1, <5>1, SMTT(40)
                <5>3. PICK i \in 1 .. l : snapshots[i].height = m
                    BY <2>3, <4>1, <5>1, <5>2
                <5>4. snapshots[i].height <= snapshots[l].height
                    <6>1. i = l \/ snapshots[i].height < snapshots[l].height
                        BY <2>1, <4>1
                    <6> QED BY <2>1, <4>1, <6>1
                <5> QED BY <4>1, <5>2, <5>3, <5>4
            <4>3. l >= 2 => /\ snapshots[2].height \in Nat
                            /\ snapshots[2].height - snapshots[1].height <= interval
                <5> SUFFICES ASSUME l >= 2
                             PROVE  /\ snapshots[2].height \in Nat
                                    /\ snapshots[2].height - snapshots[1].height <= interval
                    OBVIOUS
                <5>1. 2 \in 1 .. l /\ snapshots[2].height \in Nat /\ snapshots[2].height <= tip
                    BY <2>1, <2>2, <3>2
                <5>2. PICK m \in snapshots[1].height + 1 .. snapshots[1].height + interval :
                          m % interval = 0
                    BY <2>1, <4>1, MultipleAmong
                <5>3. m \in Nat /\ snapshots[1].height < m /\ m <= snapshots[1].height + interval
                    BY <2>1, <4>1, <5>2
                <5>4. CASE m > tip
                    BY <2>1, <4>1, <5>1, <5>3, <5>4
                <5>5. CASE m <= tip
                    <6>1. PICK i \in 1 .. l : snapshots[i].height = m
                        BY <2>3, <4>1, <5>2, <5>3, <5>5
                    <6>2. i # 1
                        BY <4>1, <5>3, <6>1
                    <6>3. i = 2 \/ snapshots[2].height < snapshots[i].height
                        BY <2>1, <5>1, <6>2
                    <6> QED BY <2>1, <4>1, <5>1, <5>3, <6>1, <6>3, SMTT(40)
                <5> QED BY <4>1, <5>3, <5>4, <5>5
            <4>4. tip - snapshots[1].height <= max_depth + 2 * interval - 2
                <5>1. CASE l = 1
                    BY <2>1, <4>1, <4>2, <5>1, SMTT(40)
                <5>2. CASE l >= 2
                    BY <2>1, <2>3, <4>1, <4>2, <4>3, <5>2, SMTT(40)
                <5> QED BY <2>1, <4>1, <5>1, <5>2
            <4>5. Len(deltas) <= tip - snapshots[1].height + 1
                BY <2>1, <2>4, <3>2, <4>1
            <4> QED BY <2>1, <4>1, <4>4, <4>5
        <3> QED BY <2>1, <3>1, <3>2
    <2> QED BY <2>5, <2>6 DEF JournalIsBounded, l
<1> QED BY <1>1, ChainInvariant, PTL

----------------------------------------------------------------------------
(* The follower implements the ledger.                                     *)

\* The blocks of the history, as the ledger reads them.
LEMMA BlocksFacts ==
    ASSUME history \in Seq(HistoryEntry)
    PROVE  /\ Blocks \in Seq(BlockSummary) /\ Len(Blocks) = Len(history)
           /\ DOMAIN Blocks = 1 .. Len(history)
           /\ \A i \in 1 .. Len(history) : Blocks[i] = BlockAt(history, i)
<1>1. /\ Len(history) \in Nat /\ DOMAIN history = 1 .. Len(history)
      /\ \A i \in 1 .. Len(history) : history[i].block \in BlockSummary
    BY HistoryType DEF BlockAt
<1>2. Blocks = [i \in 1 .. Len(history) |-> history[i].block]
    BY <1>1 DEF Blocks
<1>3. Blocks \in Seq(BlockSummary)
    BY <1>1, <1>2, IsASeq
<1>4. Len(Blocks) = Len(history)
    BY <1>1, <1>2, <1>3, LenProperties
<1> QED BY <1>1, <1>2, <1>3, <1>4 DEF BlockAt

\* A block that passes staging is valid on its chain: what the accumulators
\* say of spends and nullifiers is what the blocks say.
LEMMA AcceptedIsValid ==
    ASSUME ChainInv, NEW block \in served, ApplyBlock(block)
    PROVE  Ledger!Extend(block) /\ block \in Block
<1> DEFINE n == Len(history)
<1>1. /\ history \in Seq(HistoryEntry) /\ n \in Nat /\ StateIsSum(history, n)
      /\ GoodHistory(history, options)
      /\ state = After(history, n) /\ block \in Block /\ block \in BlockSummary
      /\ PassesStaging(state, block, options)
    BY Heights, BlockAssumption DEF ChainInv, GoodHistory, SettledPart, Settled, ApplyBlock, Types
<1>2. /\ Blocks \in Seq(BlockSummary) /\ Len(Blocks) = n /\ DOMAIN Blocks = 1 .. n
      /\ \A i \in 1 .. n : Blocks[i] = BlockAt(history, i)
    BY <1>1, BlocksFacts
<1> HIDE DEF n
<1>3. /\ Ledger!CreatedBy(Blocks) = CreatedUpTo(history, n)
      /\ Ledger!SpentBy(Blocks) = SpentUpTo(history, n)
      /\ \A p : Ledger!RevealedBy(Blocks, p) = RevealedUpTo(history, n, p)
    <2>1. {Range(Blocks[i].transparent_creates) : i \in 1 .. n}
              = {Range(BlockAt(history, i).transparent_creates) : i \in 1 .. n}
        BY <1>2
    <2>2. {Range(Blocks[i].transparent_spends) : i \in 1 .. n}
              = {Range(BlockAt(history, i).transparent_spends) : i \in 1 .. n}
        BY <1>2
    <2>3. ASSUME NEW p
          PROVE  {Range(Blocks[i].nullifiers[p]) : i \in 1 .. n}
                     = {Range(BlockAt(history, i).nullifiers[p]) : i \in 1 .. n}
        BY <1>2
    <2>4. Ledger!CreatedBy(Blocks) = CreatedUpTo(history, n)
        BY <1>2, <2>1 DEF Ledger!CreatedBy, CreatedUpTo, Range, Ledger!Range
    <2>5. Ledger!SpentBy(Blocks) = SpentUpTo(history, n)
        BY <1>2, <2>2 DEF Ledger!SpentBy, SpentUpTo, Range, Ledger!Range
    <2>6. ASSUME NEW p PROVE Ledger!RevealedBy(Blocks, p) = RevealedUpTo(history, n, p)
        BY <1>2, <2>3 DEF Ledger!RevealedBy, RevealedUpTo, Range, Ledger!Range
    <2> QED BY <2>4, <2>5, <2>6
<1>4. Blocks # <<>> => block.height = Blocks[Len(Blocks)].height + 1
    <2> SUFFICES ASSUME Blocks # <<>> PROVE block.height = Blocks[n].height + 1
        BY <1>2
    <2>1. n \in 1 .. n
        BY <1>1, <1>2, EmptySeq
    <2>2. BlockAt(history, n).height \in Nat /\ state.tip = BlockAt(history, n).height
        BY <1>1, <2>1, Heights DEF n
    <2>3. block.height = state.tip + 1
        BY <1>1, <2>2 DEF PassesStaging, Contiguous, NoTip
    <2> QED BY <1>2, <2>1, <2>2, <2>3
<1>5. /\ IsInjective(block.transparent_spends)
      /\ options.allow_unknown_spends
         \/ Range(block.transparent_spends)
              \subseteq (Ledger!CreatedBy(Blocks) \ Ledger!SpentBy(Blocks))
                            \cup Range(block.transparent_creates)
    BY <1>1, <1>3 DEF PassesStaging, SpendsResolve, NoRepeat, StateIsSum
<1>6. \A p \in Pool : /\ IsInjective(block.nullifiers[p])
                      /\ Range(block.nullifiers[p]) \cap Ledger!RevealedBy(Blocks, p) = {}
    BY <1>1, <1>3 DEF PassesStaging, NullifiersFresh, NoRepeat, StateIsSum
<1>7. Ledger!Valid(block)
    BY <1>4, <1>5, <1>6, Zenon
       DEF Ledger!Valid, Range, Ledger!Range, IsInjective, Ledger!IsInjective
<1>8. Blocks' = Append(Blocks, block)
    <2> DEFINE entry == [block |-> block, state |-> Applied(state, block)]
    <2>1. history' = Append(history, entry)
        BY DEF ApplyBlock
    <2>2. /\ history' \in Seq(HistoryEntry) /\ Len(history') = n + 1
          /\ history'[n + 1] = entry /\ \A i \in 1 .. n : history'[i] = history[i]
        <3>1. FreshFor(history, block)
            BY DEF ApplyBlock, CreatesFreshOutputs, FreshFor
        <3>2. /\ PassesStaging(After(history, n), block, options)
              /\ ForestHolds(After(history, n), SpentLeaves(After(history, n), block))
            BY <1>1 DEF ApplyBlock
        <3>3. /\ GoodHistory(history', options) /\ Len(history') = n + 1
              /\ history'[n + 1] = entry /\ \A i \in 1 .. n : history'[i] = history[i]
            BY <1>1, <2>1, <3>1, <3>2, GoodAppend DEF n
        <3> QED BY <3>3 DEF GoodHistory
    <2>3. Len(history') \in Nat /\ DOMAIN history' = 1 .. n + 1
        BY <1>1, <2>2, LenProperties
    <2>4. Blocks' = [i \in 1 .. n + 1 |-> history'[i].block]
        BY <2>3 DEF Blocks
    <2>5. /\ Append(Blocks, block) \in Seq(BlockSummary) /\ Len(Append(Blocks, block)) = n + 1
          /\ \A i \in 1 .. n : Append(Blocks, block)[i] = BlockAt(history, i)
          /\ Append(Blocks, block)[n + 1] = block
        BY <1>1, <1>2, AppendProperties
    <2>6. \A i \in 1 .. n + 1 : Append(Blocks, block)[i] = history'[i].block
        <3> TAKE i \in 1 .. n + 1
        <3>1. CASE i = n + 1
            BY <2>2, <2>5, <3>1
        <3>2. CASE i \in 1 .. n
            BY <2>2, <2>5, <3>2 DEF BlockAt
        <3>3. i = n + 1 \/ i \in 1 .. n
            BY <1>1
        <3> QED BY <3>1, <3>2, <3>3
    <2>7. Append(Blocks, block) = [i \in 1 .. n + 1 |-> Append(Blocks, block)[i]]
        BY <1>1, <2>5, LenProperties
    <2> QED BY <2>4, <2>6, <2>7
<1>9. options' = options
    BY DEF ApplyBlock, config
<1> QED BY <1>1, <1>7, <1>8, <1>9 DEF Ledger!Extend

\* For the ledger that is a reorganisation.
LEMMA RollbackIsReorganise ==
    ASSUME ChainInv, FinishRollback
    PROVE  Ledger!Reorganise
<1> DEFINE n == Len(history)
           t == target - Base(history)
<1>1. history \in Seq(HistoryEntry)
    BY DEF ChainInv, GoodHistory
<1>2. n \in Nat /\ t \in 1 .. n - 1 /\ Len(history') = t /\ DOMAIN history' = 1 .. t
      /\ \A i \in 1 .. t : history'[i] = history[i]
    BY RollbackShortens
<1> HIDE DEF t, n
<1>3. /\ Blocks \in Seq(BlockSummary) /\ Len(Blocks) = n
      /\ \A i \in 1 .. n : Blocks[i] = history[i].block
    BY <1>1, BlocksFacts DEF BlockAt, n
<1>4. /\ SubSeq(Blocks, 1, t) \in Seq(BlockSummary) /\ Len(SubSeq(Blocks, 1, t)) = t
      /\ \A i \in 1 .. t : SubSeq(Blocks, 1, t)[i] = history[i].block
    <2>1. \A i \in 1 .. t : i \in 1 .. n /\ Blocks[i] \in BlockSummary /\ Blocks[i] = history[i].block
        BY <1>2, <1>3, ElementOfSeq
    <2>2. /\ SubSeq(Blocks, 1, t) \in Seq(BlockSummary)
          /\ Len(SubSeq(Blocks, 1, t)) = IF 1 <= t THEN t - 1 + 1 ELSE 0
          /\ \A i \in 1 .. t - 1 + 1 : SubSeq(Blocks, 1, t)[i] = Blocks[1 + i - 1]
        BY <1>2, <2>1, SubSeqProperties
    <2>3. t - 1 + 1 = t /\ 1 <= t /\ \A i \in 1 .. t : 1 + i - 1 = i
        BY <1>2
    <2> QED BY <2>1, <2>2, <2>3
<1>5. Blocks' = [i \in 1 .. t |-> history'[i].block]
    BY <1>2 DEF Blocks
<1>6. SubSeq(Blocks, 1, t) = [i \in 1 .. t |-> SubSeq(Blocks, 1, t)[i]]
    BY <1>2, <1>4, LenProperties
<1>7. Blocks' = SubSeq(Blocks, 1, t)
    BY <1>2, <1>4, <1>5, <1>6
<1>8. t \in 1 .. Len(Blocks) - 1
    BY <1>2, <1>3
<1>9. options' = options
    BY DEF FinishRollback, config
<1> QED BY <1>7, <1>8, <1>9 DEF Ledger!Reorganise

\* The accumulators validate: the follower's chain is one the ledger allows,
\* and only its blocks decide.
THEOREM FollowerImplementsLedger == Spec => ImplementsLedger
<1>1. Init => Ledger!Init
    <2> SUFFICES ASSUME Init PROVE Ledger!Init
        OBVIOUS
    <2>1. history = <<>>
        BY DEF Init, Fresh
    <2>2. Blocks = <<>>
        <3>1. history \in Seq(HistoryEntry) /\ Len(history) = 0
            BY <2>1, EmptySeq
        <3>2. Blocks \in Seq(BlockSummary) /\ Len(Blocks) = 0
            BY <3>1, BlocksFacts
        <3> QED BY <3>2, EmptySeq
    <2>3. options.allow_unknown_spends \in BOOLEAN
        <3>1. PICK f \in Followers : options = f.options
            BY DEF Init
        <3> QED BY <3>1, FollowersAssumption DEF Follower, ApplyOptions
    <2> QED BY <2>2, <2>3 DEF Ledger!Init
<1>2. ChainInv /\ [Next]_vars => [Ledger!Next]_(Ledger!vars)
    <2> SUFFICES ASSUME ChainInv, [Next]_vars PROVE [Ledger!Next]_(Ledger!vars)
        OBVIOUS
    <2>1. ASSUME history' = history, options' = options PROVE UNCHANGED Ledger!vars
        BY <2>1 DEF Ledger!vars, Blocks
    <2>2. ASSUME NEW block \in served, ApplyBlock(block) PROVE Ledger!Next
        BY <2>2, AcceptedIsValid DEF Ledger!Next
    <2>3. CASE FinishRollback
        BY <2>3, RollbackIsReorganise DEF Ledger!Next
    <2>4. ASSUME NEW block \in served, ApplyBlockFails(block) PROVE UNCHANGED Ledger!vars
        BY <2>1, <2>4 DEF ApplyBlockFails, config, ghosts
    <2>5. CASE Record
        BY <2>1, <2>5 DEF Record, config
    <2>6. ASSUME NEW height \in 0 .. state.tip, RollbackTo(height) PROVE UNCHANGED Ledger!vars
        BY <2>1, <2>6 DEF RollbackTo, config, ghosts
    <2>7. ASSUME NEW k \in DOMAIN deltas, UndoDelta(k) PROVE UNCHANGED Ledger!vars
        BY <2>1, <2>7 DEF UndoDelta, config, ghosts
    <2>8. ASSUME NEW base \in DOMAIN snapshots, RestoreSnapshot(base) PROVE UNCHANGED Ledger!vars
        BY <2>1, <2>8 DEF RestoreSnapshot, config, ghosts
    <2>9. ASSUME NEW k \in DOMAIN deltas, ReplayDelta(k) PROVE UNCHANGED Ledger!vars
        BY <2>1, <2>9 DEF ReplayDelta, config, ghosts
    <2>10. CASE UNCHANGED vars
        BY <2>1, <2>10 DEF vars, config, ghosts
    <2> QED BY <2>2, <2>3, <2>4, <2>5, <2>6, <2>7, <2>8, <2>9, <2>10 DEF Next
<1> QED BY <1>1, <1>2, ChainInvariant, PTL DEF Spec, ImplementsLedger, Ledger!Spec

----------------------------------------------------------------------------
(* The fuzzer's chain and the follower's.                                  *)

\* A generated nullifier, or an altered one.
NullifierName == Value \cup {AlteredName(v) : v \in Value}

\* A block of the fuzzer's own chain.
FuzzerBlock == [height : Nat, transparent_spends : Seq(OutPoint),
                transparent_creates : Seq(OutPoint), nullifiers : [Pool -> Seq(NullifierName)]]

SameTransparent(b, c) ==
    /\ b.height = c.height
    /\ b.transparent_spends = c.transparent_spends
    /\ b.transparent_creates = c.transparent_creates

SameSizes(b, c) == \A p \in Pool : Len(b.nullifiers[p]) = Len(c.nullifiers[p])

\* The fuzzer's blocks are those of a history but for the names of nullifiers.
Resembles(blocks, h) ==
    \A k \in 1 .. Len(h) :
        SameTransparent(BlockAt(h, k), blocks[k]) /\ SameSizes(BlockAt(h, k), blocks[k])

\* They are those of the history.
Agrees(blocks, h) == \A k \in 1 .. Len(h) : blocks[k] = BlockAt(h, k)

\* The fuzzer has another nullifier where the follower has been given one.
Mistaken(blocks, h) ==
    \E k \in 1 .. Len(h), p \in Pool : blocks[k].nullifiers[p] # BlockAt(h, k).nullifiers[p]

\* The values revealed are names of nullifiers.
LEMMA ValuesAreNames == Seq(Value) \subseteq Seq(NullifierName)
<1> SUFFICES ASSUME NEW s \in Seq(Value) PROVE s \in Seq(NullifierName)
    OBVIOUS
<1>1. /\ Len(s) \in Nat /\ \A i \in 1 .. Len(s) : s[i] \in NullifierName
      /\ s = [i \in 1 .. Len(s) |-> s[i]]
    BY LenProperties DEF NullifierName
<1> QED BY <1>1, IsASeq

\* What a block of either kind is made of.
LEMMA FuzzerBlockType ==
    /\ BlockSummary \subseteq FuzzerBlock
    /\ \A b \in FuzzerBlock :
           /\ b.height \in Nat /\ b.transparent_spends \in Seq(OutPoint)
           /\ b.transparent_creates \in Seq(OutPoint)
           /\ \A p \in Pool : b.nullifiers[p] \in Seq(NullifierName)
<1>2. ASSUME NEW b \in BlockSummary PROVE b \in FuzzerBlock
    <2>1. b.nullifiers \in [Pool -> Seq(NullifierName)]
        BY ValuesAreNames, BlockType
    <2>2. b = [height |-> b.height, transparent_spends |-> b.transparent_spends,
               transparent_creates |-> b.transparent_creates, nullifiers |-> b.nullifiers]
        BY DEF BlockSummary
    <2>3. /\ b.height \in Nat /\ b.transparent_spends \in Seq(OutPoint)
          /\ b.transparent_creates \in Seq(OutPoint)
        BY BlockType
    <2> DEFINE height == b.height
               spends == b.transparent_spends
               creates == b.transparent_creates
               nulls == b.nullifiers
    <2> HIDE DEF height, spends, creates, nulls
    <2>4. [height |-> height, transparent_spends |-> spends,
           transparent_creates |-> creates, nullifiers |-> nulls] \in FuzzerBlock
        BY <2>1, <2>3 DEF height, spends, creates, nulls, FuzzerBlock
    <2> QED BY <2>2, <2>4 DEF height, spends, creates, nulls
<1>3. ASSUME NEW b \in FuzzerBlock
      PROVE  /\ b.height \in Nat /\ b.transparent_spends \in Seq(OutPoint)
             /\ b.transparent_creates \in Seq(OutPoint)
             /\ \A p \in Pool : b.nullifiers[p] \in Seq(NullifierName)
    BY DEF FuzzerBlock
<1> QED BY <1>2, <1>3

----------------------------------------------------------------------------
(* The cold replay.                                                        *)

\* A state with other nullifiers.
WithNullifiers(s, trees) ==
    [utxos |-> s.utxos, utxo_index |-> s.utxo_index, nullifiers |-> trees, tip |-> s.tip]

\* A state is its four parts.
LEMMA StateParts ==
    ASSUME NEW s \in State
    PROVE  s = WithNullifiers(s, s.nullifiers)
BY DEF State, WithNullifiers

\* What apply_block does, part by part.
LEMMA AppliedShape ==
    ASSUME NEW s, NEW trees, NEW block
    PROVE  Applied(WithNullifiers(s, trees), block) =
               [utxos |-> ForestInserts(ForestDeletes(s.utxos, SpentLeaves(s, block)),
                                        CreatedLeaves(s, block)),
                utxo_index |-> IndexWith(IndexWithout(s.utxo_index, Outpoints(SpentLeaves(s, block))),
                                         CreatedLeaves(s, block)),
                nullifiers |-> [p \in Pool |-> trees[p] \o block.nullifiers[p]],
                tip |-> block.height]
<1> DEFINE x == WithNullifiers(s, trees)
           spent == SpentLeaves(s, block)
           created == CreatedLeaves(s, block)
           forest == ForestInserts(ForestDeletes(s.utxos, spent), created)
           index == IndexWith(IndexWithout(s.utxo_index, Outpoints(spent)), created)
<1>1. /\ x.utxos = s.utxos /\ x.utxo_index = s.utxo_index
      /\ x.nullifiers = trees /\ x.tip = s.tip
    BY DEF WithNullifiers
<1>2. SpentLeaves(x, block) = spent
    <2> HIDE DEF x
    <2> QED BY <1>1 DEF SpentLeaves
<1>3. CreatedLeaves(x, block) = created
    <2> HIDE DEF x
    <2> QED BY <1>1 DEF CreatedLeaves, Cancelled
<1>4. Delta(x, block).spent = spent /\ Delta(x, block).created = created
    BY <1>2, <1>3 DEF Delta
<1> HIDE DEF spent, created
<1>5. WithTransparent(x, Delta(x, block)) =
          [utxos |-> forest, utxo_index |-> index, nullifiers |-> trees, tip |-> s.tip]
    <2> DEFINE d == Delta(x, block)
    <2> HIDE DEF d
    <2>1. d.spent = spent /\ d.created = created
        BY <1>4 DEF d
    <2>2. WithTransparent(x, d) =
              [x EXCEPT !.utxos = ForestInserts(ForestDeletes(x.utxos, d.spent), d.created),
                        !.utxo_index = IndexWith(IndexWithout(x.utxo_index, Outpoints(d.spent)),
                                                 d.created)]
        BY DEF WithTransparent
    <2>3. WithTransparent(x, d) = [x EXCEPT !.utxos = forest, !.utxo_index = index]
        <3> HIDE DEF x
        <3> QED BY <1>1, <2>1, <2>2
    <2> HIDE DEF forest, index
    <2> QED BY <2>3 DEF d, WithNullifiers
<1> DEFINE next == WithTransparent(x, Delta(x, block))
<1>6. Applied(x, block) =
          [next EXCEPT !.nullifiers = [p \in Pool |-> next.nullifiers[p] \o block.nullifiers[p]],
                       !.tip = block.height]
    BY DEF Applied
<1> HIDE DEF next, forest, index
<1>7. next.nullifiers = trees
    BY <1>5 DEF next
<1> DEFINE longer == [p \in Pool |-> trees[p] \o block.nullifiers[p]]
<1>8. Applied(x, block) = [next EXCEPT !.nullifiers = longer, !.tip = block.height]
    BY <1>6, <1>7
<1>9. next = [utxos |-> forest, utxo_index |-> index, nullifiers |-> trees, tip |-> s.tip]
    BY <1>5 DEF next
<1> HIDE DEF longer, x
<1>10. Applied(x, block) =
           [utxos |-> forest, utxo_index |-> index, nullifiers |-> longer, tip |-> block.height]
    BY <1>8, <1>9
<1> QED BY <1>10 DEF x, forest, index, longer, spent, created

\* Trees with a block's nullifiers at their ends.
Lengthened(longer, trees, block) == longer = [p \in Pool |-> trees[p] \o block.nullifiers[p]]

\* The nullifiers of a state and of a block do not meet their transparent parts.
LEMMA AppliedApart ==
    ASSUME NEW s \in State, NEW trees, NEW b, NEW c, SameTransparent(b, c),
           NEW longer, Lengthened(longer, trees, c)
    PROVE  Applied(WithNullifiers(s, trees), c) = WithNullifiers(Applied(s, b), longer)
<1> DEFINE spent == SpentLeaves(s, b)
           created == CreatedLeaves(s, b)
           forest == ForestInserts(ForestDeletes(s.utxos, spent), created)
           index == IndexWith(IndexWithout(s.utxo_index, Outpoints(spent)), created)
<1>1. SpentLeaves(s, c) = spent
    BY DEF SpentLeaves, SameTransparent
<1>2. CreatedLeaves(s, c) = created
    BY DEF CreatedLeaves, Cancelled, SameTransparent
<1> HIDE DEF spent, created
<1>3. Applied(WithNullifiers(s, trees), c) =
          [utxos |-> forest, utxo_index |-> index, nullifiers |-> longer, tip |-> c.height]
    BY <1>1, <1>2, AppliedShape DEF Lengthened
<1>4. /\ Applied(s, b).utxos = forest /\ Applied(s, b).utxo_index = index
      /\ Applied(s, b).tip = b.height
    <2>1. Applied(s, b) = Applied(WithNullifiers(s, s.nullifiers), b)
        BY StateParts
    <2> DEFINE trees2 == [p \in Pool |-> s.nullifiers[p] \o b.nullifiers[p]]
    <2>2. Applied(s, b) = [utxos |-> forest, utxo_index |-> index, nullifiers |-> trees2, tip |-> b.height]
        BY <2>1, AppliedShape DEF spent, created
    <2> HIDE DEF trees2, forest, index
    <2> QED BY <2>2
<1> HIDE DEF forest, index
<1>5. b.height = c.height
    BY DEF SameTransparent
<1> QED BY <1>3, <1>4, <1>5 DEF WithNullifiers

\* A function on 0 .. n.
Tabulates(f, n) == f = [k \in 0 .. n |-> f[k]]

\* A function that replays the blocks is the one cold_replay computes.
LEMMA ColdReplayIs ==
    ASSUME NEW n \in Nat, NEW blocks, Len(blocks) = n, NEW f, Tabulates(f, n),
           f[0] = NewState, \A k \in 1 .. n : f[k] = Applied(f[k - 1], blocks[k])
    PROVE  ColdReplay(blocks) = f[n]
<1> DEFINE Runs(g) == g = [k \in 0 .. Len(blocks) |->
                              IF k = 0 THEN NewState ELSE Applied(g[k - 1], blocks[k])]
           replayed == CHOOSE g : Runs(g)
<1>1. Runs(f)
    <2> DEFINE g == [k \in 0 .. n |-> IF k = 0 THEN NewState ELSE Applied(f[k - 1], blocks[k])]
    <2>1. \A k \in 0 .. n : f[k] = g[k]
        <3> TAKE k \in 0 .. n
        <3>1. k = 0 \/ k \in 1 .. n
            OBVIOUS
        <3>2. k \in 1 .. n => k # 0
            OBVIOUS
        <3> QED BY <3>1, <3>2
    <2>2. f = g
        <3>1. g = [k \in 0 .. n |-> g[k]]
            OBVIOUS
        <3> HIDE DEF g
        <3> QED BY <2>1, <3>1 DEF Tabulates
    <2> QED BY <2>2
<1>2. Runs(replayed)
    <2> HIDE DEF Runs
    <2> QED BY <1>1
<1>3. ColdReplay(blocks) = replayed[Len(blocks)]
    BY DEF ColdReplay
<1> HIDE DEF replayed
<1>4. replayed[0] = NewState /\ \A k \in 1 .. n : replayed[k] = Applied(replayed[k - 1], blocks[k])
    <2>1. replayed = [k \in 0 .. n |->
                          IF k = 0 THEN NewState ELSE Applied(replayed[k - 1], blocks[k])]
        BY <1>2
    <2>2. \A k \in 0 .. n :
              replayed[k] = IF k = 0 THEN NewState ELSE Applied(replayed[k - 1], blocks[k])
        BY ONLY <2>1
    <2>3. 0 \in 0 .. n /\ \A k \in 1 .. n : k \in 0 .. n /\ k # 0
        OBVIOUS
    <2> QED BY <2>2, <2>3
<1> DEFINE Good == {k \in 0 .. n : replayed[k] = f[k]}
<1>5. 0 \in Good
    BY <1>4
<1>6. ASSUME NEW k \in 1 .. n, k - 1 \in Good PROVE k \in Good
    <2>1. k \in 0 .. n
        OBVIOUS
    <2> QED BY <1>4, <1>6, <2>1
<1>7. n \in Good
    <2> HIDE DEF Good
    <2>1. \A k \in 0 .. n : k \in Good
        BY <1>5, <1>6, UpTo
    <2> QED BY <2>1
<1> QED BY <1>3, <1>7

\* So is a function that counts what they reveal.
LEMMA RevealedIs ==
    ASSUME NEW n \in Nat, NEW blocks, Len(blocks) = n, NEW p, NEW f, Tabulates(f, n),
           f[0] = 0, \A k \in 1 .. n : f[k] = f[k - 1] + Len(blocks[k].nullifiers[p])
    PROVE  Revealed(blocks, p) = f[n]
<1> DEFINE Runs(g) == g = [k \in 0 .. Len(blocks) |->
                              IF k = 0 THEN 0 ELSE g[k - 1] + Len(blocks[k].nullifiers[p])]
           revealed == CHOOSE g : Runs(g)
<1>1. Runs(f)
    <2> DEFINE g == [k \in 0 .. n |-> IF k = 0 THEN 0 ELSE f[k - 1] + Len(blocks[k].nullifiers[p])]
    <2>1. \A k \in 0 .. n : f[k] = g[k]
        <3> TAKE k \in 0 .. n
        <3>1. k = 0 \/ k \in 1 .. n
            OBVIOUS
        <3>2. k \in 1 .. n => k # 0
            OBVIOUS
        <3> QED BY <3>1, <3>2
    <2>2. f = g
        <3>1. g = [k \in 0 .. n |-> g[k]]
            OBVIOUS
        <3> HIDE DEF g
        <3> QED BY <2>1, <3>1 DEF Tabulates
    <2> QED BY <2>2
<1>2. Runs(revealed)
    <2> HIDE DEF Runs
    <2> QED BY <1>1
<1>3. Revealed(blocks, p) = revealed[Len(blocks)]
    BY DEF Revealed
<1> HIDE DEF revealed
<1>4. revealed[0] = 0
      /\ \A k \in 1 .. n : revealed[k] = revealed[k - 1] + Len(blocks[k].nullifiers[p])
    <2>1. revealed = [k \in 0 .. n |->
                          IF k = 0 THEN 0 ELSE revealed[k - 1] + Len(blocks[k].nullifiers[p])]
        BY <1>2
    <2>2. \A k \in 0 .. n :
              revealed[k] = IF k = 0 THEN 0 ELSE revealed[k - 1] + Len(blocks[k].nullifiers[p])
        BY ONLY <2>1
    <2>3. 0 \in 0 .. n /\ \A k \in 1 .. n : k \in 0 .. n /\ k # 0
        OBVIOUS
    <2> QED BY <2>2, <2>3
<1> DEFINE Good == {k \in 0 .. n : revealed[k] = f[k]}
<1>5. 0 \in Good
    BY <1>4
<1>6. ASSUME NEW k \in 1 .. n, k - 1 \in Good PROVE k \in Good
    <2>1. k \in 0 .. n
        OBVIOUS
    <2> QED BY <1>4, <1>6, <2>1
<1>7. n \in Good
    <2> HIDE DEF Good
    <2>1. \A k \in 0 .. n : k \in Good
        BY <1>5, <1>6, UpTo
    <2> QED BY <2>1
<1> QED BY <1>3, <1>7

\* The nullifiers that the first blocks of a sequence reveal, block by block.
Joined(blocks, t, n) ==
    /\ t \in [0 .. n -> [Pool -> Seq(NullifierName)]]
    /\ \A p \in Pool : t[0][p] = <<>>
    /\ \A k \in 1 .. n : \A p \in Pool : t[k][p] = t[k - 1][p] \o blocks[k].nullifiers[p]

\* Every sequence of blocks has them.
LEMMA JoinedExists ==
    ASSUME NEW blocks \in Seq(FuzzerBlock)
    PROVE  \E t : Joined(blocks, t, Len(blocks))
<1> DEFINE n == Len(blocks)
           trees == [Pool -> Seq(NullifierName)]
           base == [p \in Pool |-> <<>>]
           joins == [k \in 1 .. n |-> [x \in trees |->
                        [p \in Pool |-> x[p] \o blocks[k].nullifiers[p]]]]
<1>1. n \in Nat /\ \A k \in 1 .. n : blocks[k] \in FuzzerBlock
    BY LenProperties
<1>2. base \in trees
    OBVIOUS
<1>3. \A k \in 1 .. n : \A x \in trees :
          /\ joins[k][x] \in trees
          /\ \A p \in Pool : joins[k][x][p] = x[p] \o blocks[k].nullifiers[p]
    <2> TAKE k \in 1 .. n
    <2> TAKE x \in trees
    <2>1. \A p \in Pool : x[p] \in Seq(NullifierName) /\ blocks[k].nullifiers[p] \in Seq(NullifierName)
        BY <1>1, FuzzerBlockType
    <2>2. \A p \in Pool : x[p] \o blocks[k].nullifiers[p] \in Seq(NullifierName)
        BY <2>1, ConcatProperties
    <2> QED BY <2>2
<1>4. \A p \in Pool : base[p] = <<>>
    OBVIOUS
<1> HIDE DEF joins, base, n
<1>5. PICK t \in [0 .. n -> trees] : Computes(t, joins, base, n)
    <2>1. StaysIn(trees, joins, n)
        BY <1>3 DEF StaysIn
    <2> HIDE DEF trees
    <2> QED BY <1>1, <1>2, <2>1, Recursion
<1>6. \A k \in 0 .. n : t[k] \in trees
    OBVIOUS
<1>7. \A k \in 1 .. n : \A p \in Pool : t[k][p] = t[k - 1][p] \o blocks[k].nullifiers[p]
    <2> TAKE k \in 1 .. n
    <2>1. k - 1 \in 0 .. n /\ t[k] = joins[k][t[k - 1]]
        BY <1>1, <1>5 DEF Computes
    <2>2. t[k - 1] \in trees
        BY <1>6, <2>1
    <2> HIDE DEF trees
    <2> QED BY <1>3, <2>1, <2>2
<1>8. Joined(blocks, t, n)
    BY <1>4, <1>5, <1>7 DEF Computes, Joined
<1> QED BY <1>8 DEF n

\* The nullifiers of a good history's states.
LEMMA HistoryJoins ==
    ASSUME NEW h, NEW opts, GoodHistory(h, opts)
    PROVE  /\ \A k \in 0 .. Len(h) : After(h, k) \in State
           /\ \A p \in Pool : After(h, 0).nullifiers[p] = <<>>
           /\ \A k \in 0 .. Len(h) : \A p \in Pool : After(h, k).nullifiers[p] \in Seq(Value)
           /\ \A k \in 1 .. Len(h) :
                  /\ k - 1 \in 0 .. Len(h) /\ k \in 0 .. Len(h)
                  /\ BlockAt(h, k) \in BlockSummary
                  /\ After(h, k) = Applied(After(h, k - 1), BlockAt(h, k))
                  /\ \A p \in Pool :
                         /\ BlockAt(h, k).nullifiers[p] \in Seq(Value)
                         /\ After(h, k).nullifiers[p]
                                = After(h, k - 1).nullifiers[p] \o BlockAt(h, k).nullifiers[p]
<1>1. h \in Seq(HistoryEntry) /\ Len(h) \in Nat
    BY Heights DEF GoodHistory
<1>2. /\ \A k \in 0 .. Len(h) : After(h, k) \in State
      /\ \A k \in 1 .. Len(h) : BlockAt(h, k) \in BlockSummary
    BY <1>1, HistoryType
<1>3. \A p \in Pool : After(h, 0).nullifiers[p] = <<>>
    BY NewStateType DEF After
<1>4. \A k \in 0 .. Len(h) : \A p \in Pool : After(h, k).nullifiers[p] \in Seq(Value)
    BY <1>2 DEF State
<1>5. ASSUME NEW k \in 1 .. Len(h)
      PROVE  /\ k - 1 \in 0 .. Len(h) /\ k \in 0 .. Len(h)
             /\ After(h, k) = Applied(After(h, k - 1), BlockAt(h, k))
             /\ \A p \in Pool :
                    /\ BlockAt(h, k).nullifiers[p] \in Seq(Value)
                    /\ After(h, k).nullifiers[p]
                           = After(h, k - 1).nullifiers[p] \o BlockAt(h, k).nullifiers[p]
    <2>1. EntryApplied(h, k, opts)
        BY DEF GoodHistory
    <2>2. h[k].state = After(h, k)
        BY <1>1 DEF After
    <2>3. k - 1 \in 0 .. Len(h) /\ k \in 0 .. Len(h)
        BY <1>1
    <2>4. \A p \in Pool : BlockAt(h, k).nullifiers[p] \in Seq(Value)
        BY <1>2, BlockType
    <2> QED BY <2>1, <2>2, <2>3, <2>4 DEF EntryApplied
<1> QED BY <1>2, <1>3, <1>4, <1>5

\* A cold replay of blocks that resemble a history reaches its state, but for
\* the nullifiers, which are those of the blocks.
LEMMA ColdReplayOf ==
    ASSUME NEW h, NEW opts, GoodHistory(h, opts), NEW blocks \in Seq(FuzzerBlock),
           Len(blocks) = Len(h), Resembles(blocks, h), NEW t, Joined(blocks, t, Len(h))
    PROVE  ColdReplay(blocks) = WithNullifiers(After(h, Len(h)), t[Len(h)])
<1> DEFINE n == Len(h)
           f == [k \in 0 .. n |-> WithNullifiers(After(h, k), t[k])]
<1>1. n \in Nat
    BY Heights
<1>2. \A k \in 0 .. n : f[k] = WithNullifiers(After(h, k), t[k])
    OBVIOUS
<1>3. Tabulates(f, n)
    BY DEF Tabulates
<1> HIDE DEF f
<1>4. f[0] = NewState
    <2>1. f[0] = WithNullifiers(NewState, t[0])
        BY <1>1, <1>2 DEF After
    <2>2. NewState.nullifiers = t[0]
        <3>1. t[0] \in [Pool -> Seq(NullifierName)] /\ \A p \in Pool : t[0][p] = <<>>
            BY <1>1 DEF Joined
        <3>2. NewState.nullifiers = [p \in Pool |-> <<>>]
            BY DEF NewState
        <3> QED BY <3>1, <3>2
    <2>3. NewState = WithNullifiers(NewState, NewState.nullifiers)
        BY NewStateType, StateParts
    <2> QED BY <2>1, <2>2, <2>3
<1>5. ASSUME NEW k \in 1 .. n PROVE f[k] = Applied(f[k - 1], blocks[k])
    <2> DEFINE s == After(h, k - 1)
               b == BlockAt(h, k)
               c == blocks[k]
               longer == [p \in Pool |-> t[k - 1][p] \o c.nullifiers[p]]
    <2>1. s \in State /\ After(h, k) = Applied(s, b) /\ k - 1 \in 0 .. n /\ k \in 0 .. n
        BY HistoryJoins
    <2>2. SameTransparent(b, c)
        BY DEF Resembles
    <2>3. f[k - 1] = WithNullifiers(s, t[k - 1]) /\ f[k] = WithNullifiers(Applied(s, b), t[k])
        BY <1>2, <2>1
    <2>4. t[k] = longer
        <3>1. t[k] \in [Pool -> Seq(NullifierName)]
            BY <2>1 DEF Joined
        <3>2. \A p \in Pool : t[k][p] = t[k - 1][p] \o c.nullifiers[p]
            BY DEF Joined
        <3> QED BY <3>1, <3>2
    <2> DEFINE before == t[k - 1]
    <2>5. Lengthened(longer, before, c)
        BY DEF Lengthened
    <2> HIDE DEF s, b, c, before, longer
    <2>6. Applied(WithNullifiers(s, before), c) = WithNullifiers(Applied(s, b), longer)
        BY <2>1, <2>2, <2>5, AppliedApart
    <2> QED BY <2>3, <2>4, <2>6 DEF c, before
<1>6. Len(blocks) = n
    OBVIOUS
<1> HIDE DEF n
<1>7. ColdReplay(blocks) = f[n]
    BY ONLY <1>1, <1>3, <1>4, <1>5, <1>6, ColdReplayIs
<1>8. f[n] = WithNullifiers(After(h, n), t[n])
    BY <1>1, <1>2
<1> QED BY <1>7, <1>8 DEF n

\* A cold replay of the blocks of a history reaches its state.
LEMMA ReplayOfItsBlocks ==
    ASSUME NEW h, NEW opts, GoodHistory(h, opts), NEW blocks \in Seq(FuzzerBlock),
           Len(blocks) = Len(h), Agrees(blocks, h)
    PROVE  ColdReplay(blocks) = After(h, Len(h))
<1> DEFINE n == Len(h)
           f == [k \in 0 .. n |-> After(h, k)]
<1>1. n \in Nat
    BY Heights
<1>2. \A k \in 0 .. n : f[k] = After(h, k)
    OBVIOUS
<1>3. Tabulates(f, n)
    BY DEF Tabulates
<1> HIDE DEF f
<1>4. f[0] = NewState
    BY <1>1, <1>2 DEF After
<1>5. ASSUME NEW k \in 1 .. n PROVE f[k] = Applied(f[k - 1], blocks[k])
    <2>1. After(h, k) = Applied(After(h, k - 1), BlockAt(h, k)) /\ k - 1 \in 0 .. n /\ k \in 0 .. n
        BY HistoryJoins
    <2> QED BY <1>2, <2>1 DEF Agrees
<1> HIDE DEF n
<1>6. ColdReplay(blocks) = f[n]
    BY <1>1, <1>3, <1>4, <1>5, ColdReplayIs DEF n
<1> QED BY <1>1, <1>2, <1>6 DEF n

\* The trees are as long as the blocks say.
LEMMA TreeSizes ==
    ASSUME NEW h, NEW opts, GoodHistory(h, opts), NEW blocks \in Seq(FuzzerBlock),
           Len(blocks) = Len(h), Resembles(blocks, h), NEW t, Joined(blocks, t, Len(h)),
           NEW p \in Pool
    PROVE  /\ Revealed(blocks, p) = Len(After(h, Len(h)).nullifiers[p])
           /\ \A k \in 0 .. Len(h) : Len(t[k][p]) = Len(After(h, k).nullifiers[p])
<1> DEFINE n == Len(h)
           f == [k \in 0 .. n |-> Len(After(h, k).nullifiers[p])]
<1>1. n \in Nat
    BY Heights
<1>2. \A k \in 0 .. n : f[k] = Len(After(h, k).nullifiers[p])
    OBVIOUS
<1>3. Tabulates(f, n)
    BY DEF Tabulates
<1> HIDE DEF f
<1>4. f[0] = 0
    <2>1. After(h, 0).nullifiers[p] = <<>>
        BY HistoryJoins
    <2> QED BY <1>1, <1>2, <2>1, EmptySeq
<1>5. ASSUME NEW k \in 1 .. n
      PROVE  /\ f[k] = f[k - 1] + Len(blocks[k].nullifiers[p])
             /\ Len(t[k][p]) = Len(t[k - 1][p]) + Len(blocks[k].nullifiers[p])
             /\ k - 1 \in 0 .. n
    <2>1. /\ k - 1 \in 0 .. n /\ k \in 0 .. n
          /\ After(h, k).nullifiers[p] = After(h, k - 1).nullifiers[p] \o BlockAt(h, k).nullifiers[p]
          /\ After(h, k - 1).nullifiers[p] \in Seq(Value) /\ BlockAt(h, k).nullifiers[p] \in Seq(Value)
        BY HistoryJoins
    <2>2. Len(BlockAt(h, k).nullifiers[p]) = Len(blocks[k].nullifiers[p])
        BY DEF Resembles, SameSizes
    <2>3. Len(After(h, k).nullifiers[p])
              = Len(After(h, k - 1).nullifiers[p]) + Len(BlockAt(h, k).nullifiers[p])
        BY <2>1, ConcatProperties
    <2>4. blocks[k].nullifiers[p] \in Seq(NullifierName)
        <3>1. k \in 1 .. Len(blocks)
            OBVIOUS
        <3>2. blocks[k] \in FuzzerBlock
            BY <3>1, ElementOfSeq
        <3> QED BY <3>2, FuzzerBlockType
    <2>5. t[k - 1][p] \in Seq(NullifierName) /\ t[k][p] = t[k - 1][p] \o blocks[k].nullifiers[p]
        BY <2>1 DEF Joined
    <2>6. Len(t[k][p]) = Len(t[k - 1][p]) + Len(blocks[k].nullifiers[p])
        BY <2>4, <2>5, ConcatProperties
    <2>7. f[k] = Len(After(h, k).nullifiers[p]) /\ f[k - 1] = Len(After(h, k - 1).nullifiers[p])
        BY <1>2, <2>1
    <2> QED BY <2>1, <2>2, <2>3, <2>6, <2>7
<1>6. Revealed(blocks, p) = f[n]
    <2>1. Len(blocks) = n
        OBVIOUS
    <2>2. \A k \in 1 .. n : f[k] = f[k - 1] + Len(blocks[k].nullifiers[p])
        BY <1>5
    <2> HIDE DEF n
    <2> QED BY ONLY <1>1, <1>3, <1>4, <2>1, <2>2, RevealedIs
<1> DEFINE Good == {k \in 0 .. n : Len(t[k][p]) = f[k]}
<1>7. 0 \in Good
    <2>1. t[0][p] = <<>>
        BY DEF Joined
    <2> QED BY <1>1, <1>4, <2>1, EmptySeq
<1>8. ASSUME NEW k \in 1 .. n, k - 1 \in Good PROVE k \in Good
    <2>1. k \in 0 .. n
        BY <1>1
    <2> QED BY <1>5, <1>8, <2>1
<1>9. \A k \in 0 .. n : k \in Good
    <2> HIDE DEF Good
    <2> QED BY <1>1, <1>7, <1>8, UpTo
<1>10. n \in 0 .. n
    BY <1>1
<1> QED BY <1>2, <1>6, <1>9, <1>10

\* A cold replay of blocks that resemble a history reaches its state only when
\* they are its blocks.
LEMMA ReplayTellsThemApart ==
    ASSUME NEW h, NEW opts, GoodHistory(h, opts), NEW blocks \in Seq(FuzzerBlock),
           Len(blocks) = Len(h), Resembles(blocks, h), ColdReplay(blocks) = After(h, Len(h))
    PROVE  ~Mistaken(blocks, h)
<1> DEFINE n == Len(h)
<1>1. n \in Nat
    BY Heights
<1>2. PICK t : Joined(blocks, t, n)
    BY JoinedExists
<1>3. \A p \in Pool : t[n][p] = After(h, n).nullifiers[p]
    <2>1. After(h, n) = WithNullifiers(After(h, n), t[n])
        BY <1>2, ColdReplayOf
    <2> QED BY <2>1 DEF WithNullifiers
<1> SUFFICES ASSUME NEW p \in Pool
             PROVE  \A k \in 1 .. n : blocks[k].nullifiers[p] = BlockAt(h, k).nullifiers[p]
    BY DEF Mistaken
<1>4. Seq(Value) \subseteq Seq(NullifierName)
    BY ValuesAreNames
<1>5. ASSUME NEW k \in 1 .. n, t[k][p] = After(h, k).nullifiers[p]
      PROVE  /\ t[k - 1][p] = After(h, k - 1).nullifiers[p]
             /\ blocks[k].nullifiers[p] = BlockAt(h, k).nullifiers[p]
    <2>1. /\ k - 1 \in 0 .. n
          /\ After(h, k).nullifiers[p] = After(h, k - 1).nullifiers[p] \o BlockAt(h, k).nullifiers[p]
          /\ After(h, k - 1).nullifiers[p] \in Seq(NullifierName)
          /\ BlockAt(h, k).nullifiers[p] \in Seq(NullifierName)
        BY <1>4, HistoryJoins
    <2>2. Len(t[k - 1][p]) = Len(After(h, k - 1).nullifiers[p])
        BY <1>2, <2>1, TreeSizes
    <2>3. t[k - 1][p] \in Seq(NullifierName) /\ t[k][p] = t[k - 1][p] \o blocks[k].nullifiers[p]
        BY <1>2, <2>1 DEF Joined
    <2>4. blocks[k].nullifiers[p] \in Seq(NullifierName)
        <3>1. blocks[k] \in FuzzerBlock
            BY ElementOfSeq
        <3> QED BY <3>1, FuzzerBlockType
    <2> DEFINE s == t[k - 1][p]
               r == After(h, k - 1).nullifiers[p]
               u == blocks[k].nullifiers[p]
               v == BlockAt(h, k).nullifiers[p]
    <2>5. /\ s \in Seq(NullifierName) /\ r \in Seq(NullifierName)
          /\ u \in Seq(NullifierName) /\ v \in Seq(NullifierName)
          /\ Len(s) = Len(r) /\ s \o u = r \o v
        BY <1>5, <2>1, <2>2, <2>3, <2>4
    <2> HIDE DEF s, r, u, v
    <2>6. s = r /\ u = v
        BY ONLY <2>5, ConcatCancels
    <2> QED BY <2>6 DEF s, r, u, v
<1> DEFINE Good == {j \in 0 .. n : t[n - j][p] = After(h, n - j).nullifiers[p]}
<1>6. 0 \in Good
    <2>1. n - 0 = n
        BY <1>1
    <2> QED BY <1>1, <1>3, <2>1
<1>7. ASSUME NEW j \in 1 .. n, j - 1 \in Good PROVE j \in Good
    <2>1. n - (j - 1) \in 1 .. n /\ n - (j - 1) - 1 = n - j /\ j \in 0 .. n
        BY <1>1
    <2> QED BY <1>5, <1>7, <2>1
<1>8. \A j \in 0 .. n : j \in Good
    <2> HIDE DEF Good
    <2> QED BY <1>1, <1>6, <1>7, UpTo
<1>9. ASSUME NEW k \in 1 .. n PROVE t[k][p] = After(h, k).nullifiers[p]
    <2>1. n - k \in 0 .. n /\ n - (n - k) = k
        BY <1>1
    <2> QED BY <1>8, <2>1
<1> QED BY <1>5, <1>9

----------------------------------------------------------------------------
(* What the cheap tier counts.                                             *)

\* The blocks and the outputs they name are in order: an output is named for
\* the height and the branch of the block that creates it, and spent later.
MadeInOrder(blocks, top) ==
    \A k \in 1 .. Len(blocks) :
        /\ blocks[k].height = k
        /\ \A o \in Range(blocks[k].transparent_creates) : o[1] = k /\ o[2] \in 0 .. top
        /\ \A o \in Range(blocks[k].transparent_spends) : o[1] \in 0 .. k - 1

\* An entry more, for both chains.
LEMMA OneBlockMore ==
    ASSUME NEW S, NEW s \in Seq(S), NEW e \in S
    PROVE  /\ Append(s, e) \in Seq(S) /\ Len(s) \in Nat /\ Len(Append(s, e)) = Len(s) + 1
           /\ Append(s, e)[Len(s) + 1] = e
           /\ \A k \in 1 .. Len(s) : Append(s, e)[k] = s[k]
           /\ DOMAIN s = 1 .. Len(s) /\ DOMAIN Append(s, e) = 1 .. Len(s) + 1
OBVIOUS

\* What is left of a chain.
LEMMA CutBack ==
    ASSUME NEW S, NEW s \in Seq(S), NEW n \in 0 .. Len(s)
    PROVE  /\ SubSeq(s, 1, n) \in Seq(S) /\ Len(SubSeq(s, 1, n)) = n
           /\ \A k \in 1 .. n : SubSeq(s, 1, n)[k] = s[k]
OBVIOUS

\* What the blocks reveal is counted block by block.
LEMMA RevealedGrows ==
    ASSUME NEW blocks \in Seq(FuzzerBlock), NEW b \in FuzzerBlock, NEW p \in Pool
    PROVE  /\ Revealed(blocks, p) \in Nat
           /\ Revealed(Append(blocks, b), p) = Revealed(blocks, p) + Len(b.nullifiers[p])
<1> DEFINE longer == Append(blocks, b)
           n == Len(blocks)
<1>1. /\ longer \in Seq(FuzzerBlock) /\ n \in Nat /\ Len(longer) = n + 1
      /\ longer[n + 1] = b /\ \A k \in 1 .. n : longer[k] = blocks[k]
    BY OneBlockMore
<1> HIDE DEF longer, n
<1>2. PICK t : Joined(longer, t, n + 1)
    BY <1>1, JoinedExists
<1> DEFINE f == [k \in 0 .. n + 1 |-> Len(t[k][p])]
           g == [k \in 0 .. n |-> Len(t[k][p])]
<1>3. \A k \in 0 .. n + 1 : f[k] = Len(t[k][p])
    OBVIOUS
<1>4. \A k \in 0 .. n : g[k] = Len(t[k][p])
    OBVIOUS
<1>5. Tabulates(f, n + 1) /\ Tabulates(g, n)
    BY DEF Tabulates
<1> HIDE DEF f, g
<1>6. f[0] = 0 /\ g[0] = 0
    <2>1. t[0][p] = <<>>
        BY <1>2 DEF Joined
    <2> QED BY <1>1, <1>3, <1>4, <2>1, EmptySeq
<1>7. ASSUME NEW k \in 1 .. n + 1
      PROVE  f[k] = f[k - 1] + Len(longer[k].nullifiers[p]) /\ f[k - 1] \in Nat
    <2>1. k - 1 \in 0 .. n + 1 /\ k \in 0 .. n + 1
        BY <1>1
    <2>2. t[k - 1][p] \in Seq(NullifierName) /\ t[k][p] = t[k - 1][p] \o longer[k].nullifiers[p]
        BY <1>2, <2>1 DEF Joined
    <2>3. longer[k].nullifiers[p] \in Seq(NullifierName)
        BY <1>1, ElementOfSeq, FuzzerBlockType
    <2>4. Len(t[k][p]) = Len(t[k - 1][p]) + Len(longer[k].nullifiers[p]) /\ Len(t[k - 1][p]) \in Nat
        BY <2>2, <2>3, ConcatProperties, LenProperties
    <2> QED BY <1>3, <2>1, <2>4
<1>8. \A k \in 1 .. n : g[k] = g[k - 1] + Len(blocks[k].nullifiers[p])
    <2> TAKE k \in 1 .. n
    <2>1. k \in 1 .. n + 1 /\ k - 1 \in 0 .. n /\ k \in 0 .. n
        BY <1>1
    <2>2. f[k] = g[k] /\ f[k - 1] = g[k - 1]
        BY <1>1, <1>3, <1>4, <2>1
    <2> QED BY <1>1, <1>7, <2>1, <2>2
<1>9. Revealed(longer, p) = f[n + 1]
    <2>1. n + 1 \in Nat /\ \A k \in 1 .. n + 1 : f[k] = f[k - 1] + Len(longer[k].nullifiers[p])
        BY <1>1, <1>7
    <2> QED BY ONLY <1>1, <1>5, <1>6, <2>1, RevealedIs
<1>10. Revealed(blocks, p) = g[n]
    <2>1. Len(blocks) = n
        BY DEF n
    <2> QED BY ONLY <1>1, <1>5, <1>6, <1>8, <2>1, RevealedIs
<1>11. f[n] = g[n] /\ n + 1 \in 1 .. n + 1 /\ (n + 1) - 1 = n
    <2>1. n \in 0 .. n + 1 /\ n \in 0 .. n
        BY <1>1
    <2> QED BY <1>1, <1>3, <1>4, <2>1
<1> QED BY <1>1, <1>7, <1>9, <1>10, <1>11 DEF longer

\* Where the outputs that are unspent come from.
LEMMA UnspentMade ==
    ASSUME NEW blocks \in Seq(FuzzerBlock), NEW top, MadeInOrder(blocks, top)
    PROVE  \A o \in Unspent(blocks) :
               o \in OutPoint /\ o[1] \in 1 .. Len(blocks) /\ o[2] \in 0 .. top
<1> TAKE o \in Unspent(blocks)
<1>1. DOMAIN blocks = 1 .. Len(blocks)
    BY LenProperties
<1>2. PICK k \in 1 .. Len(blocks) : o \in Range(blocks[k].transparent_creates)
    BY <1>1 DEF Unspent
<1>3. blocks[k].transparent_creates \in Seq(OutPoint)
    BY ElementOfSeq, FuzzerBlockType
<1>4. o \in OutPoint
    BY <1>2, <1>3, FiniteRange
<1> QED BY <1>2, <1>4 DEF MadeInOrder

\* A block spends some and creates others.
LEMMA UnspentGrows ==
    ASSUME NEW blocks \in Seq(FuzzerBlock), NEW top, MadeInOrder(blocks, top),
           NEW b \in FuzzerBlock,
           \A o \in Range(b.transparent_creates) : o[1] = Len(blocks) + 1
    PROVE  Unspent(Append(blocks, b)) =
               (Unspent(blocks) \cup Range(b.transparent_creates)) \ Range(b.transparent_spends)
<1> DEFINE longer == Append(blocks, b)
           n == Len(blocks)
           created == UNION {Range(blocks[i].transparent_creates) : i \in DOMAIN blocks}
           spent == UNION {Range(blocks[i].transparent_spends) : i \in DOMAIN blocks}
           createdMore == UNION {Range(longer[i].transparent_creates) : i \in DOMAIN longer}
           spentMore == UNION {Range(longer[i].transparent_spends) : i \in DOMAIN longer}
<1>1. /\ n \in Nat /\ DOMAIN blocks = 1 .. n /\ DOMAIN longer = 1 .. n + 1
      /\ longer[n + 1] = b /\ \A k \in 1 .. n : longer[k] = blocks[k]
    BY OneBlockMore
<1>2. Unspent(blocks) = created \ spent /\ Unspent(longer) = createdMore \ spentMore
    BY DEF Unspent
<1> HIDE DEF longer
<1>3. 1 .. n + 1 = 1 .. n \cup {n + 1}
    BY <1>1
<1>4. createdMore = created \cup Range(b.transparent_creates)
    BY <1>1, <1>3
<1>5. spentMore = spent \cup Range(b.transparent_spends)
    BY <1>1, <1>3
<1>6. \A o \in Range(b.transparent_creates) : o \notin spent
    <2> SUFFICES ASSUME NEW o \in Range(b.transparent_creates), o \in spent PROVE FALSE
        OBVIOUS
    <2>1. PICK k \in 1 .. n : o \in Range(blocks[k].transparent_spends)
        BY <1>1
    <2>2. o[1] \in 0 .. k - 1
        BY <2>1 DEF MadeInOrder
    <2>3. o[1] = n + 1
        OBVIOUS
    <2> QED BY <1>1, <2>2, <2>3
<1> HIDE DEF created, spent, createdMore, spentMore, n
<1> QED BY <1>2, <1>4, <1>5, <1>6 DEF longer

\* What a history says is unspent.
LEMMA UnspentIs ==
    ASSUME NEW h, NEW opts, GoodHistory(h, opts), NEW blocks \in Seq(FuzzerBlock),
           Len(blocks) = Len(h), Resembles(blocks, h)
    PROVE  Unspent(blocks) = DOMAIN After(h, Len(h)).utxo_index
<1> DEFINE n == Len(h)
<1>1. n \in Nat /\ DOMAIN blocks = 1 .. n
    BY Heights, LenProperties
<1>2. DOMAIN After(h, n).utxo_index = CreatedUpTo(h, n) \ SpentUpTo(h, n)
    BY <1>1 DEF GoodHistory, StateIsSum
<1>3. \A k \in 1 .. n : /\ BlockAt(h, k).transparent_creates = blocks[k].transparent_creates
                        /\ BlockAt(h, k).transparent_spends = blocks[k].transparent_spends
    BY DEF Resembles, SameTransparent
<1> HIDE DEF n
<1>4. UNION {Range(blocks[i].transparent_creates) : i \in DOMAIN blocks} = CreatedUpTo(h, n)
    BY <1>1, <1>3 DEF CreatedUpTo
<1>5. UNION {Range(blocks[i].transparent_spends) : i \in DOMAIN blocks} = SpentUpTo(h, n)
    BY <1>1, <1>3 DEF SpentUpTo
<1> QED BY <1>2, <1>4, <1>5 DEF Unspent, n

\* The outpoint index is finite.
LEMMA FiniteIndex ==
    ASSUME NEW h, NEW opts, GoodHistory(h, opts)
    PROVE  IsFiniteSet(DOMAIN After(h, Len(h)).utxo_index)
<1> DEFINE n == Len(h)
           Good == {k \in 0 .. n : IsFiniteSet(CreatedUpTo(h, k))}
<1>1. n \in Nat /\ h \in Seq(HistoryEntry)
    BY Heights DEF GoodHistory
<1>2. 0 \in Good
    <2>1. CreatedUpTo(h, 0) = {}
        BY DEF CreatedUpTo
    <2>2. IsFiniteSet({}) /\ 0 \in 0 .. n
        BY <1>1, FS_EmptySet
    <2> QED BY <2>1, <2>2
<1>3. ASSUME NEW k \in 1 .. n, k - 1 \in Good PROVE k \in Good
    <2>1. CreatedUpTo(h, k) = CreatedUpTo(h, k - 1) \cup Range(BlockAt(h, k).transparent_creates)
        BY <1>1, SumsGrow
    <2>2. BlockAt(h, k).transparent_creates \in Seq(OutPoint)
        BY <1>1, HistoryType, BlockType
    <2>3. IsFiniteSet(Range(BlockAt(h, k).transparent_creates))
        BY <2>2, FiniteRange
    <2>4. k \in 0 .. n
        BY <1>1
    <2> DEFINE before == CreatedUpTo(h, k - 1)
               more == Range(BlockAt(h, k).transparent_creates)
    <2>5. IsFiniteSet(before) /\ IsFiniteSet(more)
        BY <1>3, <2>3
    <2> HIDE DEF before, more
    <2>6. IsFiniteSet(before \cup more)
        BY <2>5, FS_Union
    <2> QED BY <2>1, <2>4, <2>6 DEF before, more
<1>4. n \in Good
    <2> HIDE DEF Good
    <2>1. \A k \in 0 .. n : k \in Good
        BY <1>1, <1>2, <1>3, UpTo
    <2> QED BY <1>1, <2>1
<1>5. DOMAIN After(h, n).utxo_index \subseteq CreatedUpTo(h, n)
    BY <1>1 DEF GoodHistory, StateIsSum
<1> QED BY <1>4, <1>5, FS_Subset

----------------------------------------------------------------------------
(* The invariant.                                                          *)

\* What the run was started with.
Configured ==
    /\ reorg \in Configs
    /\ interval = Max({reorg.snapshot_interval, 1})
    /\ max_depth = Max({2 * reorg.max_reorg_depth, LeastDepth})
    /\ served = {}

\* The fuzzer's own chain; only an altered history has nullifiers in it that
\* are none of the generator's.
OwnChain ==
    /\ chain \in Seq(FuzzerBlock)
    /\ reorg.fault # "AlteredHistory" => chain \in Seq(BlockSummary)
    /\ MadeInOrder(chain, branch)

\* Where the run is in its loop.
Iterations ==
    /\ iteration \in 0 .. reorg.iterations /\ branch \in 0 .. iteration
    /\ Len(chain) <= reorg.chain_len /\ out_of_reach = 0
    /\ doing \in {"growing", "choosing", "rolling back"}
    /\ doing = "growing" => phase \in {"idle", "applied"}
    /\ doing = "choosing" => phase = "idle" /\ Len(chain) = reorg.chain_len
    /\ doing = "rolling back" => phase \in {"idle", "undoing", "replaying"} /\ branch < iteration
    /\ outcome \in {"running", "clean", "counts", "not cold replay"}
    /\ outcome # "running" => doing = "choosing"
    /\ outcome = "clean" => iteration = reorg.iterations
    /\ iteration = 0 => ~planted
    /\ doing # "rolling back" => state.tip = IF Len(chain) = 0 THEN NoTip ELSE Len(chain)

\* A fragment of an undone block is in the follower's state.
LeftBehind == planted /\ reorg.fault \in {"LeftoverNullifier", "LeftoverOutput"}

\* Without one, the follower is what the theorems of Chain say of it, on the
\* fuzzer's own chain: all of it, unless the fuzzer has yet to cut it back.
Faithful ==
    /\ ChainInv
    /\ Len(history) <= Len(chain)
    /\ doing = "rolling back" /\ phase = "idle" => Len(history) < Len(chain)
    /\ (doing = "rolling back" /\ phase = "idle") \/ Len(history) = Len(chain)
    /\ doing = "rolling back" => Len(history) > 0
    /\ Resembles(chain, history)
    /\ recorded # Nothing => recorded.first = 1 /\ recorded.highest <= reorg.chain_len

\* With one, the state holds more than the chain has left there: what a later
\* branch does not reveal or create again, nor spends.
Surplus(s, blocks, top) ==
    /\ s \in State /\ Matching(s) /\ IsFiniteSet(DOMAIN s.utxo_index)
    /\ Unspent(blocks) \subseteq DOMAIN s.utxo_index
    /\ \A o \in DOMAIN s.utxo_index \ Unspent(blocks) : o[2] \in 0 .. top - 1
    /\ \A p \in Pool : Len(s.nullifiers[p]) >= Revealed(blocks, p)
    /\ \/ Unspent(blocks) # DOMAIN s.utxo_index
       \/ \E p \in Pool : Len(s.nullifiers[p]) > Revealed(blocks, p)

\* What each fault has done, and how far a run goes with it.
FaultsSoFar ==
    /\ reorg.fault = "none" => ~planted
    /\ ~planted => Agrees(chain, history) /\ outcome \in {"running", "clean"}
    /\ LeftBehind => /\ Surplus(state, chain, branch)
                     /\ outcome # "clean" /\ (doing = "growing" \/ outcome # "running")
    /\ planted /\ ~LeftBehind =>
           /\ iteration = 1 => doing # "rolling back"
           /\ iteration = 1 /\ doing = "growing" => Mistaken(chain, history)
           /\ reorg.cold_check_every = 1 /\ outcome \in {"running", "clean"} =>
                  iteration = 1 /\ doing = "growing"

\* What the last cold replay has shown.
ColdlyChecked ==
    doing = "choosing" /\ iteration > 0 /\ outcome \in {"running", "clean"} /\ ColdCheckDue =>
        state = ColdReplay(chain)

\* The follower and the fuzzer's model stay what they are meant to be, up to the
\* planted fault.
FuzzInv ==
    /\ Configured
    /\ OwnChain
    /\ Iterations
    /\ ~LeftBehind => Faithful
    /\ FaultsSoFar
    /\ ColdlyChecked

\* What is known of the configuration.
LEMMA ConfigTypes ==
    ASSUME Configured
    PROVE  /\ reorg.chain_len \in Nat \ {0} /\ reorg.iterations \in Nat \ {0}
           /\ reorg.max_reorg_depth \in Nat /\ reorg.snapshot_interval \in Nat
           /\ reorg.cold_check_every \in Nat
           /\ reorg.fault \in {"none", "LeftoverNullifier", "LeftoverOutput", "AlteredHistory"}
           /\ interval \in Nat \ {0} /\ max_depth \in Nat /\ max_depth >= 2 * reorg.max_reorg_depth
<1>1. /\ reorg.chain_len \in Nat \ {0} /\ reorg.iterations \in Nat \ {0}
      /\ reorg.max_reorg_depth \in Nat /\ reorg.snapshot_interval \in Nat
      /\ reorg.cold_check_every \in Nat
      /\ reorg.fault \in {"none", "LeftoverNullifier", "LeftoverOutput", "AlteredHistory"}
    BY ConfigsAssumption DEF Configured
<1> DEFINE i == reorg.snapshot_interval
           d == 2 * reorg.max_reorg_depth
<1>2. i \in Int /\ d \in Nat /\ LeastDepth \in Nat /\ i \in Nat
    BY <1>1, LeastDepthAssumption
<1>3. interval = Max({i, 1}) /\ max_depth = Max({d, LeastDepth})
    BY DEF Configured
<1> HIDE DEF i, d
<1>4. interval = IF i >= 1 THEN i ELSE 1
    BY <1>2, <1>3, MaxOfTwo
<1>5. max_depth = IF d >= LeastDepth THEN d ELSE LeastDepth
    BY <1>2, <1>3, MaxOfTwo
<1>6. interval \in Nat \ {0} /\ max_depth \in Nat /\ max_depth >= d
    BY <1>2, <1>4, <1>5
<1> QED BY <1>1, <1>6 DEF d

\* The follower's chain starts at height 1, where the fuzzer's does.
LEMMA StartsAtOne ==
    ASSUME ChainInv, OwnChain, Len(history) <= Len(chain), Resembles(chain, history)
    PROVE  /\ Len(history) \in Nat /\ Len(chain) \in Nat /\ GoodHistory(history, options)
           /\ Len(history) > 0 => Base(history) = 0
           /\ phase \in {"idle", "applied"} =>
                  /\ state = After(history, Len(history))
                  /\ state.tip = IF Len(history) = 0 THEN NoTip ELSE Len(history)
                  /\ Tip = Len(history)
<1>1. GoodHistory(history, options)
    BY DEF ChainInv
<1>2. Len(history) \in Nat /\ Len(chain) \in Nat
    BY <1>1, Heights, LenProperties DEF OwnChain
<1>3. ASSUME Len(history) > 0 PROVE Base(history) = 0
    <2>1. 1 \in 1 .. Len(history) /\ 1 \in 1 .. Len(chain)
        BY <1>2, <1>3
    <2>2. BlockAt(history, 1).height = chain[1].height
        BY <2>1 DEF Resembles, SameTransparent
    <2>3. chain[1].height = 1
        BY <2>1 DEF OwnChain, MadeInOrder
    <2> QED BY <2>2, <2>3 DEF Base
<1>4. ASSUME phase \in {"idle", "applied"}
      PROVE  /\ state = After(history, Len(history))
             /\ state.tip = IF Len(history) = 0 THEN NoTip ELSE Len(history)
             /\ Tip = Len(history)
    <2>1. state = After(history, Len(history))
        BY <1>4 DEF ChainInv, SettledPart, Settled
    <2>2. CASE Len(history) = 0
        <3>1. state.tip = NoTip
            BY <2>1, <2>2, NewStateType DEF After
        <3> QED BY <2>1, <2>2, <3>1 DEF Tip
    <2>3. CASE Len(history) > 0
        <3>1. Len(history) \in 1 .. Len(history)
            BY <1>2, <2>3
        <3>2. state.tip = Base(history) + Len(history)
            BY <1>1, <2>1, <3>1, Heights
        <3>3. state.tip = Len(history) /\ state.tip # NoTip
            BY <1>2, <1>3, <2>3, <3>2 DEF NoTip
        <3> QED BY <2>1, <2>3, <3>3 DEF Tip
    <2> QED BY <1>2, <2>2, <2>3
<1> QED BY <1>1, <1>2, <1>3, <1>4

\* The tip, when no rollback is on.
LEMMA TipIs ==
    ASSUME OwnChain, Iterations, doing # "rolling back"
    PROVE  Len(chain) \in Nat /\ Tip = Len(chain)
<1>1. Len(chain) \in Nat
    BY LenProperties DEF OwnChain
<1>2. state.tip = IF Len(chain) = 0 THEN NoTip ELSE Len(chain)
    BY DEF Iterations
<1> DEFINE n == Len(chain)
           t == state.tip
<1>3. n \in Nat /\ t = (IF n = 0 THEN NoTip ELSE n) /\ Tip = (IF t = NoTip THEN 0 ELSE t)
    BY <1>1, <1>2 DEF Tip
<1> HIDE DEF n, t
<1>4. Tip = n
    BY ONLY <1>3 DEF NoTip
<1> QED BY <1>1, <1>4 DEF n

\* Nothing that the invariant speaks of changes.
LEMMA RunStutters ==
    ASSUME FuzzInv, UNCHANGED <<vars, fuzzer>>
    PROVE  FuzzInv'
<1>1. UNCHANGED vars
    OBVIOUS
<1>2. /\ UNCHANGED <<interval, max_depth, options, served, state, phase, history, recorded>>
      /\ UNCHANGED <<reorg, iteration, branch, chain, doing, outcome, out_of_reach, planted>>
    BY DEF vars, config, journal, loop, ghosts, fuzzer
<1>3. Configured' /\ OwnChain' /\ Iterations'
    BY <1>2 DEF FuzzInv, Configured, OwnChain, Iterations
<1>4. ~LeftBehind' => Faithful'
    <2>1. LeftBehind' <=> LeftBehind
        BY <1>2 DEF LeftBehind
    <2>2. ChainInv => ChainInv'
        BY <1>1, NothingChanges
    <2> QED BY <1>2, <2>1, <2>2 DEF FuzzInv, Faithful
<1>5. FaultsSoFar' /\ ColdlyChecked'
    BY <1>2 DEF FuzzInv, FaultsSoFar, LeftBehind, ColdlyChecked, ColdCheckDue
<1> QED BY <1>3, <1>4, <1>5 DEF FuzzInv

\* The run starts in it.
LEMMA RunStarts ==
    ASSUME RunInit
    PROVE  FuzzInv
<1>1. Configured
    BY DEF RunInit, Configured
<1>2. /\ chain = <<>> /\ history = <<>> /\ Len(chain) = 0 /\ Len(history) = 0
      /\ recorded = Nothing /\ phase = "idle" /\ state.tip = NoTip
    BY EmptySeq, NewStateType DEF RunInit, Fresh
<1>3. OwnChain
    BY <1>2 DEF OwnChain, MadeInOrder
<1>4. Iterations
    BY <1>1, <1>2, ConfigTypes DEF RunInit, Iterations
<1>5. Faithful
    <2>1. Types
        BY <1>1, <1>2, ConfigTypes DEF RunInit, Configured, Types
    <2>2. ChainInv
        BY <2>1, FreshFollower DEF RunInit
    <2> QED BY <1>2, <2>2 DEF RunInit, Faithful, Resembles
<1>6. FaultsSoFar /\ ColdlyChecked
    BY <1>2 DEF RunInit, FaultsSoFar, LeftBehind, Agrees, ColdlyChecked
<1> QED BY <1>1, <1>3, <1>4, <1>5, <1>6 DEF FuzzInv

----------------------------------------------------------------------------
(* The chain grows.                                                        *)

\* A generated block, see NamesAssumption.
LEMMA GeneratedFacts ==
    ASSUME Configured, OwnChain, branch \in 0 .. reorg.iterations,
           NEW height \in 1 .. reorg.chain_len, NEW block \in Generated(height)
    PROVE  /\ block \in BlockSummary /\ block.height = height
           /\ \A o \in Range(block.transparent_creates) : o[1] = height /\ o[2] = branch
           /\ Range(block.transparent_spends) \subseteq Unspent(chain)
<1>0. PICK d \in Draws :
          \E spends \in IF d.spend /\ Unspent(chain) # {} THEN {<<o>> : o \in Unspent(chain)}
                       ELSE {<<>>} :
              block = [height |-> height, transparent_spends |-> spends,
                       transparent_creates |-> Ids(height, d.creates),
                       nullifiers |-> [p \in Pool |-> IF p = d.pool THEN Ids(height, d.nullifiers)
                                                     ELSE <<>>]]
    BY DEF Generated
<1>1. PICK spends \in {<<o>> : o \in Unspent(chain)} \cup {<<>>} :
          block = [height |-> height, transparent_spends |-> spends,
                   transparent_creates |-> Ids(height, d.creates),
                   nullifiers |-> [p \in Pool |-> IF p = d.pool THEN Ids(height, d.nullifiers) ELSE <<>>]]
    BY <1>0
<1>2. d.creates \in Nat /\ d.nullifiers \in Nat
    BY DrawsAssumption
<1>3. reorg \in Configs
    BY DEF Configured
<1>4. /\ \A i \in 1 .. d.creates : Named(height, branch, i) \in OutPoint
      /\ \A i \in 1 .. d.nullifiers : Named(height, branch, i) \in Value
    BY <1>3, NamesAssumption
<1>5. Ids(height, d.creates) \in Seq(OutPoint)
    BY <1>2, <1>4, IsASeq DEF Ids
<1>6. Ids(height, d.nullifiers) \in Seq(Value)
    BY <1>2, <1>4, IsASeq DEF Ids
<1>7. ASSUME NEW o \in Range(Ids(height, d.creates)) PROVE o[1] = height /\ o[2] = branch
    <2>1. PICK i \in 1 .. d.creates : o = Named(height, branch, i)
        BY DEF Range, Ids
    <2> QED BY <2>1 DEF Named
<1>8. \A o \in Unspent(chain) : o \in OutPoint
    BY UnspentMade DEF OwnChain
<1>9. spends \in Seq(OutPoint) /\ Range(spends) \subseteq Unspent(chain)
    <2>1. CASE spends = <<>>
        BY <2>1, EmptyRange, EmptySeq
    <2>2. CASE \E o \in Unspent(chain) : spends = <<o>>
        <3>1. PICK o \in Unspent(chain) : spends = <<o>>
            BY <2>2
        <3>2. Range(spends) = {o}
            BY <3>1 DEF Range
        <3> QED BY <1>8, <3>1, <3>2
    <2> QED BY <2>1, <2>2
<1> DEFINE creates == Ids(height, d.creates)
           nulls == [p \in Pool |-> IF p = d.pool THEN Ids(height, d.nullifiers) ELSE <<>>]
<1>10. nulls \in [Pool -> Seq(Value)]
    <2>1. <<>> \in Seq(Value)
        OBVIOUS
    <2> QED BY <1>6, <2>1
<1>11. creates \in Seq(OutPoint) /\ \A o \in Range(creates) : o[1] = height /\ o[2] = branch
    BY <1>5, <1>7
<1>12. block = [height |-> height, transparent_spends |-> spends,
                transparent_creates |-> creates, nullifiers |-> nulls]
    BY <1>1
<1>13. height \in Nat
    BY <1>3, ConfigsAssumption
<1> HIDE DEF creates, nulls
<1>14. block \in BlockSummary
    BY <1>9, <1>10, <1>11, <1>12, <1>13 DEF BlockSummary
<1> QED BY <1>9, <1>11, <1>12, <1>14

\* The fuzzer's chain with a block more.
LEMMA OwnChainGrows ==
    ASSUME NEW blocks \in Seq(FuzzerBlock), NEW top \in Nat, MadeInOrder(blocks, top),
           NEW b \in BlockSummary, b.height = Len(blocks) + 1,
           \A o \in Range(b.transparent_creates) : o[1] = Len(blocks) + 1 /\ o[2] = top,
           Range(b.transparent_spends) \subseteq Unspent(blocks)
    PROVE  /\ Append(blocks, b) \in Seq(FuzzerBlock)
           /\ blocks \in Seq(BlockSummary) => Append(blocks, b) \in Seq(BlockSummary)
           /\ MadeInOrder(Append(blocks, b), top)
<1> DEFINE longer == Append(blocks, b)
           n == Len(blocks)
<1>1. /\ longer \in Seq(FuzzerBlock) /\ n \in Nat /\ Len(longer) = n + 1
      /\ longer[n + 1] = b /\ \A k \in 1 .. n : longer[k] = blocks[k]
    BY OneBlockMore, FuzzerBlockType
<1>2. blocks \in Seq(BlockSummary) => longer \in Seq(BlockSummary)
    BY OneBlockMore
<1>3. \A o \in Range(b.transparent_spends) : o[1] \in 0 .. (n + 1) - 1
    <2>1. \A o \in Range(b.transparent_spends) : o[1] \in 1 .. n
        BY UnspentMade
    <2> QED BY <1>1, <2>1
<1>4. /\ b.height = n + 1
      /\ \A o \in Range(b.transparent_creates) : o[1] = n + 1 /\ o[2] \in 0 .. top
    OBVIOUS
<1> HIDE DEF longer, n
<1>5. MadeInOrder(longer, top)
    <2> SUFFICES ASSUME NEW k \in 1 .. n + 1
                 PROVE  /\ longer[k].height = k
                        /\ \A o \in Range(longer[k].transparent_creates) : o[1] = k /\ o[2] \in 0 .. top
                        /\ \A o \in Range(longer[k].transparent_spends) : o[1] \in 0 .. k - 1
        BY <1>1 DEF MadeInOrder
    <2>1. CASE k = n + 1
        BY <1>1, <1>3, <1>4, <2>1
    <2>2. CASE k \in 1 .. n
        <3>1. /\ blocks[k].height = k
              /\ \A o \in Range(blocks[k].transparent_creates) : o[1] = k /\ o[2] \in 0 .. top
              /\ \A o \in Range(blocks[k].transparent_spends) : o[1] \in 0 .. k - 1
            BY <2>2 DEF MadeInOrder, n
        <3>2. longer[k] = blocks[k]
            BY <1>1, <2>2
        <3> QED BY <3>1, <3>2
    <2> QED BY <1>1, <2>1, <2>2
<1> QED BY <1>1, <1>2, <1>5 DEF longer

\* Both sides take the same block.
LEMMA BothTakeIt ==
    ASSUME NEW blocks \in Seq(FuzzerBlock), NEW h \in Seq(HistoryEntry), Len(blocks) = Len(h),
           NEW b \in BlockSummary, NEW s \in State, Resembles(blocks, h)
    PROVE  LET longer == Append(blocks, b)
               after == Append(h, [block |-> b, state |-> s])
           IN  /\ Len(after) = Len(h) + 1 /\ Len(longer) = Len(blocks) + 1
               /\ Resembles(longer, after)
               /\ Agrees(blocks, h) => Agrees(longer, after)
               /\ Mistaken(blocks, h) => Mistaken(longer, after)
<1> DEFINE longer == Append(blocks, b)
           entry == [block |-> b, state |-> s]
           after == Append(h, entry)
           n == Len(h)
<1>1. entry \in HistoryEntry /\ entry.block = b
    BY DEF HistoryEntry
<1> HIDE DEF entry
<1>2. /\ Len(longer) = n + 1 /\ longer[n + 1] = b /\ \A k \in 1 .. n : longer[k] = blocks[k]
      /\ Len(blocks) = n
    BY OneBlockMore, FuzzerBlockType
<1>3. /\ n \in Nat /\ Len(after) = n + 1 /\ after[n + 1] = entry
      /\ \A k \in 1 .. n : after[k] = h[k]
    BY <1>1, OneBlockMore
<1> HIDE DEF longer, after, n
<1>4. /\ \A k \in 1 .. n : BlockAt(after, k) = BlockAt(h, k)
      /\ BlockAt(after, n + 1) = b
    BY <1>1, <1>3 DEF BlockAt
<1>5. \A k \in 1 .. n + 1 : k \in 1 .. n \/ k = n + 1
    BY <1>3
<1>6. Resembles(longer, after)
    <2>1. \A k \in 1 .. n : SameTransparent(BlockAt(h, k), blocks[k]) /\ SameSizes(BlockAt(h, k), blocks[k])
        BY DEF Resembles, n
    <2>2. SameTransparent(b, b) /\ SameSizes(b, b)
        BY DEF SameTransparent, SameSizes
    <2> SUFFICES ASSUME NEW k \in 1 .. n + 1
                 PROVE  SameTransparent(BlockAt(after, k), longer[k]) /\ SameSizes(BlockAt(after, k), longer[k])
        BY <1>3 DEF Resembles
    <2>3. CASE k \in 1 .. n
        <3>1. BlockAt(after, k) = BlockAt(h, k) /\ longer[k] = blocks[k]
            BY <1>2, <1>4, <2>3
        <3> QED BY <2>1, <2>3, <3>1
    <2>4. CASE k = n + 1
        BY <1>2, <1>4, <2>2, <2>4
    <2> QED BY <1>5, <2>3, <2>4
<1>7. Agrees(blocks, h) => Agrees(longer, after)
    BY <1>2, <1>3, <1>4, <1>5 DEF Agrees, n
<1>8. Mistaken(blocks, h) => Mistaken(longer, after)
    <2> SUFFICES ASSUME Mistaken(blocks, h) PROVE Mistaken(longer, after)
        OBVIOUS
    <2>1. PICK k \in 1 .. n, p \in Pool : blocks[k].nullifiers[p] # BlockAt(h, k).nullifiers[p]
        BY DEF Mistaken, n
    <2>2. k \in 1 .. Len(after) /\ longer[k].nullifiers[p] # BlockAt(after, k).nullifiers[p]
        BY <1>2, <1>3, <1>4, <2>1
    <2> QED BY <2>2 DEF Mistaken
<1> QED BY <1>2, <1>3, <1>6, <1>7, <1>8 DEF longer, after, entry, n

\* A surplus outlasts a block.
LEMMA SurplusStays ==
    ASSUME NEW blocks \in Seq(FuzzerBlock), NEW top \in Nat, MadeInOrder(blocks, top),
           NEW s, Surplus(s, blocks, top),
           NEW b \in BlockSummary,
           \A o \in Range(b.transparent_creates) : o[1] = Len(blocks) + 1 /\ o[2] = top,
           Range(b.transparent_spends) \subseteq Unspent(blocks)
    PROVE  Surplus(Applied(s, b), Append(blocks, b), top)
<1> DEFINE longer == Append(blocks, b)
           next == Applied(s, b)
           left == DOMAIN s.utxo_index
           leftAfter == DOMAIN next.utxo_index
           spends == Range(b.transparent_spends)
           creates == Range(b.transparent_creates)
           unspent == Unspent(blocks)
           n == Len(blocks)
<1>1. s \in State /\ Matching(s) /\ IsFiniteSet(left) /\ unspent \subseteq left
    BY DEF Surplus
<1>2. \A o \in left \ unspent : o[2] \in 0 .. top - 1
    BY DEF Surplus
<1>3. \A o \in unspent : o[1] \in 1 .. n
    BY UnspentMade
<1>4. n \in Nat
    BY LenProperties
<1>5. \A o \in creates : o[1] = n + 1 /\ o[2] = top
    OBVIOUS
<1>6. creates \cap left = {}
    <2> SUFFICES ASSUME NEW o \in creates, o \in left PROVE FALSE
        OBVIOUS
    <2> HIDE DEF creates, left, unspent, n
    <2>1. o \in unspent => o[1] \in 1 .. n
        BY <1>3
    <2>2. o \notin unspent => o[2] \in 0 .. top - 1
        BY <1>2
    <2> QED BY <1>4, <1>5, <2>1, <2>2
<1>7. /\ next \in State /\ Matching(next)
      /\ next.utxo_index = WithTransparent(s, Delta(s, b)).utxo_index
      /\ \A p \in Pool : next.nullifiers[p] = s.nullifiers[p] \o b.nullifiers[p]
    BY <1>1, <1>6, AppliedFacts
<1>8. leftAfter = (left \ spends) \cup creates
    <2>1. DOMAIN WithTransparent(s, Delta(s, b)).utxo_index = UnspentAfter(s, b)
        BY <1>1, <1>6, TransparentFacts
    <2>2. spends \cap creates = {}
        <3> SUFFICES ASSUME NEW o \in spends, o \in creates PROVE FALSE
            OBVIOUS
        <3>1. o[1] \in 1 .. n /\ o[1] = n + 1
            BY <1>3, <1>5
        <3> QED BY <1>4, <3>1
    <2>3. Cancelled(s, b) = {}
        BY <2>2 DEF Cancelled
    <2> QED BY <1>7, <2>1, <2>3 DEF UnspentAfter
<1>9. b \in FuzzerBlock
    BY FuzzerBlockType
<1>10. Unspent(longer) = (unspent \cup creates) \ spends
    BY <1>5, <1>9, UnspentGrows
<1>11. spends \subseteq unspent /\ spends \cap creates = {}
    <2>1. spends \subseteq unspent
        OBVIOUS
    <2>2. \A o \in spends : o \notin creates
        <3> SUFFICES ASSUME NEW o \in spends, o \in creates PROVE FALSE
            OBVIOUS
        <3>1. o[1] \in 1 .. n /\ o[1] = n + 1
            BY <1>3, <1>5, <2>1
        <3> QED BY <1>4, <3>1
    <2> QED BY <2>1, <2>2
<1>12. /\ IsFiniteSet(leftAfter)
       /\ Unspent(longer) \subseteq leftAfter
       /\ leftAfter \ Unspent(longer) = left \ unspent
    <2>1. IsFiniteSet(creates)
        <3>1. b.transparent_creates \in Seq(OutPoint)
            BY BlockType
        <3> QED BY <3>1, FiniteRange
    <2> HIDE DEF left, leftAfter, creates, spends, unspent
    <2>2. IsFiniteSet(left \cup creates) /\ leftAfter \subseteq left \cup creates
        BY <1>1, <1>8, <2>1, FS_Union
    <2>3. IsFiniteSet(leftAfter)
        BY <2>2, FS_Subset
    <2>4. Unspent(longer) \subseteq leftAfter
        BY <1>1, <1>8, <1>10, <1>11
    <2>5. leftAfter \ Unspent(longer) = left \ unspent
        BY <1>6, <1>8, <1>10, <1>11
    <2> QED BY <2>3, <2>4, <2>5
<1>13. \A p \in Pool :
           /\ Revealed(blocks, p) \in Nat /\ Len(s.nullifiers[p]) \in Nat
           /\ Len(b.nullifiers[p]) \in Nat
           /\ Revealed(longer, p) = Revealed(blocks, p) + Len(b.nullifiers[p])
           /\ Len(next.nullifiers[p]) = Len(s.nullifiers[p]) + Len(b.nullifiers[p])
    <2> TAKE p \in Pool
    <2>1. s.nullifiers[p] \in Seq(Value) /\ b.nullifiers[p] \in Seq(Value)
        BY <1>1, BlockType DEF State
    <2>2. Revealed(longer, p) = Revealed(blocks, p) + Len(b.nullifiers[p]) /\ Revealed(blocks, p) \in Nat
        BY <1>9, RevealedGrows
    <2> DEFINE u == s.nullifiers[p]
               v == b.nullifiers[p]
    <2>3. u \in Seq(Value) /\ v \in Seq(Value) /\ next.nullifiers[p] = u \o v
        BY <1>7, <2>1
    <2> HIDE DEF u, v, next, longer
    <2>4. Len(next.nullifiers[p]) = Len(u) + Len(v) /\ Len(u) \in Nat /\ Len(v) \in Nat
        BY <2>3, ConcatProperties, LenProperties
    <2> QED BY <2>2, <2>4 DEF u, v
<1> DEFINE more(p) == Len(s.nullifiers[p])
           least(p) == Revealed(blocks, p)
           moreAfter(p) == Len(next.nullifiers[p])
           leastAfter(p) == Revealed(longer, p)
<1>14. \A p \in Pool : more(p) >= least(p) => moreAfter(p) >= leastAfter(p)
    <2> TAKE p \in Pool
    <2> DEFINE r == Revealed(blocks, p)
               l == Len(s.nullifiers[p])
               m == Len(b.nullifiers[p])
               ra == Revealed(longer, p)
               la == Len(next.nullifiers[p])
    <2>1. r \in Nat /\ l \in Nat /\ m \in Nat /\ ra = r + m /\ la = l + m
        BY <1>13
    <2> HIDE DEF r, l, m, ra, la
    <2>2. l >= r => la >= ra
        BY ONLY <2>1
    <2> QED BY <2>2 DEF r, l, ra, la
<1>15. \A p \in Pool : more(p) > least(p) => moreAfter(p) > leastAfter(p)
    <2> TAKE p \in Pool
    <2> DEFINE r == Revealed(blocks, p)
               l == Len(s.nullifiers[p])
               m == Len(b.nullifiers[p])
               ra == Revealed(longer, p)
               la == Len(next.nullifiers[p])
    <2>1. r \in Nat /\ l \in Nat /\ m \in Nat /\ ra = r + m /\ la = l + m
        BY <1>13
    <2> HIDE DEF r, l, m, ra, la
    <2>2. l > r => la > ra
        BY ONLY <2>1
    <2> QED BY <2>2 DEF r, l, ra, la
<1>16. \/ unspent # left
       \/ \E p \in Pool : Len(s.nullifiers[p]) > Revealed(blocks, p)
    BY DEF Surplus
<1>17. \A p \in Pool : Len(s.nullifiers[p]) >= Revealed(blocks, p)
    BY DEF Surplus
<1>18. \/ Unspent(longer) # leftAfter
       \/ \E p \in Pool : Len(next.nullifiers[p]) > Revealed(longer, p)
    <2>1. unspent # left => Unspent(longer) # leftAfter
        <3> HIDE DEF left, leftAfter, creates, spends, unspent, longer
        <3> QED BY <1>1, <1>12
    <2>2. \A p \in Pool : Len(s.nullifiers[p]) > Revealed(blocks, p) =>
              Len(next.nullifiers[p]) > Revealed(longer, p)
        BY <1>15
    <2> QED BY <1>16, <2>1, <2>2
<1>19. \A p \in Pool : Len(next.nullifiers[p]) >= Revealed(longer, p)
    BY <1>17, <1>14
<1>20. \A o \in leftAfter \ Unspent(longer) : o[2] \in 0 .. top - 1
    <2> HIDE DEF left, leftAfter, unspent, longer
    <2> QED BY <1>2, <1>12
<1> QED BY <1>7, <1>12, <1>18, <1>19, <1>20 DEF Surplus

\* Grow.
LEMMA GrowKeepsInvariant ==
    ASSUME FuzzInv, Grow
    PROVE  FuzzInv'
<1>1. PICK block \in Generated(Tip + 1) : ApplyBlock(block) /\ chain' = Append(chain, block)
    BY DEF Grow
<1>2. /\ outcome = "running" /\ doing = "growing" /\ Tip < reorg.chain_len
      /\ UNCHANGED <<reorg, iteration, branch, doing, outcome, out_of_reach, planted>>
    BY DEF Grow
<1>3. /\ UNCHANGED <<interval, max_depth, options, served, snapshots, deltas, recorded>>
      /\ phase = "idle" /\ phase' = "applied" /\ state' = Applied(state, block)
      /\ history' = Append(history, [block |-> block, state |-> Applied(state, block)])
    BY <1>1 DEF ApplyBlock, config, journal
<1>4. Len(chain) \in Nat /\ Tip = Len(chain)
    BY <1>2, TipIs DEF FuzzInv
<1>5. /\ reorg.chain_len \in Nat /\ reorg.iterations \in Nat
      /\ branch \in Nat /\ branch \in 0 .. reorg.iterations
      /\ chain \in Seq(FuzzerBlock) /\ MadeInOrder(chain, branch)
      /\ reorg.fault # "AlteredHistory" => chain \in Seq(BlockSummary)
    <2>1. reorg.chain_len \in Nat /\ reorg.iterations \in Nat
        BY ConfigTypes DEF FuzzInv
    <2>2. iteration \in 0 .. reorg.iterations /\ branch \in 0 .. iteration
        BY DEF FuzzInv, Iterations
    <2>3. branch \in Nat /\ branch \in 0 .. reorg.iterations
        BY <2>1, <2>2
    <2> QED BY <2>1, <2>3 DEF FuzzInv, OwnChain
<1>6. /\ block \in BlockSummary /\ block.height = Len(chain) + 1
      /\ \A o \in Range(block.transparent_creates) : o[1] = Len(chain) + 1 /\ o[2] = branch
      /\ Range(block.transparent_spends) \subseteq Unspent(chain)
    <2>1. Tip + 1 \in 1 .. reorg.chain_len
        BY <1>2, <1>4, <1>5
    <2> QED BY <1>1, <1>4, <1>5, <2>1, GeneratedFacts DEF FuzzInv
<1>7. Configured'
    BY <1>2, <1>3 DEF FuzzInv, Configured
<1>8. OwnChain'
    <2>1. /\ Append(chain, block) \in Seq(FuzzerBlock)
          /\ chain \in Seq(BlockSummary) => Append(chain, block) \in Seq(BlockSummary)
          /\ MadeInOrder(Append(chain, block), branch)
        BY <1>5, <1>6, OwnChainGrows
    <2> QED BY <1>1, <1>2, <1>5, <2>1 DEF OwnChain
<1>9. Len(chain') = Len(chain) + 1
    BY <1>1, <1>5, <1>6, OneBlockMore, FuzzerBlockType
<1>10. state'.tip = Len(chain) + 1
    <2>1. state'.tip = block.height
        BY <1>3 DEF Applied, WithTransparent
    <2> QED BY <1>6, <2>1
<1>11. Iterations'
    BY <1>2, <1>3, <1>4, <1>5, <1>9, <1>10 DEF FuzzInv, Iterations
<1>12. LeftBehind' <=> LeftBehind
    BY <1>2 DEF LeftBehind
<1>13. ASSUME ~LeftBehind
       PROVE  Faithful' /\ (Agrees(chain, history) => Agrees(chain', history'))
              /\ (Mistaken(chain, history) => Mistaken(chain', history'))
    <2>1. Faithful /\ ChainInv /\ OwnChain
        BY <1>13 DEF FuzzInv, Faithful
    <2>2. ChainInv'
        BY <1>1, <1>6, <2>1, ApplyBlockKeepsInvariant
    <2>3. /\ history \in Seq(HistoryEntry) /\ Len(history) = Len(chain) /\ Resembles(chain, history)
        BY <1>2, <2>1 DEF Faithful, ChainInv, GoodHistory
    <2>4. Applied(state, block) \in State
        <3>1. history' \in Seq(HistoryEntry)
            BY <2>2 DEF ChainInv, GoodHistory
        <3>2. /\ Len(history) \in Nat /\ Len(history') = Len(history) + 1
              /\ history'[Len(history) + 1] = [block |-> block, state |-> Applied(state, block)]
            BY <1>3, <2>3
        <3>3. history'[Len(history) + 1].state \in State
            BY <3>1, <3>2, HistoryType
        <3> QED BY <3>2, <3>3
    <2> DEFINE s == Applied(state, block)
               after == Append(history, [block |-> block, state |-> s])
    <2>5. /\ Len(after) = Len(history) + 1
          /\ Resembles(Append(chain, block), after)
          /\ Agrees(chain, history) => Agrees(Append(chain, block), after)
          /\ Mistaken(chain, history) => Mistaken(Append(chain, block), after)
        <3> HIDE DEF s
        <3>1. s \in State
            BY <2>4 DEF s
        <3> QED BY <1>5, <1>6, <2>3, <3>1, BothTakeIt
    <2>6. /\ Len(history') = Len(chain') /\ Resembles(chain', history')
          /\ Agrees(chain, history) => Agrees(chain', history')
          /\ Mistaken(chain, history) => Mistaken(chain', history')
        BY <1>1, <1>3, <1>9, <2>3, <2>5
    <2>7. Len(chain') \in Nat
        BY <1>4, <1>9
    <2> QED BY <1>2, <1>3, <2>1, <2>2, <2>6, <2>7 DEF Faithful
<1>14. LeftBehind => Surplus(state', chain', branch')
    <2> SUFFICES ASSUME LeftBehind PROVE Surplus(state', chain', branch')
        OBVIOUS
    <2>1. Surplus(state, chain, branch)
        BY DEF FuzzInv, FaultsSoFar
    <2>2. Surplus(Applied(state, block), Append(chain, block), branch)
        BY <1>5, <1>6, <2>1, SurplusStays
    <2> QED BY <1>1, <1>2, <1>3, <2>2
<1>15. FaultsSoFar'
    <2>1. ~planted => ~LeftBehind
        BY DEF LeftBehind
    <2> QED BY <1>2, <1>12, <1>13, <1>14, <2>1 DEF FuzzInv, FaultsSoFar
<1>16. ColdlyChecked'
    BY <1>2 DEF ColdlyChecked
<1> QED BY <1>7, <1>8, <1>11, <1>12, <1>13, <1>15, <1>16 DEF FuzzInv

\* RecordGrown.
LEMMA RecordGrownKeepsInvariant ==
    ASSUME FuzzInv, RecordGrown
    PROVE  FuzzInv'
<1>1. /\ doing = "growing" /\ Record
      /\ UNCHANGED <<reorg, iteration, branch, chain, doing, outcome, out_of_reach, planted>>
    BY DEF RecordGrown, fuzzer
<1>2. /\ UNCHANGED <<interval, max_depth, options, served, state, history>>
      /\ phase = "applied" /\ phase' = "idle"
    BY <1>1 DEF Record, config
<1>3. Configured' /\ OwnChain' /\ Iterations'
    BY <1>1, <1>2 DEF FuzzInv, Configured, OwnChain, Iterations
<1>4. LeftBehind' <=> LeftBehind
    BY <1>1 DEF LeftBehind
<1>5. ASSUME ~LeftBehind PROVE Faithful'
    <2>1. Faithful /\ ChainInv /\ OwnChain
        BY <1>5 DEF FuzzInv, Faithful
    <2>2. ChainInv'
        BY <1>1, <2>1, RecordKeepsInvariant
    <2>3. Len(history) \in Nat /\ Len(history) <= reorg.chain_len
        BY <1>1, <2>1, StartsAtOne DEF FuzzInv, Iterations, Faithful
    <2>4. /\ InJournal = Len(history) - 1
          /\ delta.height = Len(history) /\ delta.height \in Nat
        <3>1. Len(history) > 0 => Base(history) = 0
            BY <2>1, StartsAtOne DEF Faithful
        <3>2. Len(history) > 0 /\ InJournal = Len(history) - 1 /\ delta.height = Base(history) + Len(history)
            BY <1>2, <2>1, BeforeRecord
        <3> QED BY <2>3, <3>1, <3>2
    <2>5. recorded' # Nothing => recorded'.first = 1 /\ recorded'.highest <= reorg.chain_len
        <3>1. CASE recorded = Nothing
            <4>1. InJournal = 0
                BY <2>1, <3>1 DEF ChainInv, ReachPart
            <4>2. delta.height = 1
                BY <2>3, <2>4, <4>1
            <4>3. recorded' = [first |-> delta.height, highest |-> delta.height]
                BY <1>1, <3>1 DEF Record
            <4> QED BY <2>3, <2>4, <4>2, <4>3
        <3>2. CASE recorded # Nothing
            <4>1. /\ recorded \in [first : Nat, highest : Nat]
                  /\ recorded.first = 1 /\ recorded.highest <= reorg.chain_len
                BY <2>1, <3>2 DEF Faithful, ChainInv, Types
            <4>2. recorded' = [recorded EXCEPT !.highest = Max({@, delta.height})]
                BY <1>1, <3>2 DEF Record
            <4> DEFINE high == recorded.highest
                       height == delta.height
                       most == Max({high, height})
            <4>3. high \in Int /\ height \in Int /\ high <= reorg.chain_len /\ height <= reorg.chain_len
                BY <2>3, <2>4, <4>1
            <4>4. recorded'.first = 1 /\ recorded'.highest = most
                BY <4>1, <4>2
            <4> HIDE DEF high, height
            <4>5. most = IF high >= height THEN high ELSE height
                BY <4>3, MaxOfTwo
            <4> QED BY <4>3, <4>4, <4>5
        <3> QED BY <3>1, <3>2
    <2> QED BY <1>1, <1>2, <2>1, <2>2, <2>5 DEF Faithful
<1>6. FaultsSoFar'
    BY <1>1, <1>2, <1>4 DEF FuzzInv, FaultsSoFar
<1>7. ColdlyChecked'
    BY <1>1 DEF ColdlyChecked
<1> QED BY <1>3, <1>4, <1>5, <1>6, <1>7 DEF FuzzInv

\* Begin.
LEMMA BeginKeepsInvariant ==
    ASSUME FuzzInv, Begin
    PROVE  FuzzInv'
<1>1. /\ iteration = 0 /\ doing = "growing" /\ phase = "idle" /\ Tip = reorg.chain_len
      /\ doing' = "choosing" /\ UNCHANGED vars
      /\ UNCHANGED <<reorg, iteration, branch, chain, outcome, out_of_reach, planted>>
    BY DEF Begin, FullyGrown
<1>2. UNCHANGED <<interval, max_depth, options, served, state, phase, history, recorded>>
    BY <1>1 DEF vars, config, journal, loop, ghosts
<1>3. ~planted /\ Len(chain) = reorg.chain_len
    BY <1>1, TipIs DEF FuzzInv, Iterations
<1>4. Configured' /\ OwnChain'
    BY <1>1, <1>2 DEF FuzzInv, Configured, OwnChain
<1>5. Iterations'
    BY <1>1, <1>2, <1>3 DEF FuzzInv, Iterations
<1>6. Faithful'
    <2>1. Faithful /\ ChainInv
        BY <1>3 DEF FuzzInv, LeftBehind, Faithful
    <2>2. ChainInv'
        BY <1>1, <2>1, NothingChanges
    <2> QED BY <1>1, <1>2, <2>1, <2>2 DEF Faithful
<1>7. FaultsSoFar'
    BY <1>1, <1>2, <1>3 DEF FuzzInv, FaultsSoFar, LeftBehind
<1>8. ColdlyChecked'
    BY <1>1 DEF ColdlyChecked
<1> QED BY <1>4, <1>5, <1>6, <1>7, <1>8 DEF FuzzInv

----------------------------------------------------------------------------
(* One iteration.                                                          *)

\* The journal always reaches what an iteration asks for.
LEMMA TargetsAreReached ==
    ASSUME FuzzInv, doing = "choosing", outcome = "running", NEW height \in Targets
    PROVE  /\ ~LeftBehind /\ Faithful
           /\ height \in Nat /\ ~(height < Earliest)
           /\ Len(history) = Len(chain) /\ Len(history) > 0
<1>1. ~LeftBehind
    BY DEF FuzzInv, FaultsSoFar
<1>2. Faithful /\ ChainInv /\ OwnChain /\ Iterations /\ Configured
    BY <1>1 DEF FuzzInv, Faithful
<1>3. /\ reorg.chain_len \in Nat \ {0} /\ reorg.max_reorg_depth \in Nat
      /\ max_depth \in Nat /\ max_depth >= 2 * reorg.max_reorg_depth
    BY <1>2, ConfigTypes
<1>4. phase = "idle" /\ Len(chain) = reorg.chain_len /\ Len(history) = Len(chain) /\ Tip = Len(chain)
    BY <1>2, TipIs DEF Iterations, Faithful
<1> DEFINE n == reorg.chain_len
           m == reorg.max_reorg_depth
           oldest == snapshots[1].height
           reach == n - m
           before == n - 1
           shallowest == Max({reach, 1})
<1>5. /\ n \in Nat \ {0} /\ m \in Nat /\ reach = n - m /\ before = n - 1 /\ reach \in Int /\ before \in Int
    BY <1>3
<1>6. height \in shallowest .. Max({before, shallowest})
    BY <1>4 DEF Targets
<1>7. shallowest = IF reach >= 1 THEN reach ELSE 1
    <2> HIDE DEF reach
    <2> QED BY <1>5, MaxOfTwo
<1>8. height \in Nat /\ height >= 1 /\ height >= n - m
    <2> HIDE DEF reach, before, shallowest
    <2>1. Max({before, shallowest}) = IF before >= shallowest THEN before ELSE shallowest
        BY <1>5, <1>7, MaxOfTwo
    <2> HIDE DEF n, m
    <2> QED BY <1>5, <1>6, <1>7, <2>1
<1>9. InJournal = Len(history) /\ Len(history) > 0
    BY <1>3, <1>4 DEF InJournal
<1>10. recorded # Nothing /\ recorded \in [first : Nat, highest : Nat]
    BY <1>2, <1>9 DEF ChainInv, ReachPart, Types
<1>11. oldest <= recorded.first \/ oldest <= recorded.highest - max_depth
    BY <1>2, <1>10 DEF ChainInv, ReachPart
<1>12. recorded.first = 1 /\ recorded.highest <= n
    BY <1>2, <1>10 DEF Faithful
<1>13. snapshots # <<>> /\ oldest \in Nat
    <2>1. JournalOf(history, InJournal, snapshots, deltas) /\ GoodHistory(history, options)
        BY <1>2 DEF ChainInv
    <2>2. Len(snapshots) # 0 /\ Len(snapshots) \in Nat
        BY <1>9, <2>1, JournalTypes DEF JournalOf
    <2>3. 1 \in 1 .. Len(snapshots)
        BY <2>2
    <2> QED BY <2>1, <2>2, <2>3, EmptySeq, JournalTypes
<1>14. Earliest = oldest
    BY <1>13 DEF Earliest
<1>15. oldest <= height
    <2> DEFINE highest == recorded.highest
    <2>1. highest \in Nat /\ highest <= n /\ (oldest <= 1 \/ oldest <= highest - max_depth)
        BY <1>10, <1>11, <1>12
    <2>2. max_depth >= 2 * m
        BY <1>3
    <2> HIDE DEF highest, oldest, n, m
    <2> QED BY <1>3, <1>5, <1>8, <1>13, <2>1, <2>2
<1>16. ~(height < Earliest)
    <2> HIDE DEF oldest
    <2> QED BY <1>8, <1>13, <1>14, <1>15
<1> QED BY <1>1, <1>2, <1>4, <1>8, <1>9, <1>16

\* Choose.
LEMMA ChooseKeepsInvariant ==
    ASSUME FuzzInv, NEW height \in Targets, Choose(height)
    PROVE  FuzzInv'
<1>1. /\ outcome = "running" /\ doing = "choosing" /\ iteration < reorg.iterations
      /\ iteration' = iteration + 1
      /\ UNCHANGED <<reorg, branch, chain, outcome, planted>>
    BY DEF Choose
<1>2. /\ ~LeftBehind /\ Faithful /\ ChainInv
      /\ height \in Nat /\ ~(height < Earliest)
      /\ Len(history) = Len(chain) /\ Len(history) > 0
    BY <1>1, TargetsAreReached DEF Faithful
<1>3. RollbackTo(height) /\ doing' = "rolling back" /\ UNCHANGED out_of_reach
    BY <1>2 DEF Choose
<1>4. /\ UNCHANGED <<interval, max_depth, options, served, state, snapshots, deltas, history, recorded>>
      /\ phase' = "undoing"
    BY <1>3 DEF RollbackTo, config, journal, ghosts
<1>5. Configured'
    BY <1>1, <1>4 DEF FuzzInv, Configured
<1>6. OwnChain'
    BY <1>1 DEF FuzzInv, OwnChain
<1>7. iteration' \in 1 .. reorg.iterations /\ branch \in 0 .. iteration' /\ branch < iteration'
    <2>1. iteration \in 0 .. reorg.iterations /\ branch \in 0 .. iteration /\ reorg.iterations \in Nat
        BY ConfigTypes DEF FuzzInv, Iterations
    <2> QED BY <1>1, <2>1
<1>8. Iterations'
    <2>1. iteration' \in 0 .. reorg.iterations /\ iteration' # 0
        BY <1>7
    <2> QED BY <1>1, <1>3, <1>4, <1>7, <2>1 DEF FuzzInv, Iterations
<1>9. Faithful'
    <2>1. height \in 0 .. state.tip
        <3>1. Resembles(chain, history) /\ OwnChain /\ Iterations /\ phase = "idle"
            BY <1>1, <1>2 DEF FuzzInv, Faithful, Iterations
        <3>2. state.tip = Len(history) /\ Len(history) \in Nat
            BY <1>2, <3>1, StartsAtOne
        <3>3. height < state.tip
            BY <1>3 DEF RollbackTo
        <3> QED BY <1>2, <3>2, <3>3
    <2>2. ChainInv'
        BY <1>2, <1>3, <2>1, RollbackToKeepsInvariant
    <2> QED BY <1>1, <1>2, <1>4, <2>2 DEF Faithful
<1>10. FaultsSoFar'
    <2>1. planted /\ ~LeftBehind => iteration' # 1 /\ ~(reorg.cold_check_every = 1)
        <3> SUFFICES ASSUME planted PROVE iteration' # 1 /\ ~(reorg.cold_check_every = 1)
            OBVIOUS
        <3>1. iteration # 0
            BY DEF FuzzInv, Iterations
        <3>2. iteration \in 0 .. reorg.iterations
            BY DEF FuzzInv, Iterations
        <3>3. iteration' # 1
            BY <1>1, <3>1, <3>2
        <3> QED BY <1>1, <1>2, <3>3 DEF FuzzInv, FaultsSoFar
    <2> QED BY <1>1, <1>2, <1>3, <1>4, <2>1 DEF FuzzInv, FaultsSoFar, LeftBehind
<1>11. ColdlyChecked'
    BY <1>3 DEF ColdlyChecked
<1>12. ~LeftBehind'
    BY <1>1, <1>2 DEF LeftBehind
<1> QED BY <1>5, <1>6, <1>8, <1>9, <1>10, <1>11 DEF FuzzInv

\* A rollback only shortens the history.
LEMMA RollsBackFacts ==
    ASSUME ChainInv, RollsBack
    PROVE  /\ phase \in {"undoing", "replaying"} /\ phase' \in {"idle", "undoing", "replaying"}
           /\ ChainInv'
           /\ UNCHANGED <<interval, max_depth, options, served, recorded>>
           /\ UNCHANGED <<reorg, iteration, branch, chain, doing, outcome, out_of_reach, planted>>
           /\ phase' # "idle" => history' = history
           /\ phase' = "idle" => Len(history') \in 1 .. Len(history) - 1
           /\ Len(history) \in Nat /\ Len(history') <= Len(history)
           /\ \A k \in 1 .. Len(history') : history'[k] = history[k]
<1>1. UNCHANGED <<reorg, iteration, branch, chain, doing, outcome, out_of_reach, planted>>
    BY DEF RollsBack, fuzzer
<1>2. Len(history) \in Nat
    BY Heights DEF ChainInv
<1>3. CASE \E k \in DOMAIN deltas : UndoDelta(k) \/ ReplayDelta(k)
    <2>1. PICK k \in DOMAIN deltas : UndoDelta(k) \/ ReplayDelta(k)
        BY <1>3
    <2>2. ChainInv'
        BY <2>1, UndoDeltaKeepsInvariant, ReplayDeltaKeepsInvariant
    <2>3. /\ UNCHANGED <<interval, max_depth, options, served, history, recorded>>
          /\ phase \in {"undoing", "replaying"} /\ phase' = phase
        BY <2>1 DEF UndoDelta, ReplayDelta, config, ghosts
    <2> QED BY <1>1, <1>2, <2>2, <2>3
<1>4. CASE \E base \in DOMAIN snapshots : RestoreSnapshot(base)
    <2>1. PICK base \in DOMAIN snapshots : RestoreSnapshot(base)
        BY <1>4
    <2>2. ChainInv'
        BY <2>1, RestoreSnapshotKeepsInvariant
    <2>3. /\ UNCHANGED <<interval, max_depth, options, served, history, recorded>>
          /\ phase = "undoing" /\ phase' = "replaying"
        BY <2>1 DEF RestoreSnapshot, config, ghosts
    <2> QED BY <1>1, <1>2, <2>2, <2>3
<1>5. CASE FinishRollback
    <2>1. ChainInv'
        BY <1>5, FinishRollbackKeepsInvariant
    <2>2. /\ UNCHANGED <<interval, max_depth, options, served, recorded>>
          /\ phase = "replaying" /\ phase' = "idle"
        BY <1>5 DEF FinishRollback, config
    <2> DEFINE n == target - Base(history)
    <2>3. /\ n \in 1 .. Len(history) - 1 /\ Len(history') = n
          /\ \A i \in 1 .. Len(history') : history'[i] = history[i]
        BY <1>5, RollbackShortens
    <2> HIDE DEF n
    <2>4. Len(history') \in 1 .. Len(history) - 1 /\ Len(history') <= Len(history)
        BY <1>2, <2>3
    <2> QED BY <1>1, <1>2, <2>1, <2>2, <2>3, <2>4
<1> QED BY <1>3, <1>4, <1>5 DEF RollsBack

\* RollsBack.
LEMMA RollsBackKeepsInvariant ==
    ASSUME FuzzInv, RollsBack
    PROVE  FuzzInv'
<1>1. phase \in {"undoing", "replaying"}
    BY DEF RollsBack, UndoDelta, ReplayDelta, RestoreSnapshot, FinishRollback
<1>2. doing = "rolling back" /\ outcome = "running"
    BY <1>1 DEF FuzzInv, Iterations
<1>3. ~LeftBehind /\ Faithful /\ ChainInv
    BY <1>2 DEF FuzzInv, FaultsSoFar, Faithful
<1>4. /\ phase' \in {"idle", "undoing", "replaying"}
      /\ ChainInv'
      /\ UNCHANGED <<interval, max_depth, options, served, recorded>>
      /\ UNCHANGED <<reorg, iteration, branch, chain, doing, outcome, out_of_reach, planted>>
      /\ phase' # "idle" => history' = history
      /\ phase' = "idle" => Len(history') \in 1 .. Len(history) - 1
      /\ Len(history) \in Nat /\ Len(history') <= Len(history)
      /\ \A k \in 1 .. Len(history') : history'[k] = history[k]
    BY <1>3, RollsBackFacts
<1>5. Configured' /\ OwnChain'
    BY <1>4 DEF FuzzInv, Configured, OwnChain
<1>6. Iterations'
    BY <1>2, <1>4 DEF FuzzInv, Iterations
<1>7. /\ Len(history') \in Nat /\ Len(history') > 0
      /\ \A k \in 1 .. Len(history') : k \in 1 .. Len(history) /\ BlockAt(history', k) = BlockAt(history, k)
    <2>1. Len(history) > 0 /\ Len(history') \in Nat
        <3>1. Len(history') \in Nat
            BY <1>4, Heights DEF ChainInv
        <3> QED BY <1>2, <1>3, <3>1 DEF Faithful
    <2>2. Len(history') > 0
        BY <1>4, <2>1
    <2> QED BY <1>4, <2>1, <2>2 DEF BlockAt
<1>8. Faithful'
    <2>1. Resembles(chain, history')
        BY <1>3, <1>7 DEF Faithful, Resembles
    <2>2. Len(history') <= Len(chain)
        <3>1. Len(history) <= Len(chain) /\ Len(chain) \in Nat
            BY <1>3, LenProperties DEF FuzzInv, Faithful, OwnChain
        <3> QED BY <1>4, <1>7, <3>1
    <2>3. phase' = "idle" \/ Len(history') = Len(chain)
        BY <1>1, <1>3, <1>4 DEF Faithful
    <2>4. phase' = "idle" => Len(history') < Len(chain)
        <3>1. Len(history) <= Len(chain) /\ Len(chain) \in Nat
            BY <1>3, LenProperties DEF FuzzInv, Faithful, OwnChain
        <3> QED BY <1>4, <1>7, <3>1
    <2> QED BY <1>2, <1>3, <1>4, <1>7, <2>1, <2>2, <2>3, <2>4 DEF Faithful
<1>9. FaultsSoFar'
    <2>1. Agrees(chain, history) => Agrees(chain, history')
        BY <1>7 DEF Agrees
    <2> QED BY <1>2, <1>3, <1>4, <2>1 DEF FuzzInv, FaultsSoFar, LeftBehind
<1>10. ColdlyChecked'
    BY <1>2, <1>4 DEF ColdlyChecked
<1> QED BY <1>3, <1>5, <1>6, <1>8, <1>9, <1>10 DEF FuzzInv

----------------------------------------------------------------------------
(* The two tiers.                                                          *)

\* A follower on the fuzzer's chain passes the cheap tier.
LEMMA CountsAgree ==
    ASSUME Faithful, OwnChain, Len(history) = Len(chain), phase = "idle"
    PROVE  CountsMatch
<1>1. ChainInv /\ Resembles(chain, history) /\ chain \in Seq(FuzzerBlock)
    BY DEF Faithful, OwnChain
<1>2. state = After(history, Len(history)) /\ GoodHistory(history, options)
    BY <1>1, StartsAtOne DEF Faithful
<1>3. Unspent(chain) = DOMAIN state.utxo_index
    BY <1>1, <1>2, UnspentIs
<1>4. \A p \in Pool : Len(state.nullifiers[p]) = Revealed(chain, p)
    <2> TAKE p \in Pool
    <2>1. PICK t : Joined(chain, t, Len(chain))
        BY <1>1, JoinedExists
    <2>2. Revealed(chain, p) = Len(After(history, Len(history)).nullifiers[p])
        BY <1>1, <1>2, <2>1, TreeSizes
    <2> QED BY <1>2, <2>2
<1> QED BY <1>3, <1>4 DEF CountsMatch

\* A surplus does not.
LEMMA CountsDiffer ==
    ASSUME OwnChain, Surplus(state, chain, branch)
    PROVE  ~CountsMatch
<1> SUFFICES ASSUME CountsMatch PROVE FALSE
    OBVIOUS
<1>1. CASE Unspent(chain) # DOMAIN state.utxo_index
    <2> DEFINE left == DOMAIN state.utxo_index
               unspent == Unspent(chain)
    <2>1. IsFiniteSet(left) /\ unspent \subseteq left /\ Cardinality(left) = Cardinality(unspent)
        BY DEF Surplus, CountsMatch
    <2>2. unspent # left
        BY <1>1
    <2> HIDE DEF left, unspent
    <2> QED BY <2>1, <2>2, FS_Subset, FS_CardinalityType
<1>2. CASE \E p \in Pool : Len(state.nullifiers[p]) > Revealed(chain, p)
    <2>1. PICK p \in Pool : Len(state.nullifiers[p]) > Revealed(chain, p)
        BY <1>2
    <2>2. Len(state.nullifiers[p]) = Revealed(chain, p)
        BY DEF CountsMatch
    <2>3. Len(state.nullifiers[p]) \in Nat
        <3>1. state.nullifiers[p] \in Seq(Value)
            BY DEF Surplus, State
        <3> QED BY <3>1, LenProperties
    <2> DEFINE n == Len(state.nullifiers[p])
               r == Revealed(chain, p)
    <2>4. n \in Nat /\ n > r /\ n = r
        BY <2>1, <2>2, <2>3
    <2> HIDE DEF n, r
    <2> QED BY <2>4
<1> QED BY <1>1, <1>2 DEF Surplus

\* Check.
LEMMA CheckKeepsInvariant ==
    ASSUME FuzzInv, Check
    PROVE  FuzzInv'
<1>1. /\ outcome = "running" /\ iteration > 0 /\ doing = "growing" /\ phase = "idle"
      /\ Tip = reorg.chain_len
      /\ outcome' = CASE ~CountsMatch -> "counts"
                      [] CountsMatch /\ ColdCheckDue /\ state # ColdReplay(chain) -> "not cold replay"
                      [] OTHER -> "running"
      /\ doing' = "choosing" /\ UNCHANGED vars
      /\ UNCHANGED <<reorg, iteration, branch, chain, out_of_reach, planted>>
    BY DEF Check, FullyGrown
<1>2. UNCHANGED <<interval, max_depth, options, served, state, phase, history, recorded>>
    BY <1>1 DEF vars, config, journal, loop, ghosts
<1>3. OwnChain /\ Iterations /\ Len(chain) = reorg.chain_len
    BY <1>1, TipIs DEF FuzzInv
<1>4. outcome' = IF ~CountsMatch THEN "counts"
                 ELSE IF ColdCheckDue /\ state # ColdReplay(chain) THEN "not cold replay"
                 ELSE "running"
    BY <1>1
<1>5. Configured' /\ OwnChain'
    BY <1>1, <1>2 DEF FuzzInv, Configured, OwnChain
<1>6. Iterations'
    BY <1>1, <1>2, <1>3, <1>4 DEF Iterations
<1>7. LeftBehind' <=> LeftBehind
    BY <1>1 DEF LeftBehind
<1>8. ASSUME ~LeftBehind
      PROVE  /\ Faithful /\ ChainInv /\ Len(history) = Len(chain) /\ CountsMatch
             /\ state = After(history, Len(history)) /\ GoodHistory(history, options)
             /\ Resembles(chain, history) /\ chain \in Seq(FuzzerBlock)
    <2>1. Faithful /\ ChainInv /\ Len(history) = Len(chain) /\ Resembles(chain, history)
        BY <1>1, <1>8 DEF FuzzInv, Faithful
    <2>2. CountsMatch
        BY <1>1, <1>3, <2>1, CountsAgree
    <2>3. state = After(history, Len(history)) /\ GoodHistory(history, options)
        BY <1>1, <1>3, <2>1, StartsAtOne DEF Faithful
    <2> QED BY <1>3, <2>1, <2>2, <2>3 DEF OwnChain
<1>9. ~LeftBehind' => Faithful'
    <2>1. ChainInv => ChainInv'
        BY <1>1, NothingChanges
    <2> QED BY <1>1, <1>2, <1>7, <1>8, <2>1 DEF Faithful
<1>10. ASSUME ~planted PROVE outcome' = "running"
    <2>1. ~LeftBehind /\ Agrees(chain, history)
        BY <1>10 DEF FuzzInv, FaultsSoFar, LeftBehind
    <2>2. ColdReplay(chain) = state
        BY <1>8, <2>1, ReplayOfItsBlocks
    <2> QED BY <1>4, <1>8, <2>1, <2>2
<1>11. ASSUME LeftBehind PROVE outcome' = "counts" /\ Surplus(state, chain, branch)
    <2>1. Surplus(state, chain, branch)
        BY <1>11 DEF FuzzInv, FaultsSoFar
    <2> QED BY <1>3, <1>4, <2>1, CountsDiffer
<1>12. ASSUME planted, ~LeftBehind, reorg.cold_check_every = 1
       PROVE  outcome' = "not cold replay"
    <2>1. iteration = 1 /\ Mistaken(chain, history)
        BY <1>1, <1>12 DEF FuzzInv, FaultsSoFar
    <2>2. ColdReplay(chain) # state
        BY <1>8, <1>12, <2>1, ReplayTellsThemApart
    <2>3. ColdCheckDue
        BY <1>12, <2>1 DEF ColdCheckDue
    <2> QED BY <1>4, <1>8, <1>12, <2>2, <2>3
<1>13. FaultsSoFar'
    <2>1. reorg.fault = "none" => ~planted
        BY DEF FuzzInv, FaultsSoFar
    <2>2. ~planted => Agrees(chain, history)
        BY DEF FuzzInv, FaultsSoFar
    <2> QED BY <1>1, <1>2, <1>7, <1>10, <1>11, <1>12, <2>1, <2>2 DEF FaultsSoFar
<1>14. ColdlyChecked'
    <2>1. ColdCheckDue' <=> ColdCheckDue
        BY <1>1 DEF ColdCheckDue
    <2>2. outcome' \in {"running", "clean"} /\ ColdCheckDue => state = ColdReplay(chain)
        BY <1>4
    <2> QED BY <1>1, <1>2, <2>1, <2>2 DEF ColdlyChecked
<1> QED BY <1>5, <1>6, <1>9, <1>13, <1>14 DEF FuzzInv

\* Return.
LEMMA ReturnKeepsInvariant ==
    ASSUME FuzzInv, Return
    PROVE  FuzzInv'
<1>1. /\ outcome = "running" /\ doing = "choosing" /\ iteration = reorg.iterations
      /\ outcome' = "clean" /\ UNCHANGED vars
      /\ UNCHANGED <<reorg, iteration, branch, chain, doing, out_of_reach, planted>>
    BY DEF Return
<1>2. UNCHANGED <<interval, max_depth, options, served, state, phase, history, recorded>>
    BY <1>1 DEF vars, config, journal, loop, ghosts
<1>3. ~LeftBehind /\ Faithful /\ ChainInv
    BY <1>1 DEF FuzzInv, FaultsSoFar, Faithful
<1>4. Configured' /\ OwnChain' /\ Iterations'
    BY <1>1, <1>2 DEF FuzzInv, Configured, OwnChain, Iterations
<1>5. Faithful'
    <2>1. ChainInv'
        BY <1>1, <1>3, NothingChanges
    <2> QED BY <1>1, <1>2, <1>3, <2>1 DEF Faithful
<1>6. FaultsSoFar'
    BY <1>1, <1>2, <1>3 DEF FuzzInv, FaultsSoFar, LeftBehind
<1>7. ColdlyChecked'
    BY <1>1, <1>2 DEF FuzzInv, ColdlyChecked, ColdCheckDue
<1> QED BY <1>4, <1>5, <1>6, <1>7 DEF FuzzInv

----------------------------------------------------------------------------
(* The faults.                                                             *)

\* A sequence with nothing in it.
LEMMA NothingInIt ==
    ASSUME NEW S, NEW s \in Seq(S), Range(s) = {}
    PROVE  s = <<>>
<1>1. \A i \in 1 .. Len(s) : s[i] \in Range(s)
    BY LenProperties DEF Range
<1>2. Len(s) \in Nat /\ ~(1 \in 1 .. Len(s))
    BY <1>1, LenProperties
<1>3. Len(s) = 0
    BY <1>2
<1> QED BY <1>3, EmptySeq

\* A fragment with nothing in it changes nothing.
LEMMA EmptyBlockDoesNothing ==
    ASSUME NEW s \in State, NEW b \in BlockSummary, b.transparent_spends = <<>>,
           b.transparent_creates = <<>>, \A p \in Pool : b.nullifiers[p] = <<>>, b.height = s.tip
    PROVE  Applied(s, b) = s
<1>1. SpentLeaves(s, b) = <<>>
    <2>1. /\ SpentLeaves(s, b) \in Seq(Leaf)
          /\ Range(SpentLeaves(s, b)) =
                 {s.utxo_index[o] : o \in Range(b.transparent_spends) \cap DOMAIN s.utxo_index}
        BY SpentLeavesFacts
    <2>2. Range(SpentLeaves(s, b)) = {}
        BY <2>1, EmptyRange
    <2> QED BY <2>1, <2>2, NothingInIt
<1>2. CreatedLeaves(s, b) = <<>>
    <2>1. /\ CreatedLeaves(s, b) \in Seq(Leaf)
          /\ Range(CreatedLeaves(s, b)) =
                 {[outpoint |-> o, height |-> b.height] :
                     o \in Range(b.transparent_creates) \ Cancelled(s, b)}
        BY CreatedLeavesFacts
    <2>2. Range(CreatedLeaves(s, b)) = {}
        BY <2>1, EmptyRange
    <2> QED BY <2>1, <2>2, NothingInIt
<1>3. ForestInserts(ForestDeletes(s.utxos, <<>>), <<>>) = s.utxos
    BY DEF ForestInserts, ForestDeletes
<1>4. Outpoints(<<>>) = {}
    BY EmptyRange DEF Outpoints
<1>5. IndexWith(IndexWithout(s.utxo_index, Outpoints(<<>>)), <<>>) = s.utxo_index
    <2> DEFINE index == s.utxo_index
    <2>1. index = [o \in DOMAIN index |-> index[o]]
        BY IndexType DEF State
    <2> HIDE DEF index
    <2>2. IndexWithout(index, {}) = index
        BY <2>1 DEF IndexWithout
    <2>3. {leaf.outpoint : leaf \in Range(<<>>)} = {}
        BY EmptyRange
    <2>4. IndexWith(index, <<>>) = index
        BY <2>1, <2>3 DEF IndexWith
    <2> QED BY <1>4, <2>2, <2>4 DEF index
<1>6. [p \in Pool |-> s.nullifiers[p] \o b.nullifiers[p]] = s.nullifiers
    <2>1. s.nullifiers \in [Pool -> Seq(Value)]
        BY DEF State
    <2>2. ASSUME NEW p \in Pool PROVE s.nullifiers[p] \o b.nullifiers[p] = s.nullifiers[p]
        <3>1. s.nullifiers[p] \in Seq(Value) /\ b.nullifiers[p] = <<>>
            BY <2>1
        <3> QED BY <3>1, ConcatEmptySeq
    <2> QED BY <2>1, <2>2
<1>7. Applied(s, b) =
          [utxos |-> s.utxos, utxo_index |-> s.utxo_index, nullifiers |-> s.nullifiers, tip |-> s.tip]
    <2>1. Applied(WithNullifiers(s, s.nullifiers), b) =
              [utxos |-> ForestInserts(ForestDeletes(s.utxos, SpentLeaves(s, b)), CreatedLeaves(s, b)),
               utxo_index |-> IndexWith(IndexWithout(s.utxo_index, Outpoints(SpentLeaves(s, b))),
                                        CreatedLeaves(s, b)),
               nullifiers |-> [p \in Pool |-> s.nullifiers[p] \o b.nullifiers[p]],
               tip |-> b.height]
        BY AppliedShape
    <2>2. s = WithNullifiers(s, s.nullifiers)
        BY StateParts
    <2> QED BY <1>1, <1>2, <1>3, <1>5, <1>6, <2>1, <2>2
<1>8. s = [utxos |-> s.utxos, utxo_index |-> s.utxo_index, nullifiers |-> s.nullifiers, tip |-> s.tip]
    BY StateParts DEF WithNullifiers
<1> QED BY <1>7, <1>8

\* One with something in it leaves a surplus.
LEMMA FragmentLeavesMore ==
    ASSUME NEW s \in State, Matching(s), IsFiniteSet(DOMAIN s.utxo_index),
           NEW blocks \in Seq(FuzzerBlock), Unspent(blocks) = DOMAIN s.utxo_index,
           \A p \in Pool : Len(s.nullifiers[p]) = Revealed(blocks, p),
           NEW top \in Nat, NEW b \in BlockSummary, b.transparent_spends = <<>>,
           \A o \in Range(b.transparent_creates) : o \notin DOMAIN s.utxo_index /\ o[2] \in 0 .. top - 1,
           b.transparent_creates # <<>> \/ \E p \in Pool : b.nullifiers[p] # <<>>
    PROVE  /\ Surplus(Applied(s, b), blocks, top)
           /\ \/ Applied(s, b).utxo_index # s.utxo_index
              \/ Applied(s, b).nullifiers # s.nullifiers
<1> DEFINE next == Applied(s, b)
           left == DOMAIN s.utxo_index
           leftAfter == DOMAIN next.utxo_index
           creates == Range(b.transparent_creates)
<1>1. creates \cap left = {}
    OBVIOUS
<1>2. /\ next \in State /\ Matching(next)
      /\ next.utxo_index = WithTransparent(s, Delta(s, b)).utxo_index
      /\ \A p \in Pool : next.nullifiers[p] = s.nullifiers[p] \o b.nullifiers[p]
    BY <1>1, AppliedFacts
<1>3. leftAfter = left \cup creates
    <2>1. DOMAIN WithTransparent(s, Delta(s, b)).utxo_index = UnspentAfter(s, b)
        BY <1>1, TransparentFacts
    <2>2. Range(b.transparent_spends) = {}
        BY EmptyRange
    <2>3. Cancelled(s, b) = {}
        BY <2>2 DEF Cancelled
    <2> QED BY <1>2, <2>1, <2>2, <2>3 DEF UnspentAfter
<1>4. b.transparent_creates \in Seq(OutPoint) /\ \A p \in Pool : b.nullifiers[p] \in Seq(Value)
    BY BlockType
<1>5. IsFiniteSet(leftAfter)
    <2>1. IsFiniteSet(creates)
        BY <1>4, FiniteRange
    <2> HIDE DEF left, leftAfter, creates
    <2>2. IsFiniteSet(left)
        BY DEF left
    <2> QED BY <1>3, <2>1, <2>2, FS_Union
<1>6. \A p \in Pool :
          /\ Len(s.nullifiers[p]) \in Nat /\ Len(b.nullifiers[p]) \in Nat
          /\ Len(next.nullifiers[p]) = Len(s.nullifiers[p]) + Len(b.nullifiers[p])
          /\ b.nullifiers[p] # <<>> => Len(b.nullifiers[p]) > 0
    <2> TAKE p \in Pool
    <2> DEFINE u == s.nullifiers[p]
               v == b.nullifiers[p]
    <2>1. u \in Seq(Value) /\ v \in Seq(Value) /\ next.nullifiers[p] = u \o v
        BY <1>2, <1>4 DEF State
    <2> HIDE DEF u, v, next
    <2>2. Len(next.nullifiers[p]) = Len(u) + Len(v) /\ Len(u) \in Nat /\ Len(v) \in Nat
        BY <2>1, ConcatProperties, LenProperties
    <2>3. v # <<>> => Len(v) > 0
        BY <2>1, <2>2, EmptySeq
    <2> QED BY <2>2, <2>3 DEF u, v
<1>7. \A p \in Pool :
          /\ Len(next.nullifiers[p]) >= Revealed(blocks, p)
          /\ b.nullifiers[p] # <<>> => /\ Len(next.nullifiers[p]) > Revealed(blocks, p)
                                       /\ Len(next.nullifiers[p]) # Len(s.nullifiers[p])
    <2> TAKE p \in Pool
    <2> DEFINE l == Len(s.nullifiers[p])
               m == Len(b.nullifiers[p])
               r == Revealed(blocks, p)
               la == Len(next.nullifiers[p])
    <2>1. l \in Nat /\ m \in Nat /\ la = l + m /\ r = l /\ (b.nullifiers[p] # <<>> => m > 0)
        BY <1>6
    <2> HIDE DEF l, m, r, la
    <2>2. la >= r /\ (b.nullifiers[p] # <<>> => la > r /\ la # l)
        BY ONLY <2>1
    <2> QED BY <2>2 DEF l, r, la
<1>8. ASSUME b.transparent_creates # <<>>
      PROVE  leftAfter # left /\ leftAfter # Unspent(blocks)
    <2>1. creates # {}
        BY <1>4, <1>8, NothingInIt
    <2> HIDE DEF creates, leftAfter, left
    <2>2. left = Unspent(blocks)
        BY DEF left
    <2> QED BY <1>1, <1>3, <2>1, <2>2
<1>9. \/ Unspent(blocks) # leftAfter
      \/ \E p \in Pool : Len(next.nullifiers[p]) > Revealed(blocks, p)
    <2> HIDE DEF next, leftAfter
    <2> QED BY <1>7, <1>8
<1>10. \/ next.utxo_index # s.utxo_index
       \/ next.nullifiers # s.nullifiers
    <2> HIDE DEF next
    <2> QED BY <1>7, <1>8
<1>11. /\ Unspent(blocks) \subseteq leftAfter
       /\ \A o \in leftAfter \ Unspent(blocks) : o[2] \in 0 .. top - 1
    <2>1. \A o \in creates : o[2] \in 0 .. top - 1
        OBVIOUS
    <2>2. left = Unspent(blocks)
        OBVIOUS
    <2> HIDE DEF left, leftAfter, creates
    <2> QED BY <1>3, <2>1, <2>2
<1>12. Surplus(next, blocks, top)
    <2> HIDE DEF next
    <2> QED BY <1>2, <1>5, <1>7, <1>9, <1>11 DEF Surplus
<1> QED BY <1>10, <1>12

\* An altered block differs in a nullifier, or not at all.
LEMMA AlteredFacts ==
    ASSUME NEW b \in BlockSummary
    PROVE  /\ Altered(b) \in FuzzerBlock
           /\ SameTransparent(b, Altered(b)) /\ SameSizes(b, Altered(b))
           /\ (\A p \in Pool : Altered(b).nullifiers[p] = b.nullifiers[p]) => Altered(b) = b
<1> DEFINE other(p) == [i \in DOMAIN b.nullifiers[p] |-> IF i = 1 THEN AlteredName(b.nullifiers[p][i])
                                                        ELSE b.nullifiers[p][i]]
           others == [p \in Pool |-> other(p)]
           height == b.height
           spends == b.transparent_spends
           creates == b.transparent_creates
           nulls == b.nullifiers
<1>1. /\ b.height \in Nat /\ spends \in Seq(OutPoint) /\ creates \in Seq(OutPoint)
      /\ nulls \in [Pool -> Seq(Value)] /\ \A p \in Pool : nulls[p] \in Seq(Value)
    BY BlockType
<1>2. b = [height |-> height, transparent_spends |-> spends,
           transparent_creates |-> creates, nullifiers |-> nulls]
    BY DEF BlockSummary
<1>3. Altered(b) = [b EXCEPT !.nullifiers = others]
    BY DEF Altered
<1>4. ASSUME NEW p \in Pool
      PROVE  other(p) \in Seq(NullifierName) /\ Len(other(p)) = Len(nulls[p])
    <2> DEFINE v == nulls[p]
               w == [i \in DOMAIN v |-> IF i = 1 THEN AlteredName(v[i]) ELSE v[i]]
    <2>1. Len(v) \in Nat /\ DOMAIN v = 1 .. Len(v) /\ \A i \in 1 .. Len(v) : v[i] \in Value
        BY <1>1, LenProperties
    <2> HIDE DEF v
    <2>2. \A i \in 1 .. Len(v) : (IF i = 1 THEN AlteredName(v[i]) ELSE v[i]) \in NullifierName
        BY <2>1 DEF NullifierName
    <2>3. w \in Seq(NullifierName) /\ Len(w) = Len(v)
        BY <2>1, <2>2, IsASeq
    <2> QED BY <2>3 DEF v
<1>5. others \in [Pool -> Seq(NullifierName)] /\ \A p \in Pool : others[p] = other(p)
    BY <1>4
<1> HIDE DEF others, other, height, spends, creates, nulls
<1>6. Altered(b) = [height |-> height, transparent_spends |-> spends,
                    transparent_creates |-> creates, nullifiers |-> others]
    BY <1>2, <1>3
<1>7. Altered(b) \in FuzzerBlock
    <2>1. height \in Nat
        BY <1>1 DEF height
    <2> QED BY <1>1, <1>5, <1>6, <2>1 DEF FuzzerBlock
<1>8. SameTransparent(b, Altered(b))
    BY <1>2, <1>6 DEF SameTransparent
<1>9. Altered(b).nullifiers = others /\ b.nullifiers = nulls
    BY <1>2, <1>6
<1>10. SameSizes(b, Altered(b))
    BY <1>4, <1>5, <1>9 DEF SameSizes
<1>11. ASSUME \A p \in Pool : Altered(b).nullifiers[p] = b.nullifiers[p] PROVE Altered(b) = b
    <2>1. others = nulls
        BY <1>1, <1>5, <1>9, <1>11
    <2> QED BY <1>2, <1>6, <2>1
<1> QED BY <1>7, <1>8, <1>10, <1>11

\* AlteredHistory: the chain still resembles what it was.
LEMMA HistoryAlteredFacts ==
    ASSUME NEW blocks \in Seq(FuzzerBlock),
           reorg.fault = "AlteredHistory" /\ iteration = 1 => blocks \in Seq(BlockSummary)
    PROVE  LET after == HistoryAltered(blocks)
           IN  /\ after \in Seq(FuzzerBlock) /\ Len(after) = Len(blocks)
               /\ \A k \in 1 .. Len(blocks) :
                      SameTransparent(blocks[k], after[k]) /\ SameSizes(blocks[k], after[k])
               /\ after # blocks =>
                      /\ reorg.fault = "AlteredHistory" /\ iteration = 1
                      /\ \E k \in 1 .. Len(blocks), p \in Pool :
                             after[k].nullifiers[p] # blocks[k].nullifiers[p]
<1> DEFINE after == HistoryAltered(blocks)
           revealing == {i \in DOMAIN blocks : Reveals(blocks[i])}
           n == Len(blocks)
<1>1. n \in Nat /\ DOMAIN blocks = 1 .. n
    BY LenProperties
<1>2. CASE reorg.fault # "AlteredHistory" \/ iteration # 1 \/ revealing = {}
    <2>1. after = blocks
        BY <1>2 DEF HistoryAltered
    <2>2. \A k \in 1 .. n : SameTransparent(blocks[k], blocks[k]) /\ SameSizes(blocks[k], blocks[k])
        BY DEF SameTransparent, SameSizes
    <2> QED BY <2>1, <2>2
<1>3. CASE ~(reorg.fault # "AlteredHistory" \/ iteration # 1 \/ revealing = {})
    <2> DEFINE m == Min(revealing)
    <2>1. after = [blocks EXCEPT ![m] = Altered(@)]
        BY <1>3 DEF HistoryAltered
    <2>2. m \in 1 .. n
        <3>1. revealing \in SUBSET Nat /\ revealing # {} /\ revealing \subseteq 1 .. n
            BY <1>1, <1>3
        <3> HIDE DEF revealing
        <3>2. \E i \in revealing : \A j \in revealing : i <= j
            BY <3>1, SmallestNat
        <3>3. m \in revealing
            BY <3>2 DEF Min
        <3> QED BY <3>1, <3>3
    <2> HIDE DEF m, revealing, after
    <2>3. blocks[m] \in BlockSummary
        BY <1>3, <2>2, ElementOfSeq
    <2>4. /\ Altered(blocks[m]) \in FuzzerBlock
          /\ SameTransparent(blocks[m], Altered(blocks[m])) /\ SameSizes(blocks[m], Altered(blocks[m]))
          /\ (\A p \in Pool : Altered(blocks[m]).nullifiers[p] = blocks[m].nullifiers[p]) =>
                 Altered(blocks[m]) = blocks[m]
        BY <2>3, AlteredFacts
    <2> DEFINE other == Altered(blocks[m])
    <2>5. after = [blocks EXCEPT ![m] = other]
        BY <2>1
    <2> HIDE DEF other
    <2>6. /\ after \in Seq(FuzzerBlock) /\ Len(after) = n
          /\ after[m] = other /\ \A k \in 1 .. n : k # m => after[k] = blocks[k]
        BY <2>2, <2>4, <2>5 DEF other
    <2>7. ASSUME NEW k \in 1 .. n
          PROVE  SameTransparent(blocks[k], after[k]) /\ SameSizes(blocks[k], after[k])
        <3>1. CASE k = m
            BY <2>4, <2>6, <3>1 DEF other
        <3>2. CASE k # m
            BY <2>6, <3>2 DEF SameTransparent, SameSizes
        <3> QED BY <3>1, <3>2
    <2>8. ASSUME after # blocks
          PROVE  \E k \in 1 .. n, p \in Pool : after[k].nullifiers[p] # blocks[k].nullifiers[p]
        <3>1. other # blocks[m]
            <4> SUFFICES ASSUME other = blocks[m] PROVE after = blocks
                BY <2>8
            <4>1. blocks = [k \in 1 .. n |-> blocks[k]]
                BY LenProperties, <1>1
            <4> QED BY <1>1, <2>5, <4>1
        <3>2. PICK p \in Pool : other.nullifiers[p] # blocks[m].nullifiers[p]
            BY <2>4, <3>1 DEF other
        <3> QED BY <2>2, <2>6, <3>2
    <2> QED BY <1>3, <2>6, <2>7, <2>8 DEF after, revealing
<1> QED BY <1>2, <1>3

\* Settle.
LEMMA SettleKeepsInvariant ==
    ASSUME FuzzInv, Settle
    PROVE  FuzzInv'
<1> DEFINE n == Len(history)
           kept == SubSeq(chain, 1, n)
           changed == \/ state'.utxo_index # state.utxo_index
                      \/ state'.nullifiers # state.nullifiers
<1>1. /\ doing = "rolling back" /\ phase = "idle" /\ branch' = branch + 1 /\ doing' = "growing"
      /\ UNCHANGED <<config, journal, phase, delta, loop, ghosts>>
      /\ UNCHANGED <<reorg, iteration, outcome, out_of_reach>>
    BY DEF Settle
<1>2. UNCHANGED <<interval, max_depth, options, served, history, recorded>>
    BY <1>1 DEF config, ghosts
<1>3. outcome = "running" /\ ~LeftBehind /\ Configured /\ OwnChain /\ Iterations
    BY <1>1 DEF FuzzInv, Iterations, FaultsSoFar
<1>4. /\ Faithful /\ ChainInv /\ Resembles(chain, history) /\ Len(history) <= Len(chain)
      /\ n < Len(chain) /\ n > 0
    BY <1>1, <1>3 DEF FuzzInv, Faithful
<1>5. /\ n \in Nat /\ Len(chain) \in Nat /\ GoodHistory(history, options)
      /\ state = After(history, n) /\ state.tip = n /\ Tip = n
    <2>1. OwnChain /\ phase \in {"idle", "applied"} /\ Len(history) # 0
        <3>1. phase \in {"idle", "applied"}
            BY <1>1
        <3>2. n # 0
            <4> HIDE DEF n
            <4> QED BY <1>4
        <3> QED BY <1>3, <3>1, <3>2
    <2>2. /\ Len(history) \in Nat /\ Len(chain) \in Nat /\ GoodHistory(history, options)
          /\ state = After(history, Len(history)) /\ Tip = Len(history)
          /\ state.tip = IF Len(history) = 0 THEN NoTip ELSE Len(history)
        BY <1>4, <2>1, StartsAtOne
    <2> QED BY <2>1, <2>2
<1>6. chain \in Seq(FuzzerBlock) /\ MadeInOrder(chain, branch)
    BY <1>3 DEF OwnChain
<1>7. n \in 0 .. Len(chain) /\ n + 1 \in 1 .. Len(chain)
    BY <1>4, <1>5
<1>8. /\ kept \in Seq(FuzzerBlock) /\ Len(kept) = n /\ \A k \in 1 .. n : kept[k] = chain[k]
      /\ \A S : chain \in Seq(S) => kept \in Seq(S)
    BY <1>6, <1>7, CutBack
<1>9. /\ chain' = HistoryAltered(kept)
      /\ state' = IF FragmentApplies THEN Applied(state, Fragment) ELSE state
      /\ planted' = (planted \/ chain' # kept \/ state'.utxo_index # state.utxo_index
                         \/ state'.nullifiers # state.nullifiers)
    BY <1>5 DEF Settle
<1>10. /\ iteration \in Nat /\ branch \in Nat /\ branch + 1 \in 0 .. iteration /\ iteration # 0
       /\ reorg.iterations \in Nat
    <2>1. iteration \in 0 .. reorg.iterations /\ branch \in 0 .. iteration /\ branch < iteration
        BY <1>1, <1>3 DEF Iterations
    <2>2. reorg.iterations \in Nat
        BY <1>3, ConfigTypes
    <2> QED BY <2>1, <2>2
<1> HIDE DEF kept
<1>11. Resembles(kept, history) /\ (Agrees(chain, history) => Agrees(kept, history))
    <2> HIDE DEF n
    <2>1. Len(history) = n
        BY DEF n
    <2> QED BY <1>4, <1>8, <2>1 DEF Resembles, Agrees
<1>12. MadeInOrder(kept, branch + 1)
    <2> SUFFICES ASSUME NEW k \in 1 .. n
                 PROVE  /\ kept[k].height = k
                        /\ \A o \in Range(kept[k].transparent_creates) :
                               o[1] = k /\ o[2] \in 0 .. branch + 1
                        /\ \A o \in Range(kept[k].transparent_spends) : o[1] \in 0 .. k - 1
        BY <1>8 DEF MadeInOrder
    <2>1. kept[k] = chain[k] /\ k \in 1 .. Len(chain)
        BY <1>5, <1>7, <1>8
    <2>2. /\ chain[k].height = k
          /\ \A o \in Range(chain[k].transparent_creates) : o[1] = k /\ o[2] \in 0 .. branch
          /\ \A o \in Range(chain[k].transparent_spends) : o[1] \in 0 .. k - 1
        BY <1>6, <2>1 DEF MadeInOrder
    <2>3. \A x \in 0 .. branch : x \in 0 .. branch + 1
        BY <1>10
    <2> QED BY <2>1, <2>2, <2>3
<1>13. reorg.fault = "AlteredHistory" /\ iteration = 1 => ~planted
    BY <1>1, <1>3 DEF FuzzInv, FaultsSoFar
<1>14. ~planted => Agrees(kept, history)
    BY <1>11 DEF FuzzInv, FaultsSoFar
<1>15. Agrees(kept, history) => kept \in Seq(BlockSummary)
    <2>1. history \in Seq(HistoryEntry)
        BY <1>5 DEF GoodHistory
    <2>2. \A k \in 1 .. n : BlockAt(history, k) \in BlockSummary
        BY <2>1, HistoryType
    <2> SUFFICES ASSUME Agrees(kept, history) PROVE kept \in Seq(BlockSummary)
        OBVIOUS
    <2>3. \A k \in 1 .. n : kept[k] \in BlockSummary
        BY <2>2 DEF Agrees
    <2>4. kept = [k \in 1 .. n |-> kept[k]]
        BY <1>8, LenProperties
    <2> HIDE DEF n
    <2> QED BY <1>5, <2>3, <2>4, IsASeq
<1>16. /\ chain' \in Seq(FuzzerBlock) /\ Len(chain') = n
       /\ \A k \in 1 .. n : SameTransparent(kept[k], chain'[k]) /\ SameSizes(kept[k], chain'[k])
       /\ chain' # kept =>
              /\ reorg.fault = "AlteredHistory" /\ iteration = 1
              /\ \E k \in 1 .. n, p \in Pool : chain'[k].nullifiers[p] # kept[k].nullifiers[p]
    <2>1. reorg.fault = "AlteredHistory" /\ iteration = 1 => kept \in Seq(BlockSummary)
        BY <1>13, <1>14, <1>15
    <2> DEFINE after == HistoryAltered(kept)
    <2>2. /\ after \in Seq(FuzzerBlock) /\ Len(after) = Len(kept)
          /\ \A k \in 1 .. Len(kept) : SameTransparent(kept[k], after[k]) /\ SameSizes(kept[k], after[k])
          /\ after # kept =>
                 /\ reorg.fault = "AlteredHistory" /\ iteration = 1
                 /\ \E k \in 1 .. Len(kept), p \in Pool : after[k].nullifiers[p] # kept[k].nullifiers[p]
        BY <1>8, <2>1, HistoryAlteredFacts
    <2> HIDE DEF after
    <2>3. chain' = after
        BY <1>9 DEF after
    <2> QED BY <1>8, <2>2, <2>3
<1>17. Resembles(chain', history)
    <2>1. \A k \in 1 .. n : SameTransparent(BlockAt(history, k), kept[k]) /\ SameSizes(BlockAt(history, k), kept[k])
        BY <1>11 DEF Resembles
    <2>2. \A k \in 1 .. n : SameTransparent(BlockAt(history, k), chain'[k]) /\ SameSizes(BlockAt(history, k), chain'[k])
        BY <1>16, <2>1 DEF SameTransparent, SameSizes
    <2> QED BY <2>2 DEF Resembles
<1>18. MadeInOrder(chain', branch')
    <2>1. \A k \in 1 .. n : /\ chain'[k].height = kept[k].height
                            /\ chain'[k].transparent_creates = kept[k].transparent_creates
                            /\ chain'[k].transparent_spends = kept[k].transparent_spends
        BY <1>16 DEF SameTransparent
    <2>2. \A k \in 1 .. n :
              /\ kept[k].height = k
              /\ \A o \in Range(kept[k].transparent_creates) : o[1] = k /\ o[2] \in 0 .. branch + 1
              /\ \A o \in Range(kept[k].transparent_spends) : o[1] \in 0 .. k - 1
        BY <1>8, <1>12 DEF MadeInOrder
    <2> SUFFICES ASSUME NEW k \in 1 .. n
                 PROVE  /\ chain'[k].height = k
                        /\ \A o \in Range(chain'[k].transparent_creates) :
                               o[1] = k /\ o[2] \in 0 .. branch + 1
                        /\ \A o \in Range(chain'[k].transparent_spends) : o[1] \in 0 .. k - 1
        BY <1>1, <1>16 DEF MadeInOrder
    <2> QED BY <2>1, <2>2
<1>19. OwnChain'
    <2>1. reorg.fault # "AlteredHistory" => chain' \in Seq(BlockSummary)
        <3>1. reorg.fault # "AlteredHistory" => chain' = kept /\ chain \in Seq(BlockSummary)
            BY <1>3, <1>16 DEF OwnChain
        <3> QED BY <1>8, <3>1
    <2> QED BY <1>1, <1>16, <1>18, <2>1 DEF OwnChain
<1>20. \/ state' = state
       \/ /\ reorg.fault \in {"LeftoverNullifier", "LeftoverOutput"}
          /\ Surplus(state', kept, branch + 1) /\ changed
    <2>1. CASE ~FragmentApplies
        BY <1>9, <2>1
    <2>2. CASE FragmentApplies
        <3> DEFINE b == Fragment
                   undone == chain[n + 1]
        <3>1. reorg.fault \in {"LeftoverNullifier", "LeftoverOutput"} /\ state' = Applied(state, b)
            BY <1>9, <2>2 DEF FragmentApplies
        <3>2. undone \in BlockSummary
            <4>1. chain \in Seq(BlockSummary)
                BY <1>3, <3>1 DEF OwnChain
            <4> QED BY <1>7, <4>1, ElementOfSeq
        <3>3. b = [height |-> n, transparent_spends |-> <<>>,
                   transparent_creates |-> IF reorg.fault = "LeftoverOutput"
                                           THEN undone.transparent_creates ELSE <<>>,
                   nullifiers |-> [p \in Pool |-> IF reorg.fault = "LeftoverNullifier"
                                                  THEN undone.nullifiers[p] ELSE <<>>]]
            BY <1>5 DEF Fragment
        <3> DEFINE creates == IF reorg.fault = "LeftoverOutput" THEN undone.transparent_creates ELSE <<>>
                   nulls == [p \in Pool |-> IF reorg.fault = "LeftoverNullifier"
                                            THEN undone.nullifiers[p] ELSE <<>>]
        <3>4. creates \in Seq(OutPoint) /\ nulls \in [Pool -> Seq(Value)]
            <4>1. /\ undone.transparent_creates \in Seq(OutPoint)
                  /\ \A p \in Pool : undone.nullifiers[p] \in Seq(Value)
                BY <3>2, BlockType
            <4>2. <<>> \in Seq(OutPoint) /\ <<>> \in Seq(Value)
                OBVIOUS
            <4> HIDE DEF undone
            <4> QED BY <4>1, <4>2
        <3>5. \A o \in Range(creates) : o[1] = n + 1 /\ o[2] \in 0 .. branch
            <4>1. \A o \in Range(undone.transparent_creates) : o[1] = n + 1 /\ o[2] \in 0 .. branch
                BY <1>6, <1>7 DEF MadeInOrder
            <4> HIDE DEF undone
            <4> QED BY <4>1, EmptyRange
        <3> HIDE DEF creates, nulls, undone, b, n
        <3>6. b = [height |-> n, transparent_spends |-> <<>>,
                   transparent_creates |-> creates, nullifiers |-> nulls]
            BY <3>3 DEF creates, nulls
        <3>7. b \in BlockSummary
            <4>1. <<>> \in Seq(OutPoint)
                OBVIOUS
            <4> QED BY <1>5, <3>4, <3>6, <4>1 DEF BlockSummary
        <3>8. /\ b.transparent_spends = <<>> /\ b.transparent_creates = creates /\ b.height = n
            BY <3>6
        <3>9. state \in State /\ Matching(state) /\ IsFiniteSet(DOMAIN state.utxo_index)
            <4>1. n \in 0 .. Len(history) /\ Len(history) = n
                BY <1>5 DEF n
            <4>2. state \in State
                BY <1>5, <4>1, HistoryJoins
            <4>3. Matching(state)
                BY <1>5, <4>1 DEF GoodHistory, StateIsSum
            <4> QED BY <1>5, <4>1, <4>2, <4>3, FiniteIndex
        <3>10. Unspent(kept) = DOMAIN state.utxo_index
            BY <1>5, <1>8, <1>11, UnspentIs DEF n
        <3>11. \A p \in Pool : Len(state.nullifiers[p]) = Revealed(kept, p)
            <4> TAKE p \in Pool
            <4>1. PICK t : Joined(kept, t, Len(kept))
                BY <1>8, JoinedExists
            <4>2. Len(kept) = Len(history)
                BY <1>8 DEF n
            <4>3. Revealed(kept, p) = Len(After(history, Len(history)).nullifiers[p])
                BY <1>5, <1>8, <1>11, <4>1, <4>2, TreeSizes
            <4> QED BY <1>5, <4>3 DEF n
        <3>12. \A o \in Range(b.transparent_creates) :
                   o \notin DOMAIN state.utxo_index /\ o[2] \in 0 .. (branch + 1) - 1
            <4> SUFFICES ASSUME NEW o \in Range(creates)
                         PROVE  o \notin DOMAIN state.utxo_index /\ o[2] \in 0 .. (branch + 1) - 1
                BY <3>8
            <4>1. o[1] = n + 1 /\ o[2] \in 0 .. branch
                BY <3>5
            <4>2. o \in Unspent(kept) => o[1] \in 1 .. n
                BY <1>8, <1>12, UnspentMade
            <4>3. o \notin Unspent(kept)
                BY <1>5, <4>1, <4>2
            <4>4. (branch + 1) - 1 = branch
                BY <1>10
            <4> QED BY <3>10, <4>1, <4>3, <4>4
        <3>13. CASE b.transparent_creates # <<>> \/ \E p \in Pool : b.nullifiers[p] # <<>>
            <4>1. branch + 1 \in Nat
                BY <1>10
            <4>2. /\ Surplus(Applied(state, b), kept, branch + 1)
                  /\ \/ Applied(state, b).utxo_index # state.utxo_index
                     \/ Applied(state, b).nullifiers # state.nullifiers
                BY <1>8, <3>7, <3>8, <3>9, <3>10, <3>11, <3>12, <3>13, <4>1, FragmentLeavesMore
            <4> QED BY <3>1, <4>2
        <3>14. CASE ~(b.transparent_creates # <<>> \/ \E p \in Pool : b.nullifiers[p] # <<>>)
            BY <1>5, <3>1, <3>7, <3>8, <3>9, <3>14, EmptyBlockDoesNothing
        <3> QED BY <3>13, <3>14
    <2> QED BY <2>1, <2>2
<1>21. /\ LeftBehind' => state' # state
       /\ ~LeftBehind' => state' = state
    <2>1. ASSUME LeftBehind', state' = state PROVE FALSE
        <3>1. planted' /\ reorg.fault \in {"LeftoverNullifier", "LeftoverOutput"}
            BY <1>1, <2>1 DEF LeftBehind
        <3>2. chain' = kept
            BY <1>16, <3>1
        <3>3. planted
            BY <1>9, <2>1, <3>1, <3>2
        <3> QED BY <1>3, <3>1, <3>3 DEF LeftBehind
    <2>2. ASSUME ~LeftBehind', state' # state PROVE FALSE
        <3>1. reorg.fault \in {"LeftoverNullifier", "LeftoverOutput"} /\ changed
            BY <1>20, <2>2
        <3>2. planted'
            BY <1>9, <3>1
        <3> QED BY <1>1, <2>2, <3>1, <3>2 DEF LeftBehind
    <2> QED BY <2>1, <2>2
<1>22. state'.tip = n
    <2>1. CASE FragmentApplies
        <3>1. state'.tip = Fragment.height
            BY <1>9, <2>1 DEF Applied, WithTransparent
        <3> QED BY <1>5, <3>1 DEF Fragment
    <2>2. CASE ~FragmentApplies
        BY <1>5, <1>9, <2>2
    <2> QED BY <2>1, <2>2
<1>23. Configured'
    BY <1>1, <1>2, <1>3 DEF Configured
<1>24. Iterations'
    <2>1. Len(chain') <= reorg.chain_len
        <3>1. Len(chain) <= reorg.chain_len /\ reorg.chain_len \in Nat
            BY <1>3, ConfigTypes DEF Iterations
        <3> QED BY <1>4, <1>5, <1>16, <3>1
    <2>2. Len(chain') # 0
        BY <1>4, <1>5, <1>16
    <2> QED BY <1>1, <1>3, <1>10, <1>16, <1>22, <2>1, <2>2 DEF Iterations
<1>25. ~LeftBehind' => Faithful'
    <2> SUFFICES ASSUME ~LeftBehind' PROVE Faithful'
        OBVIOUS
    <2>1. UNCHANGED vars
        BY <1>1, <1>21 DEF vars
    <2>2. ChainInv'
        BY <1>4, <2>1, NothingChanges
    <2>3. /\ Len(history') = Len(chain') /\ Len(history') <= Len(chain')
          /\ Resembles(chain', history')
        BY <1>2, <1>5, <1>16, <1>17
    <2> QED BY <1>1, <1>2, <1>4, <2>2, <2>3 DEF Faithful
<1>26. FaultsSoFar'
    <2>1. reorg.fault = "none" => ~planted'
        <3> SUFFICES ASSUME reorg.fault = "none" PROVE ~planted'
            OBVIOUS
        <3>1. ~planted
            BY DEF FuzzInv, FaultsSoFar
        <3>2. chain' = kept
            BY <1>16
        <3>3. state' = state
            BY <1>20
        <3> QED BY <1>9, <3>1, <3>2, <3>3
    <2>2. ~planted' => Agrees(chain', history)
        BY <1>9, <1>14
    <2>3. LeftBehind' => Surplus(state', chain', branch')
        <3> SUFFICES ASSUME LeftBehind' PROVE Surplus(state', chain', branch')
            OBVIOUS
        <3>1. /\ reorg.fault \in {"LeftoverNullifier", "LeftoverOutput"}
              /\ Surplus(state', kept, branch + 1)
            BY <1>20, <1>21
        <3>2. chain' = kept
            BY <1>16, <3>1
        <3> QED BY <1>1, <3>1, <3>2
    <2>4. planted' /\ ~LeftBehind' /\ iteration = 1 => Mistaken(chain', history)
        <3> SUFFICES ASSUME planted', ~LeftBehind', iteration = 1 PROVE Mistaken(chain', history)
            OBVIOUS
        <3>1. ~planted
            BY <1>1, <1>3 DEF FuzzInv, FaultsSoFar
        <3>2. chain' # kept
            BY <1>9, <1>21, <3>1
        <3>3. PICK k \in 1 .. n, p \in Pool : chain'[k].nullifiers[p] # kept[k].nullifiers[p]
            BY <1>16, <3>2
        <3>4. kept[k] = BlockAt(history, k)
            BY <1>14, <3>1 DEF Agrees
        <3> QED BY <3>3, <3>4 DEF Mistaken
    <2>5. planted' /\ ~LeftBehind' /\ reorg.cold_check_every = 1 => iteration = 1
        <3> SUFFICES ASSUME planted', ~LeftBehind', reorg.cold_check_every = 1, iteration # 1
                     PROVE  FALSE
            OBVIOUS
        <3>1. ~planted
            BY <1>1, <1>3 DEF FuzzInv, FaultsSoFar
        <3>2. chain' # kept
            BY <1>9, <1>21, <3>1
        <3> QED BY <1>16, <3>2
    <2> QED BY <1>1, <1>2, <1>3, <2>1, <2>2, <2>3, <2>4, <2>5 DEF FaultsSoFar
<1>27. ColdlyChecked'
    BY <1>1 DEF ColdlyChecked
<1> QED BY <1>19, <1>23, <1>24, <1>25, <1>26, <1>27 DEF FuzzInv

----------------------------------------------------------------------------
(* The theorems.                                                           *)

\* Under every configuration the follower is on the fuzzer's chain, or holds
\* more than the chain says, or the fuzzer's chain has other nullifiers in it,
\* and which of these is what the fault has done (reorg.rs, run).
THEOREM FuzzerInvariant == RunSpec => []FuzzInv
<1>1. RunInit => FuzzInv
    BY RunStarts
<1>2. FuzzInv /\ [RunNext]_<<vars, fuzzer>> => FuzzInv'
    <2> SUFFICES ASSUME FuzzInv, [RunNext]_<<vars, fuzzer>> PROVE FuzzInv'
        OBVIOUS
    <2>1. CASE Grow
        BY <2>1, GrowKeepsInvariant
    <2>2. CASE RecordGrown
        BY <2>2, RecordGrownKeepsInvariant
    <2>3. CASE Begin
        BY <2>3, BeginKeepsInvariant
    <2>4. ASSUME NEW height \in Targets, Choose(height) PROVE FuzzInv'
        BY <2>4, ChooseKeepsInvariant
    <2>5. CASE RollsBack
        BY <2>5, RollsBackKeepsInvariant
    <2>6. CASE Settle
        BY <2>6, SettleKeepsInvariant
    <2>7. CASE Check
        BY <2>7, CheckKeepsInvariant
    <2>8. CASE Return
        BY <2>8, ReturnKeepsInvariant
    <2>9. CASE UNCHANGED <<vars, fuzzer>>
        BY <2>9, RunStutters
    <2> QED BY <2>1, <2>2, <2>3, <2>4, <2>5, <2>6, <2>7, <2>8, <2>9 DEF RunNext
<1> QED BY <1>1, <1>2, PTL DEF RunSpec

\* Without a fault no tier objects, no iteration is out of reach and no rollback
\* stops midway (reorg.rs, run; rollback.rs, rollback_to).
THEOREM NothingFalselyDiverges == RunSpec => []NoFalseDivergence
<1>1. FuzzInv => NoFalseDivergence
    <2> SUFFICES ASSUME FuzzInv, reorg.fault = "none"
                 PROVE  outcome \in {"running", "clean"} /\ out_of_reach = 0 /\ RollbackNeverFailsMidway
        BY DEF NoFalseDivergence
    <2>1. ~planted /\ outcome \in {"running", "clean"}
        BY DEF FuzzInv, FaultsSoFar
    <2>2. ChainInv
        BY <2>1 DEF FuzzInv, LeftBehind, Faithful
    <2>3. out_of_reach = 0
        BY DEF FuzzInv, Iterations
    <2> QED BY <2>1, <2>2, <2>3, NothingStopsARollback
<1> QED BY <1>1, FuzzerInvariant, PTL

\* A leftover does not outlast the iteration that planted it, nor an altered
\* history the first one when every iteration is replayed coldly; and a clean run
\* ends where a cold replay does (reorg.rs, ReorgFault, cold_check_every).
THEOREM PlantedFaultsAreAlwaysCaught == RunSpec => []PlantedFaultsAreCaught
<1>1. FuzzInv => PlantedFaultsAreCaught
    <2> SUFFICES ASSUME FuzzInv PROVE PlantedFaultsAreCaught
        OBVIOUS
    <2>1. ASSUME planted, doing = "choosing", outcome \in {"running", "clean"}
          PROVE  reorg.fault = "AlteredHistory" /\ reorg.cold_check_every # 1
        <3>1. ~LeftBehind
            BY <2>1 DEF FuzzInv, FaultsSoFar
        <3>2. reorg.fault \in {"none", "AlteredHistory"} /\ reorg.fault # "none"
            BY <2>1, <3>1, ConfigTypes DEF FuzzInv, FaultsSoFar, LeftBehind
        <3> QED BY <2>1, <3>1, <3>2 DEF FuzzInv, FaultsSoFar
    <2>2. ASSUME outcome = "clean", reorg.cold_check_every > 0
          PROVE  state = ColdReplay(chain)
        <3>1. doing = "choosing" /\ iteration = reorg.iterations
            BY <2>2 DEF FuzzInv, Iterations
        <3>2. iteration > 0
            BY <3>1, ConfigTypes DEF FuzzInv
        <3>3. ColdCheckDue
            BY <2>2, <3>1 DEF ColdCheckDue
        <3> QED BY <2>2, <3>1, <3>2, <3>3 DEF FuzzInv, ColdlyChecked
    <2> QED BY <2>1, <2>2 DEF PlantedFaultsAreCaught
<1> QED BY <1>1, FuzzerInvariant, PTL

=============================================================================
