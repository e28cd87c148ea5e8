----------------------------- MODULE TestkitProofs -----------------------------
(***************************************************************************)
(* Proofs about the test kit: the shadow run of module Shadow, the genesis *)
(* replay of module Replayer and the differential harness of Harness.      *)
(*                                                                         *)
(* The shadow run.  Whatever the node does between two RPCs, the history   *)
(* rewinds both sides to one state, and what is applied is one branch      *)
(* unless two answers used together were of two.  Both follow from what    *)
(* the history holds at every moment, also halfway through an unwind: each *)
(* entry's compact state is the one before it with one block more, so a    *)
(* suffix can be dropped, from either end, and the newest entry that is    *)
(* left says what both sides held then.                                    *)
(*                                                                         *)
(* The genesis replay.  Blocks are fetched by threads and reach the state  *)
(* in order, because the heights buffered, or being fetched, are always    *)
(* those from where the state continues up to the next window.             *)
(*                                                                         *)
(* The differential harness.  Until a block is corrupted, the two sides    *)
(* hold the same outputs and the same nullifiers; afterwards, they differ  *)
(* by exactly what the corruption took away or put in, and the checks due  *)
(* can see that difference.  The repro is the block that showed it.        *)
(***************************************************************************)
EXTENDS Shadow, Harness, Replayer, ChainStateProofs, FiniteSetTheorems

Entry == [height : Nat, hash : BlockHash, csn : Seq(BlockHash)]

\* Phases in which the two sides are as the last block left them.
Iterating == {"tip", "check", "block", "hash", "json", "fork"}

Types ==
    /\ chain \in NodeChains
    /\ bridge \in Seq(BlockHash) /\ csn \in Seq(BlockHash)
    /\ snapshot \in Seq(BlockHash) /\ restored \in Seq(BlockHash)
    /\ history \in Seq(Entry)
    /\ phase \in {"hash", "json"} => raw \in BlockHash
    /\ phase = "json" => hash \in BlockHash

\* The entries of a history are consecutive states of one compact node.
Consecutive(entries) ==
    /\ \A i \in 1 .. Len(entries) : Len(entries[i].csn) = entries[i].height + 1
    /\ \A i, j \in 1 .. Len(entries) :
           i <= j => /\ entries[i].height = entries[j].height - (j - i)
                     /\ entries[i].csn = SubSeq(entries[j].csn, 1, entries[i].height + 1)

\* While the loop iterates, the sides agree, and on the newest entry.
SidesPart ==
    phase \in Iterating =>
        /\ csn = bridge
        /\ history # <<>> => history[Len(history)].csn = csn

UnwindPart ==
    /\ phase = "fork" => marks \in 1 .. Len(history)
    /\ phase = "replay" => history # <<>>

\* What has been applied, and what the history remembers, is a branch.
EntryOnBranch(entry) ==
    entry.csn \in NodeChains /\ entry.hash = entry.csn[entry.height + 1]

BranchPart ==
    ~mixed =>
        /\ phase \in Iterating => bridge \in NodeChains \cup {<<>>}
        /\ \A i \in 1 .. Len(history) : EntryOnBranch(history[i])
        /\ phase = "hash" => Linked(bridge, raw)
        /\ phase = "json" => Linked(bridge, raw) /\ hash = raw

ShadowInv ==
    /\ Types
    /\ Consecutive(history) /\ Len(history) <= history_cap
    /\ SidesPart
    /\ UnwindPart
    /\ BranchPart
----------------------------------------------------------------------------
(* Sequences.                                                              *)

\* What the first k elements of a sequence are.
LEMMA PrefixFacts ==
    ASSUME NEW S, NEW s \in Seq(S), NEW k \in 0 .. Len(s)
    PROVE  /\ SubSeq(s, 1, k) \in Seq(S) /\ Len(SubSeq(s, 1, k)) = k
           /\ \A i \in 1 .. k : SubSeq(s, 1, k)[i] = s[i]
<1>1. Len(s) \in Nat /\ k \in Nat /\ \A i \in 1 .. k : s[i] \in S
    BY LenProperties
<1>2. /\ SubSeq(s, 1, k) \in Seq(S)
      /\ Len(SubSeq(s, 1, k)) = IF 1 <= k THEN k - 1 + 1 ELSE 0
      /\ \A i \in 1 .. k - 1 + 1 : SubSeq(s, 1, k)[i] = s[1 + i - 1]
    BY <1>1, SubSeqProperties
<1>3. k - 1 + 1 = k /\ \A i \in 1 .. k : 1 + i - 1 = i
    BY <1>1
<1> QED BY <1>1, <1>2, <1>3

\* A prefix of a prefix is a prefix.
LEMMA PrefixOfPrefix ==
    ASSUME NEW S, NEW s \in Seq(S), NEW j \in 0 .. Len(s), NEW k \in 0 .. j
    PROVE  SubSeq(SubSeq(s, 1, j), 1, k) = SubSeq(s, 1, k)
<1> DEFINE t == SubSeq(s, 1, j)
<1>1. Len(s) \in Nat /\ k \in 0 .. Len(s) /\ 1 .. k \subseteq 1 .. j
    BY LenProperties
<1>2. t \in Seq(S) /\ Len(t) = j /\ \A i \in 1 .. j : t[i] = s[i]
    BY PrefixFacts
<1> HIDE DEF t
<1>3. /\ SubSeq(t, 1, k) \in Seq(S) /\ Len(SubSeq(t, 1, k)) = k
      /\ \A i \in 1 .. k : SubSeq(t, 1, k)[i] = t[i]
    BY <1>2, PrefixFacts
<1>4. /\ SubSeq(s, 1, k) \in Seq(S) /\ Len(SubSeq(s, 1, k)) = k
      /\ \A i \in 1 .. k : SubSeq(s, 1, k)[i] = s[i]
    BY <1>1, PrefixFacts
<1>5. SubSeq(t, 1, k) = SubSeq(s, 1, k)
    BY <1>1, <1>2, <1>3, <1>4, SeqEqual
<1> QED BY <1>5 DEF t

\* What is appended leaves the prefixes alone.
LEMMA PrefixOfAppend ==
    ASSUME NEW S, NEW s \in Seq(S), NEW e \in S, NEW k \in 0 .. Len(s)
    PROVE  SubSeq(Append(s, e), 1, k) = SubSeq(s, 1, k)
<1> DEFINE t == Append(s, e)
<1>1. Len(s) \in Nat /\ 1 .. k \subseteq 1 .. Len(s)
    BY LenProperties
<1>2. t \in Seq(S) /\ Len(t) = Len(s) + 1 /\ \A i \in 1 .. Len(s) : t[i] = s[i]
    BY AppendProperties
<1> HIDE DEF t
<1>3. k \in 0 .. Len(t)
    BY <1>1, <1>2
<1>4. /\ SubSeq(t, 1, k) \in Seq(S) /\ Len(SubSeq(t, 1, k)) = k
      /\ \A i \in 1 .. k : SubSeq(t, 1, k)[i] = t[i]
    BY <1>2, <1>3, PrefixFacts
<1>5. /\ SubSeq(s, 1, k) \in Seq(S) /\ Len(SubSeq(s, 1, k)) = k
      /\ \A i \in 1 .. k : SubSeq(s, 1, k)[i] = s[i]
    BY PrefixFacts
<1>6. SubSeq(t, 1, k) = SubSeq(s, 1, k)
    BY <1>1, <1>2, <1>4, <1>5, SeqEqual
<1> QED BY <1>6 DEF t

----------------------------------------------------------------------------
(* Histories.                                                              *)

\* What entries are made of.
LEMMA EntryTypes ==
    ASSUME NEW entries \in Seq(Entry)
    PROVE  /\ Len(entries) \in Nat
           /\ \A i \in 1 .. Len(entries) :
                  /\ entries[i] \in Entry /\ entries[i].height \in Nat
                  /\ entries[i].hash \in BlockHash /\ entries[i].csn \in Seq(BlockHash)
                  /\ Len(entries[i].csn) \in Nat
<1>1. Len(entries) \in Nat /\ \A i \in 1 .. Len(entries) : entries[i] \in Entry
    BY LenProperties
<1>2. \A e \in Entry : /\ e.height \in Nat /\ e.hash \in BlockHash
                       /\ e.csn \in Seq(BlockHash) /\ Len(e.csn) \in Nat
    BY LenProperties DEF Entry
<1> QED BY <1>1, <1>2

\* A state with one block more than the newest entry's goes on the history.
LEMMA ConsecutiveAppend ==
    ASSUME NEW entries \in Seq(Entry), Consecutive(entries), NEW e \in Entry,
           Len(e.csn) = e.height + 1,
           entries # <<>> =>
               /\ e.height = entries[Len(entries)].height + 1
               /\ entries[Len(entries)].csn = SubSeq(e.csn, 1, e.height)
    PROVE  Consecutive(Append(entries, e))
<1> DEFINE n == Len(entries)
           longer == Append(entries, e)
<1>1. /\ n \in Nat
      /\ \A i \in 1 .. n : /\ entries[i].height \in Nat
                           /\ entries[i].csn \in Seq(BlockHash)
    BY EntryTypes
<1>2. e.height \in Nat /\ e.csn \in Seq(BlockHash)
    BY DEF Entry
<1>3. /\ Len(longer) = n + 1 /\ longer[n + 1] = e
      /\ \A i \in 1 .. n : longer[i] = entries[i]
    BY AppendProperties
<1>4. n > 0 => entries # <<>>
    BY EmptySeq
<1> HIDE DEF n, longer
<1>5. \A i \in 1 .. n + 1 : i = n + 1 \/ i \in 1 .. n
    BY <1>1
<1>6. ASSUME NEW i \in 1 .. n
      PROVE  /\ entries[i].height = e.height - (n + 1 - i)
             /\ entries[i].csn = SubSeq(e.csn, 1, entries[i].height + 1)
    <2>1. n \in 1 .. n /\ i <= n /\ n > 0
        BY <1>1
    <2>2. /\ e.height = entries[n].height + 1
          /\ entries[n].csn = SubSeq(e.csn, 1, e.height)
        BY <1>4, <2>1 DEF n
    <2>3. /\ entries[i].height = entries[n].height - (n - i)
          /\ entries[i].csn = SubSeq(entries[n].csn, 1, entries[i].height + 1)
        BY <2>1 DEF Consecutive, n
    <2>4. entries[i].height \in Nat /\ entries[n].height \in Nat
        BY <1>1, <2>1
    <2>5. entries[i].height + 1 \in 0 .. e.height /\ e.height \in 0 .. Len(e.csn)
        <3>1. /\ i \in Nat /\ n \in Nat /\ i <= n /\ e.height \in Nat
              /\ Len(e.csn) = e.height + 1 /\ e.height = entries[n].height + 1
              /\ entries[i].height = entries[n].height - (n - i)
            BY <1>1, <1>2, <2>1, <2>2, <2>3
        <3> QED BY <2>4, <3>1, SMTT(40)
    <2>6. SubSeq(SubSeq(e.csn, 1, e.height), 1, entries[i].height + 1)
              = SubSeq(e.csn, 1, entries[i].height + 1)
        BY <1>2, <2>5, PrefixOfPrefix
    <2>7. entries[i].height = e.height - (n + 1 - i)
        <3>1. /\ i \in Nat /\ n \in Nat /\ e.height = entries[n].height + 1
              /\ entries[i].height = entries[n].height - (n - i)
            BY <1>1, <2>2, <2>3
        <3> QED BY <2>4, <3>1, SMTT(40)
    <2> QED BY <2>2, <2>3, <2>6, <2>7
<1>7. e.csn = SubSeq(e.csn, 1, e.height + 1)
    BY <1>2, SubSeqFull
<1>8. ASSUME NEW i \in 1 .. n + 1 PROVE Len(longer[i].csn) = longer[i].height + 1
    BY <1>3, <1>5 DEF Consecutive, n
<1>9. ASSUME NEW i \in 1 .. n + 1, NEW j \in 1 .. n + 1, i <= j
      PROVE  /\ longer[i].height = longer[j].height - (j - i)
             /\ longer[i].csn = SubSeq(longer[j].csn, 1, longer[i].height + 1)
    <2>1. CASE j \in 1 .. n
        <3>1. i \in 1 .. n
            BY <1>1, <1>9, <2>1
        <3> QED BY <1>3, <1>9, <2>1, <3>1, ZenonT(60) DEF Consecutive, n
    <2>2. CASE j = n + 1 /\ i \in 1 .. n
        <3>1. longer[j] = e /\ longer[i] = entries[i]
            BY <1>3, <2>2
        <3>2. j - i = n + 1 - i
            BY <1>1, <2>2
        <3> QED BY <1>6, <2>2, <3>1, <3>2
    <2>3. CASE j = n + 1 /\ i = n + 1
        BY <1>1, <1>2, <1>3, <1>7, <2>3
    <2> QED BY <1>5, <2>1, <2>2, <2>3
<1>10. Consecutive(longer)
    BY <1>3, <1>8, <1>9 DEF Consecutive
<1> QED BY <1>10 DEF longer

\* Entries can be dropped from the front and from the back.
LEMMA ConsecutivePart ==
    ASSUME NEW entries \in Seq(Entry), Consecutive(entries),
           NEW part \in Seq(Entry), NEW shift \in Nat,
           \A i \in 1 .. Len(part) : /\ i + shift \in 1 .. Len(entries)
                                     /\ part[i] = entries[i + shift]
    PROVE  Consecutive(part)
<1>1. Len(part) \in Nat /\ Len(entries) \in Nat
      /\ \A i \in 1 .. Len(entries) : entries[i].height \in Nat
    BY EntryTypes
<1>2. ASSUME NEW i \in 1 .. Len(part) PROVE Len(part[i].csn) = part[i].height + 1
    BY DEF Consecutive
<1>3. ASSUME NEW i \in 1 .. Len(part), NEW j \in 1 .. Len(part), i <= j
      PROVE  /\ part[i].height = part[j].height - (j - i)
             /\ part[i].csn = SubSeq(part[j].csn, 1, part[i].height + 1)
    <2>1. /\ i + shift <= j + shift /\ (j + shift) - (i + shift) = j - i
          /\ i + shift \in 1 .. Len(entries) /\ j + shift \in 1 .. Len(entries)
        BY <1>1, <1>3
    <2>2. part[i] = entries[i + shift] /\ part[j] = entries[j + shift]
        OBVIOUS
    <2> QED BY <2>1, <2>2, SMTT(40) DEF Consecutive
<1> QED BY <1>2, <1>3 DEF Consecutive
----------------------------------------------------------------------------
(* Every step keeps the invariant.                                         *)

\* The follower starts from a snapshot or from nothing.
LEMMA InitHasInvariant ==
    ASSUME Init PROVE ShadowInv
<1>1. <<>> \in Seq(BlockHash) /\ NodeChains \subseteq Seq(BlockHash)
    BY ChainAssumption, EmptySeq
<1>2. Types
    <2>1. snapshot \in Seq(BlockHash)
        BY <1>1, SnapshotAssumption DEF Init
    <2>2. phase \notin {"hash", "json"}
        BY DEF Init
    <2>3. history \in Seq(Entry)
        BY EmptySeq DEF Init
    <2> QED BY <1>1, <2>1, <2>2, <2>3 DEF Types, Init
<1>3. history = <<>> /\ Len(history) = 0
    BY EmptySeq DEF Init
<1>4. Consecutive(history) /\ Len(history) <= history_cap
    BY <1>3, BoundAssumption DEF Consecutive
<1>5. SidesPart
    BY <1>3 DEF Init, SidesPart
<1>6. phase \in {"done", "tip"}
    BY DEF Init
<1>7. UnwindPart
    BY <1>6 DEF UnwindPart
<1>8. BranchPart
    BY <1>3, <1>6, SnapshotAssumption DEF Init, BranchPart
<1> QED BY <1>2, <1>4, <1>5, <1>7, <1>8 DEF ShadowInv

\* The node's blocks, by height.
LEMMA Answer ==
    ASSUME chain \in NodeChains, NEW height \in Nat, Answers(height)
    PROVE  At(height) \in BlockHash
<1>1. chain \in Seq(BlockHash) /\ Len(chain) \in Nat
    BY ChainAssumption, LenProperties
<1>2. height + 1 \in 1 .. Len(chain)
    BY <1>1 DEF Answers
<1> QED BY <1>1, <1>2, ElementOfSeq DEF At

\* What happens to the node is no concern of the invariant.
LEMMA NodeKeepsInvariant ==
    ASSUME ShadowInv, chain' \in NodeChains,
           UNCHANGED <<phase, told, sides, rewind, snapshot, mixed>>
    PROVE  ShadowInv'
<1>1. /\ phase' = phase /\ raw' = raw /\ hash' = hash /\ bridge' = bridge /\ csn' = csn
      /\ history' = history /\ marks' = marks /\ restored' = restored
      /\ snapshot' = snapshot /\ mixed' = mixed
    BY DEF told, sides, rewind
<1>2. Types'
    BY <1>1 DEF ShadowInv, Types
<1>3. Consecutive(history)' /\ (Len(history) <= history_cap)'
    BY <1>1 DEF ShadowInv
<1>4. SidesPart' /\ UnwindPart'
    BY <1>1 DEF ShadowInv, SidesPart, UnwindPart
<1>5. BranchPart'
    BY <1>1 DEF ShadowInv, BranchPart, Linked, EntryOnBranch
<1> QED BY <1>2, <1>3, <1>4, <1>5 DEF ShadowInv

\* A step that only changes what the follower asks next keeps the sides.
LEMMA PhaseKeepsInvariant ==
    ASSUME ShadowInv, phase \in Iterating, phase' \in {"tip", "check", "block", "failed"},
           UNCHANGED <<node, sides, restored, snapshot>>, mixed => mixed'
    PROVE  ShadowInv'
<1>1. /\ chain' = chain /\ bridge' = bridge /\ csn' = csn /\ history' = history
      /\ restored' = restored /\ snapshot' = snapshot
    BY DEF node, sides
<1>2. phase' \notin {"hash", "json", "fork", "replay"}
    OBVIOUS
<1>3. Types'
    BY <1>1, <1>2 DEF ShadowInv, Types
<1>4. Consecutive(history)' /\ (Len(history) <= history_cap)'
    BY <1>1 DEF ShadowInv
<1>5. SidesPart' /\ UnwindPart'
    BY <1>1, <1>2 DEF ShadowInv, SidesPart, UnwindPart
<1>6. BranchPart'
    BY <1>1, <1>2 DEF ShadowInv, BranchPart, EntryOnBranch
<1> QED BY <1>3, <1>4, <1>5, <1>6 DEF ShadowInv

\* Looking at its own tip, it keeps its states.
LEMMA CheckTipKeepsInvariant ==
    ASSUME ShadowInv, CheckTip PROVE ShadowInv'
<1>1. phase = "check" /\ phase \in Iterating
    BY DEF CheckTip, Iterating
<1>2. CASE phase' \in {"tip", "block"}
    BY <1>1, <1>2, PhaseKeepsInvariant DEF CheckTip
<1>3. CASE phase' \notin {"tip", "block"}
    <2>1. phase' = "fork" /\ marks' = Len(history) /\ history # <<>>
        BY <1>3 DEF CheckTip, Retry, Recorded
    <2>2. /\ chain' = chain /\ bridge' = bridge /\ csn' = csn /\ history' = history
          /\ restored' = restored /\ snapshot' = snapshot /\ mixed' = mixed
        BY DEF CheckTip, node, sides
    <2>3. Types'
        BY <2>1, <2>2 DEF ShadowInv, Types
    <2>4. Consecutive(history)' /\ (Len(history) <= history_cap)'
        BY <2>2 DEF ShadowInv
    <2>5. SidesPart'
        BY <1>1, <2>2 DEF ShadowInv, SidesPart
    <2>6. UnwindPart'
        <3>1. Len(history) \in Nat \ {0}
            BY <2>1, EmptySeq DEF ShadowInv, Types
        <3> QED BY <2>1, <2>2, <3>1 DEF UnwindPart
    <2>7. BranchPart'
        BY <1>1, <2>1, <2>2 DEF ShadowInv, BranchPart, EntryOnBranch
    <2> QED BY <2>3, <2>4, <2>5, <2>6, <2>7 DEF ShadowInv
<1> QED BY <1>2, <1>3

\* A block fetched is of the branch the node is on.
LEMMA FetchBlockKeepsInvariant ==
    ASSUME ShadowInv, FetchBlock PROVE ShadowInv'
<1>1. phase = "block" /\ phase \in Iterating
    BY DEF FetchBlock, Iterating
<1>2. CASE ~Answers(next)
    BY <1>1, <1>2, PhaseKeepsInvariant DEF FetchBlock, Retry, rewind
<1>3. CASE Answers(next)
    <2>1. /\ phase' = "hash" /\ raw' = At(next)
          /\ mixed' = (mixed \/ ~Linked(bridge, At(next)))
          /\ chain' = chain /\ bridge' = bridge /\ csn' = csn /\ history' = history
          /\ restored' = restored /\ snapshot' = snapshot /\ marks' = marks
        BY <1>3 DEF FetchBlock, node, sides, rewind
    <2>2. raw' \in BlockHash
        <3>1. next \in Nat
            BY LenProperties DEF next, ShadowInv, Types
        <3> QED BY <1>3, <2>1, <3>1, Answer DEF ShadowInv, Types
    <2>3. Types'
        BY <2>1, <2>2 DEF ShadowInv, Types
    <2>4. Consecutive(history)' /\ (Len(history) <= history_cap)'
        BY <2>1 DEF ShadowInv
    <2>5. SidesPart' /\ UnwindPart'
        BY <1>1, <2>1 DEF ShadowInv, SidesPart, UnwindPart
    <2>6. BranchPart'
        BY <1>1, <2>1 DEF ShadowInv, BranchPart, EntryOnBranch, Linked
    <2> QED BY <2>3, <2>4, <2>5, <2>6 DEF ShadowInv
<1> QED BY <1>2, <1>3

\* So is its hash, unless the node has changed branch in between.
LEMMA FetchHashKeepsInvariant ==
    ASSUME ShadowInv, FetchHash PROVE ShadowInv'
<1>1. phase = "hash" /\ phase \in Iterating
    BY DEF FetchHash, Iterating
<1>2. CASE ~Answers(next)
    BY <1>1, <1>2, PhaseKeepsInvariant DEF FetchHash, Retry, rewind
<1>3. CASE Answers(next)
    <2>1. /\ phase' = "json" /\ raw' = raw /\ hash' = At(next)
          /\ mixed' = (mixed \/ At(next) # raw)
          /\ chain' = chain /\ bridge' = bridge /\ csn' = csn /\ history' = history
          /\ restored' = restored /\ snapshot' = snapshot /\ marks' = marks
        BY <1>3 DEF FetchHash, node, sides, rewind
    <2>2. hash' \in BlockHash
        <3>1. next \in Nat
            BY LenProperties DEF next, ShadowInv, Types
        <3> QED BY <1>3, <2>1, <3>1, Answer DEF ShadowInv, Types
    <2>3. Types'
        BY <1>1, <2>1, <2>2 DEF ShadowInv, Types
    <2>4. Consecutive(history)' /\ (Len(history) <= history_cap)'
        BY <2>1 DEF ShadowInv
    <2>5. SidesPart' /\ UnwindPart'
        BY <1>1, <2>1 DEF ShadowInv, SidesPart, UnwindPart
    <2>6. BranchPart'
        BY <1>1, <2>1 DEF ShadowInv, BranchPart, EntryOnBranch, Linked
    <2> QED BY <2>3, <2>4, <2>5, <2>6 DEF ShadowInv
<1> QED BY <1>2, <1>3
\* The entry that Apply adds.
LEMMA AppliedEntry ==
    ASSUME ShadowInv, Apply
    PROVE  LET entry == [height |-> next, hash |-> hash, csn |-> csn']
               longer == Append(history, entry)
           IN  /\ entry \in Entry /\ csn' \in Seq(BlockHash) /\ Len(csn') = next + 1
               /\ csn = bridge /\ csn' = Append(bridge, raw)
               /\ longer \in Seq(Entry) /\ Len(longer) = Len(history) + 1
               /\ longer[Len(history) + 1] = entry
               /\ \A i \in 1 .. Len(history) : longer[i] = history[i]
               /\ Consecutive(longer)
<1> DEFINE entry == [height |-> next, hash |-> hash, csn |-> csn']
<1>1. /\ phase = "json" /\ phase \in Iterating /\ csn' = Append(csn, raw)
      /\ raw \in BlockHash /\ hash \in BlockHash /\ history \in Seq(Entry)
      /\ bridge \in Seq(BlockHash) /\ Consecutive(history)
    BY DEF Apply, Iterating, ShadowInv, Types
<1>2. csn = bridge /\ (history # <<>> => history[Len(history)].csn = csn)
    BY <1>1 DEF ShadowInv, SidesPart
<1>3. /\ csn' \in Seq(BlockHash) /\ Len(csn') = next + 1 /\ next \in Nat
    BY <1>1, <1>2, AppendProperties, LenProperties DEF next
<1>4. entry \in Entry
    BY <1>1, <1>3 DEF Entry
<1>5. entry.height = next /\ entry.csn = csn'
    OBVIOUS
<1> HIDE DEF entry
<1>6. history # <<>> =>
          /\ entry.height = history[Len(history)].height + 1
          /\ history[Len(history)].csn = SubSeq(entry.csn, 1, entry.height)
    <2> SUFFICES ASSUME history # <<>>
                 PROVE  /\ entry.height = history[Len(history)].height + 1
                        /\ history[Len(history)].csn = SubSeq(entry.csn, 1, entry.height)
        OBVIOUS
    <2>1. Len(history) \in 1 .. Len(history)
        BY <1>1, EmptySeq
    <2>2. /\ Len(history[Len(history)].csn) = history[Len(history)].height + 1
          /\ history[Len(history)].height \in Nat
        BY <1>1, <2>1, EntryTypes DEF Consecutive
    <2>3. next = history[Len(history)].height + 1
        BY <1>2, <2>2 DEF next
    <2>4. SubSeq(Append(csn, raw), 1, Len(csn)) = SubSeq(csn, 1, Len(csn))
        <3>1. Len(csn) \in 0 .. Len(csn)
            BY <1>1, <1>2, <1>3 DEF next
        <3> QED BY <1>1, <1>2, <3>1, PrefixOfAppend
    <2>5. SubSeq(csn, 1, Len(csn)) = csn
        BY <1>1, <1>2, SubSeqFull
    <2> QED BY <1>1, <1>2, <1>5, <2>3, <2>4, <2>5 DEF next
<1>7. Consecutive(Append(history, entry))
    BY <1>1, <1>3, <1>4, <1>5, <1>6, ConsecutiveAppend
<1>8. /\ Append(history, entry) \in Seq(Entry) /\ Len(Append(history, entry)) = Len(history) + 1
      /\ Append(history, entry)[Len(history) + 1] = entry
      /\ \A i \in 1 .. Len(history) : Append(history, entry)[i] = history[i]
    BY <1>1, <1>4, AppendProperties
<1> QED BY <1>1, <1>2, <1>3, <1>4, <1>7, <1>8 DEF entry

\* What the cap leaves of a history that had at most one entry too many.
LEMMA CappedFacts ==
    ASSUME NEW entries \in Seq(Entry), entries # <<>>, Len(entries) <= history_cap + 1,
           Consecutive(entries)
    PROVE  /\ Capped(entries) \in Seq(Entry) /\ Len(Capped(entries)) <= history_cap
           /\ Capped(entries) # <<>> /\ Consecutive(Capped(entries))
           /\ Capped(entries)[Len(Capped(entries))] = entries[Len(entries)]
           /\ \A i \in 1 .. Len(Capped(entries)) :
                  \E j \in 1 .. Len(entries) : Capped(entries)[i] = entries[j]
<1>1. Len(entries) \in Nat \ {0} /\ history_cap \in Nat \ {0}
    BY EmptySeq, BoundAssumption
<1>2. CASE Len(entries) > history_cap
    <2> DEFINE t == Tail(entries)
    <2>1. /\ t \in Seq(Entry) /\ Len(t) = Len(entries) - 1
          /\ \A i \in 1 .. Len(t) : t[i] = entries[i + 1]
        BY HeadTailProperties
    <2>2. Capped(entries) = t
        BY <1>2 DEF Capped
    <2> HIDE DEF t
    <2>3. Len(t) = history_cap /\ Len(t) \in 1 .. Len(t)
        BY <1>1, <1>2, <2>1
    <2>4. t # <<>>
        BY <1>1, <2>1, <2>3, EmptySeq
    <2>5. \A i \in 1 .. Len(t) : i + 1 \in 1 .. Len(entries)
        BY <1>1, <2>1
    <2>6. Consecutive(t)
        BY <2>1, <2>5, ConsecutivePart
    <2>7. t[Len(t)] = entries[Len(entries)]
        <3>1. Len(t) + 1 = Len(entries)
            BY <1>1, <2>1
        <3> QED BY <2>1, <2>3, <3>1
    <2>8. Len(t) <= history_cap
        BY <1>1, <2>3
    <2> QED BY <2>1, <2>2, <2>4, <2>5, <2>6, <2>7, <2>8
<1>3. CASE ~(Len(entries) > history_cap)
    <2>1. Capped(entries) = entries
        BY <1>3 DEF Capped
    <2>2. Len(entries) <= history_cap
        BY <1>1, <1>3
    <2> QED BY <2>1, <2>2
<1> QED BY <1>2, <1>3

\* A block applied to both sides makes one more entry.
LEMMA ApplyKeepsInvariant ==
    ASSUME ShadowInv, Apply PROVE ShadowInv'
<1> DEFINE entry  == [height |-> next, hash |-> hash, csn |-> csn']
           longer == Append(history, entry)
<1>1. /\ entry \in Entry /\ csn' \in Seq(BlockHash) /\ Len(csn') = next + 1
      /\ csn = bridge /\ csn' = Append(bridge, raw)
      /\ longer \in Seq(Entry) /\ Len(longer) = Len(history) + 1
      /\ longer[Len(history) + 1] = entry
      /\ \A i \in 1 .. Len(history) : longer[i] = history[i]
      /\ Consecutive(longer)
    BY AppliedEntry
<1>2. entry.height = next /\ entry.csn = csn' /\ entry.hash = hash
    OBVIOUS
<1>3. history' = Capped(longer)
    BY DEF Apply
<1> HIDE DEF entry, longer
<1>4. /\ chain' = chain /\ restored' = restored /\ snapshot' = snapshot /\ mixed' = mixed
      /\ phase = "json" /\ phase' \in {"tip", "done"} /\ bridge' = csn'
    BY <1>1 DEF Apply, node, rewind
<1>5. Len(history) \in Nat /\ Len(history) <= history_cap /\ history_cap \in Nat
    BY LenProperties, BoundAssumption DEF ShadowInv, Types
<1>6. longer # <<>> /\ Len(longer) <= history_cap + 1
    BY <1>1, <1>5, EmptySeq
<1>7. /\ history' \in Seq(Entry) /\ Len(history') <= history_cap
      /\ history' # <<>> /\ Consecutive(history')
      /\ history'[Len(history')] = longer[Len(longer)]
      /\ \A i \in 1 .. Len(history') : \E j \in 1 .. Len(longer) : history'[i] = longer[j]
    BY <1>1, <1>3, <1>6, CappedFacts
<1>8. Types'
    BY <1>1, <1>4, <1>7 DEF ShadowInv, Types
<1>9. SidesPart'
    <2>1. history'[Len(history')].csn = csn'
        BY <1>1, <1>2, <1>7
    <2> QED BY <1>4, <2>1 DEF SidesPart
<1>10. UnwindPart'
    BY <1>4 DEF UnwindPart
<1>11. BranchPart'
    <2> SUFFICES ASSUME ~mixed PROVE (/\ bridge \in NodeChains
                                      /\ \A i \in 1 .. Len(history) : EntryOnBranch(history[i]))'
        BY <1>4 DEF BranchPart
    <2>1. /\ Linked(bridge, raw) /\ hash = raw
          /\ \A i \in 1 .. Len(history) : EntryOnBranch(history[i])
        BY <1>4 DEF ShadowInv, BranchPart
    <2>2. bridge' \in NodeChains /\ csn' \in NodeChains
        BY <1>1, <1>4, <2>1 DEF Linked
    <2>3. EntryOnBranch(entry)
        <3>1. csn'[next + 1] = raw
            BY <1>4, <1>1, AppendProperties DEF next, ShadowInv, Types
        <3> QED BY <1>2, <2>1, <2>2, <3>1 DEF EntryOnBranch
    <2>4. \A j \in 1 .. Len(longer) : EntryOnBranch(longer[j])
        <3>1. \A j \in 1 .. Len(longer) : j = Len(history) + 1 \/ j \in 1 .. Len(history)
            BY <1>1, <1>5
        <3> QED BY <1>1, <2>1, <2>3, <3>1
    <2>5. \A i \in 1 .. Len(history') : EntryOnBranch(history'[i])
        BY <1>7, <2>4
    <2> QED BY <2>2, <2>5 DEF EntryOnBranch
<1> QED BY <1>7, <1>8, <1>9, <1>10, <1>11 DEF ShadowInv
\* Looking for the fork, it keeps its states.
LEMMA FindForkKeepsInvariant ==
    ASSUME ShadowInv, FindFork PROVE ShadowInv'
<1>1. /\ phase = "fork" /\ phase \in Iterating /\ marks \in 1 .. Len(history)
      /\ history \in Seq(Entry) /\ Len(history) \in Nat
    BY LenProperties DEF FindFork, Iterating, ShadowInv, Types, UnwindPart
<1>2. /\ chain' = chain /\ bridge' = bridge /\ csn' = csn /\ snapshot' = snapshot
      /\ mixed' = mixed
    BY DEF FindFork, node
<1>3. CASE history' = history /\ restored' = restored
           /\ phase' \in {"tip", "failed", "fork"}
           /\ (phase' = "fork" => marks' \in 1 .. Len(history))
    <2>1. Types'
        BY <1>2, <1>3 DEF ShadowInv, Types
    <2>2. Consecutive(history)' /\ (Len(history) <= history_cap)'
        BY <1>3 DEF ShadowInv
    <2>3. SidesPart' /\ UnwindPart'
        BY <1>1, <1>2, <1>3 DEF ShadowInv, SidesPart, UnwindPart
    <2>4. BranchPart'
        BY <1>1, <1>2, <1>3 DEF ShadowInv, BranchPart, EntryOnBranch
    <2> QED BY <2>1, <2>2, <2>3, <2>4 DEF ShadowInv
<1>4. CASE history' = Surviving /\ restored' = snapshot /\ phase' = "replay"
    <2>1. /\ history' \in Seq(Entry) /\ Len(history') = marks
          /\ \A i \in 1 .. marks : history'[i] = history[i]
        BY <1>1, <1>4, PrefixFacts DEF Surviving
    <2>2. \A i \in 1 .. marks : i \in 1 .. Len(history) /\ i + 0 = i
        BY <1>1
    <2>3. Consecutive(history')
        BY <1>1, <2>1, <2>2, ConsecutivePart, ZenonT(60) DEF ShadowInv
    <2>4. Len(history') <= history_cap
        BY <1>1, <2>1, BoundAssumption DEF ShadowInv
    <2>5. Types'
        BY <1>2, <1>4, <2>1 DEF ShadowInv, Types
    <2>6. SidesPart'
        BY <1>4 DEF SidesPart, Iterating
    <2>7. UnwindPart'
        BY <1>1, <1>4, <2>1, EmptySeq DEF UnwindPart
    <2>8. BranchPart'
        <3> SUFFICES ASSUME ~mixed
                     PROVE  \A i \in 1 .. Len(history') : EntryOnBranch(history'[i])
            BY <1>2, <1>4 DEF BranchPart, EntryOnBranch, Iterating
        <3>1. \A i \in 1 .. Len(history) : EntryOnBranch(history[i])
            BY DEF ShadowInv, BranchPart
        <3> QED BY <2>1, <2>2, <3>1
    <2> QED BY <2>3, <2>4, <2>5, <2>6, <2>7, <2>8 DEF ShadowInv
<1>5. \/ /\ history' = history /\ restored' = restored
         /\ phase' \in {"tip", "failed"}
      \/ /\ history' = history /\ restored' = restored
         /\ marks' = marks - 1 /\ phase' = IF marks = 1 THEN "failed" ELSE "fork"
      \/ history' = Surviving /\ restored' = snapshot /\ phase' = "replay"
    BY DEF FindFork
<1>6. marks # 1 => marks - 1 \in 1 .. Len(history)
    BY <1>1
<1> QED BY <1>3, <1>4, <1>5, <1>6

\* The bridge is rebuilt out of sight: nothing else moves.
LEMMA RefetchKeepsInvariant ==
    ASSUME ShadowInv, Refetch PROVE ShadowInv'
<1>1. /\ phase = "replay" /\ phase' \in {"replay", "failed"}
      /\ chain' = chain /\ bridge' = bridge /\ csn' = csn /\ snapshot' = snapshot
      /\ mixed' = mixed /\ history' = history
    BY DEF Refetch, node, sides
<1>2. restored' \in Seq(BlockHash)
    <2>1. restored \in Seq(BlockHash) /\ Len(restored) \in Nat
        BY LenProperties DEF ShadowInv, Types
    <2>2. CASE restored' = restored
        BY <2>1, <2>2
    <2>3. CASE restored' # restored
        <3>1. Answers(Len(restored)) /\ restored' = Append(restored, At(Len(restored)))
            BY <2>3 DEF Refetch
        <3>2. At(Len(restored)) \in BlockHash
            BY <2>1, <3>1, Answer DEF ShadowInv, Types
        <3> QED BY <2>1, <3>1, <3>2, AppendProperties
    <2> QED BY <2>2, <2>3
<1>3. Types'
    BY <1>1, <1>2 DEF ShadowInv, Types
<1>4. Consecutive(history)' /\ (Len(history) <= history_cap)'
    BY <1>1 DEF ShadowInv
<1>5. SidesPart' /\ UnwindPart'
    BY <1>1 DEF ShadowInv, SidesPart, UnwindPart, Iterating
<1>6. BranchPart'
    BY <1>1 DEF ShadowInv, BranchPart, EntryOnBranch, Iterating
<1> QED BY <1>3, <1>4, <1>5, <1>6 DEF ShadowInv

\* Both sides go back to the same entry.
LEMMA RestoreKeepsInvariant ==
    ASSUME ShadowInv, Restore PROVE ShadowInv'
<1>1. /\ phase = "replay" /\ phase' \in {"tip", "failed"} /\ (phase' = "tip" => csn' = bridge')
      /\ chain' = chain /\ snapshot' = snapshot /\ mixed' = mixed /\ history' = history
      /\ bridge' = restored /\ csn' = Last(history).csn /\ restored' = <<>>
    BY DEF Restore, node
<1>2. /\ history \in Seq(Entry) /\ history # <<>> /\ Len(history) \in 1 .. Len(history)
      /\ Last(history) = history[Len(history)]
    BY <1>1, EmptySeq DEF ShadowInv, Types, UnwindPart, Last
<1>3. csn' \in Seq(BlockHash)
    BY <1>1, <1>2, EntryTypes
<1>4. Types'
    BY <1>1, <1>3, EmptySeq DEF ShadowInv, Types
<1>5. Consecutive(history)' /\ (Len(history) <= history_cap)'
    BY <1>1 DEF ShadowInv
<1>6. SidesPart'
    BY <1>1, <1>2 DEF SidesPart, Iterating
<1>7. UnwindPart'
    BY <1>1 DEF UnwindPart
<1>8. BranchPart'
    <2> SUFFICES ASSUME ~mixed, phase' = "tip"
                 PROVE  bridge' \in NodeChains
        BY <1>1 DEF ShadowInv, BranchPart, EntryOnBranch, Iterating
    <2>1. EntryOnBranch(history[Len(history)])
        BY <1>2 DEF ShadowInv, BranchPart
    <2> QED BY <1>1, <1>2, <2>1 DEF EntryOnBranch
<1> QED BY <1>4, <1>5, <1>6, <1>7, <1>8 DEF ShadowInv

\* The invariant holds of every state the run can reach.
THEOREM ShadowInvariant == Spec => []ShadowInv
<1>1. ShadowInv /\ [Next]_vars => ShadowInv'
    <2> SUFFICES ASSUME ShadowInv, [Next]_vars PROVE ShadowInv'
        OBVIOUS
    <2>1. ASSUME NEW c \in NodeChains, NodeMoves(c) PROVE ShadowInv'
        BY <2>1, NodeKeepsInvariant DEF NodeMoves
    <2>2. CASE NodeGoesOrComes
        BY <2>2, NodeKeepsInvariant DEF NodeGoesOrComes, ShadowInv, Types
    <2>3. CASE QueryTip
        BY <2>3, PhaseKeepsInvariant DEF QueryTip, Iterating, rewind
    <2>4. CASE OracleDisagrees \/ BridgeRejects
        BY <2>4, PhaseKeepsInvariant DEF OracleDisagrees, BridgeRejects, Stop, Iterating, rewind
    <2>5. CASE UNCHANGED vars
        BY <2>5, NodeKeepsInvariant DEF vars, node, ShadowInv, Types
    <2> QED BY <2>1, <2>2, <2>3, <2>4, <2>5, CheckTipKeepsInvariant,
               FetchBlockKeepsInvariant, FetchHashKeepsInvariant, ApplyKeepsInvariant,
               FindForkKeepsInvariant, RefetchKeepsInvariant, RestoreKeepsInvariant
            DEF Next, Follower, Iterate, Unwind
<1> QED BY <1>1, InitHasInvariant, PTL DEF Spec

----------------------------------------------------------------------------
(* The properties.                                                         *)

\* However often the node reorganises, and wherever in an unwind, the history
\* holds what both sides were after each of the newest blocks.
THEOREM HistoryAlwaysRewindsBothSides == Spec => []HistoryRewindsBothSides
<1>1. ShadowInv => HistoryRewindsBothSides
    <2> SUFFICES ASSUME ShadowInv, phase \in {"tip", "check"}
                 PROVE  /\ csn = bridge /\ Len(history) <= history_cap
                        /\ \A i \in DOMAIN history :
                               /\ history[i].height = next - 1 - (Len(history) - i)
                               /\ history[i].csn = SubSeq(csn, 1, history[i].height + 1)
        BY DEF HistoryRewindsBothSides
    <2>1. /\ csn = bridge /\ (history # <<>> => history[Len(history)].csn = csn)
          /\ Len(history) <= history_cap /\ Consecutive(history)
        BY DEF ShadowInv, SidesPart, Iterating
    <2>2. /\ history \in Seq(Entry) /\ DOMAIN history = 1 .. Len(history)
          /\ Len(history) \in Nat
        BY LenProperties DEF ShadowInv, Types
    <2>3. ASSUME NEW i \in DOMAIN history
          PROVE  /\ history[i].height = next - 1 - (Len(history) - i)
                 /\ history[i].csn = SubSeq(csn, 1, history[i].height + 1)
        <3> DEFINE newest == history[Len(history)]
        <3>1. i \in 1 .. Len(history) /\ Len(history) \in 1 .. Len(history) /\ history # <<>>
            BY <2>2, EmptySeq
        <3>2. /\ history[i].height = newest.height - (Len(history) - i)
              /\ history[i].csn = SubSeq(newest.csn, 1, history[i].height + 1)
            BY <2>1, <2>2, <3>1, SMTT(40) DEF Consecutive
        <3>3. newest.height \in Nat /\ Len(newest.csn) = newest.height + 1
            BY <2>1, <2>2, <3>1, EntryTypes DEF Consecutive
        <3>4. next = newest.height + 1
            BY <2>1, <3>1, <3>3 DEF next
        <3> HIDE DEF newest
        <3>5. next - 1 = newest.height
            BY <3>3, <3>4
        <3> QED BY <2>1, <3>1, <3>2, <3>5 DEF newest
    <2> QED BY <2>1, <2>3
<1> QED BY <1>1, ShadowInvariant, PTL

\* As long as no two answers used together were of two branches, both sides
\* and the history's hashes are of one branch.
THEOREM OneBranchIsFollowed == Spec => []OneBranchUnlessMixed
<1>1. ShadowInv => OneBranchUnlessMixed
    <2> SUFFICES ASSUME ShadowInv, ~mixed, phase \in {"tip", "check"}
                 PROVE  /\ bridge \in NodeChains \cup {<<>>}
                        /\ \A i \in DOMAIN history :
                               history[i].hash = bridge[history[i].height + 1]
        BY DEF OneBranchUnlessMixed
    <2>1. /\ csn = bridge /\ (history # <<>> => history[Len(history)].csn = csn)
          /\ Consecutive(history) /\ bridge \in NodeChains \cup {<<>>}
          /\ \A i \in 1 .. Len(history) : EntryOnBranch(history[i])
        BY DEF ShadowInv, SidesPart, BranchPart, Iterating
    <2>2. /\ history \in Seq(Entry) /\ DOMAIN history = 1 .. Len(history)
          /\ Len(history) \in Nat /\ csn \in Seq(BlockHash)
        BY LenProperties DEF ShadowInv, Types
    <2>3. ASSUME NEW i \in DOMAIN history
          PROVE  history[i].hash = bridge[history[i].height + 1]
        <3>1. i \in 1 .. Len(history) /\ Len(history) \in 1 .. Len(history) /\ history # <<>>
            BY <2>2, EmptySeq
        <3> DEFINE k == history[i].height + 1
        <3>2. history[i].csn = SubSeq(csn, 1, k) /\ history[i].hash = history[i].csn[k]
            BY <2>1, <2>2, <3>1, SMTT(40) DEF Consecutive, EntryOnBranch
        <3>3. k \in 1 .. Len(csn)
            <4>1. /\ history[i].height = history[Len(history)].height - (Len(history) - i)
                  /\ Len(history[Len(history)].csn) = history[Len(history)].height + 1
                BY <2>1, <2>2, <3>1 DEF Consecutive
            <4>2. history[i].height \in Nat /\ history[Len(history)].height \in Nat
                BY <2>2, <3>1, EntryTypes
            <4>3. Len(csn) = history[Len(history)].height + 1
                BY <2>1, <3>1, <4>1
            <4> QED BY <3>1, <4>1, <4>2, <4>3, SMTT(40)
        <3> HIDE DEF k
        <3>4. k \in 0 .. Len(csn) /\ k \in 1 .. k
            BY <2>2, <3>3
        <3>5. SubSeq(csn, 1, k)[k] = csn[k]
            BY <2>2, <3>4, PrefixFacts
        <3> QED BY <2>1, <3>2, <3>5 DEF k
    <2> QED BY <2>1, <2>3
<1> QED BY <1>1, ShadowInvariant, PTL

----------------------------------------------------------------------------
(* The genesis replay: the window.                                         *)

Fetched == [height : Nat, ok : BOOLEAN]
Part == [todo : Seq(Nat), got : Seq(Fetched)]

\* A result for every height of a range.
OneForEach(fetched, first, count) ==
    /\ \A entry \in fetched : entry \in Fetched /\ entry.height \in first .. first + count - 1
    /\ \A h \in first .. first + count - 1 : \E entry \in fetched : entry.height = h
    /\ \A one, other \in fetched : one.height = other.height => one = other

\* The results in height order are the range, in order.
LEMMA SortedResults ==
    ASSUME NEW first \in Nat, NEW count \in Nat, NEW fetched, OneForEach(fetched, first, count)
    PROVE  /\ Cardinality(fetched) = count
           /\ InHeightOrder(fetched) \in Seq(Fetched)
           /\ Len(InHeightOrder(fetched)) = count
           /\ \A i \in 1 .. count : InHeightOrder(fetched)[i].height = first + i - 1
<1> DEFINE at(i) == CHOOSE entry \in fetched : entry.height = first + i - 1
           s == [i \in 1 .. count |-> at(i)]
<1>1. \A i \in 1 .. count : at(i) \in fetched /\ at(i).height = first + i - 1
    <2> TAKE i \in 1 .. count
    <2>1. first + i - 1 \in first .. first + count - 1
        OBVIOUS
    <2>2. \E entry \in fetched : entry.height = first + i - 1
        BY <2>1 DEF OneForEach
    <2> QED BY <2>2
<1> HIDE DEF at
<1>2. s \in [1 .. count -> fetched] /\ \A i \in 1 .. count : s[i].height = first + i - 1
    BY <1>1
<1> HIDE DEF s
<1>3. s \in Bijection(1 .. count, fetched)
    <2>1. \A i, j \in 1 .. count : s[i] = s[j] => i = j
        <3> SUFFICES ASSUME NEW i \in 1 .. count, NEW j \in 1 .. count, s[i] = s[j] PROVE i = j
            OBVIOUS
        <3>1. first + i - 1 = first + j - 1
            BY <1>2
        <3> QED BY <3>1
    <2>2. ASSUME NEW entry \in fetched PROVE \E i \in 1 .. count : s[i] = entry
        <3>1. entry.height \in first .. first + count - 1
            BY DEF OneForEach
        <3>2. entry.height - first + 1 \in 1 .. count
            BY <3>1
        <3>3. s[entry.height - first + 1].height = entry.height
            BY <1>2, <3>1, <3>2
        <3> QED BY <1>2, <3>2, <3>3 DEF OneForEach
    <2> QED BY <1>2, <2>1, <2>2 DEF Bijection, Injection, Surjection, IsInjective
<1>4. Cardinality(fetched) = count
    BY <1>3, FS_CountingElements DEF ExistsBijection
<1> DEFINE Sorted(t) == \A i \in 1 .. count - 1 : t[i].height < t[i + 1].height
           r == InHeightOrder(fetched)
<1>5. r \in [1 .. count -> fetched] /\ Sorted(r)
    <2>1. Sorted(s)
        BY <1>2
    <2> HIDE DEF Sorted
    <2>2. r = CHOOSE t \in [1 .. count -> fetched] : Sorted(t)
        BY <1>4 DEF InHeightOrder, Sorted
    <2> HIDE DEF r
    <2> QED BY <1>2, <2>1, <2>2
<1> HIDE DEF r
<1>6. \A i \in 1 .. count : r[i] \in Fetched /\ r[i].height \in first .. first + count - 1
    BY <1>5 DEF OneForEach
<1>7. \A i \in 1 .. count : r[i].height >= first + i - 1
    <2> DEFINE Good == {k \in Nat : k \in 1 .. count => r[k].height >= first + k - 1}
    <2>1. \A k \in 1 .. count : k - 1 \in Good => k \in Good
        <3> SUFFICES ASSUME NEW k \in 1 .. count, k - 1 \in Good PROVE r[k].height >= first + k - 1
            OBVIOUS
        <3>1. CASE k = 1
            BY <3>1, <1>6
        <3>2. CASE k # 1
            <4>1. k - 1 \in 1 .. count - 1 /\ k - 1 + 1 = k
                BY <3>2
            <4>2. r[k - 1].height < r[k].height
                BY <4>1, <1>5
            <4>3. r[k - 1].height >= first + (k - 1) - 1
                BY <4>1
            <4>4. r[k - 1].height \in Int /\ r[k].height \in Int
                BY <1>6, <4>1
            <4> QED BY <4>2, <4>3, <4>4
        <3> QED BY <3>1, <3>2
    <2>2. 0 \in Good
        OBVIOUS
    <2> HIDE DEF Good
    <2>3. \A k \in 0 .. count : k \in Good
        BY <2>1, <2>2, UpTo
    <2> QED BY <2>3 DEF Good
<1>8. \A i \in 1 .. count : r[i].height <= first + i - 1
    <2> DEFINE Good == {k \in Nat : k < count => r[count - k].height <= first + count - k - 1}
    <2>1. \A k \in 1 .. count : k - 1 \in Good => k \in Good
        <3> SUFFICES ASSUME NEW k \in 1 .. count, k - 1 \in Good, k < count
                     PROVE  r[count - k].height <= first + count - k - 1
            OBVIOUS
        <3>1. count - k \in 1 .. count - 1 /\ count - k + 1 = count - (k - 1)
            OBVIOUS
        <3>2. r[count - k].height < r[count - (k - 1)].height
            BY <3>1, <1>5
        <3>3. r[count - (k - 1)].height <= first + count - (k - 1) - 1
            OBVIOUS
        <3>4. r[count - k].height \in Int /\ r[count - (k - 1)].height \in Int
            BY <1>6, <3>1
        <3> QED BY <3>2, <3>3, <3>4
    <2>2. 0 \in Good
        <3> SUFFICES ASSUME 0 < count PROVE r[count].height <= first + count - 1
            OBVIOUS
        <3> QED BY <1>6
    <2> HIDE DEF Good
    <2>3. \A k \in 0 .. count : k \in Good
        BY <2>1, <2>2, UpTo
    <2> TAKE i \in 1 .. count
    <2>4. count - i \in 0 .. count /\ count - i < count /\ count - (count - i) = i
        OBVIOUS
    <2>5. r[count - (count - i)].height <= first + count - (count - i) - 1
        BY <2>3, <2>4 DEF Good
    <2> QED BY <2>4, <2>5
<1>9. \A i \in 1 .. count : r[i].height = first + i - 1
    <2> TAKE i \in 1 .. count
    <2> QED BY <1>6, <1>7, <1>8
<1>10. r \in Seq(Fetched) /\ Len(r) = count
    <2>1. r \in [1 .. count -> Fetched]
        BY <1>5, <1>6
    <2> QED BY <2>1
<1> QED BY <1>4, <1>9, <1>10 DEF r

\* A thread has each of its heights once, to fetch or fetched.
HoldsOnce(part, heights) ==
    /\ IsInjective(part.todo)
    /\ Range(part.todo) \cup {entry.height : entry \in Range(part.got)} = heights
    /\ Range(part.todo) \cap {entry.height : entry \in Range(part.got)} = {}
    /\ \A one, other \in Range(part.got) : one.height = other.height => one = other

\* The heights of the k-th chunk.
Share(first, count, length, k) == {h \in first .. first + count - 1 : (h - first) \div length = k - 1}

\* The threads share a range.
Shared(shares, first, count) ==
    \E length \in Nat \ {0} :
        /\ \A k \in DOMAIN shares : HoldsOnce(shares[k], Share(first, count, length, k))
        /\ \A h \in first .. first + count - 1 : (h - first) \div length + 1 \in DOMAIN shares

\* Which chunk a position is in.
LEMMA ChunkOf ==
    ASSUME NEW x \in Nat, NEW length \in Nat \ {0}, NEW k \in Nat \ {0}
    PROVE  x \div length = k - 1 <=> (k - 1) * length <= x /\ x < k * length
<1> DEFINE q == x \div length
           r == x % length
<1>1. q \in Nat /\ r \in 0 .. length - 1 /\ x = q * length + r
    OBVIOUS
<1> HIDE DEF q, r
<1>2. ASSUME q = k - 1 PROVE (k - 1) * length <= x /\ x < k * length
    <2>1. k * length = (k - 1) * length + length
        OBVIOUS
    <2>2. q * length = (k - 1) * length
        BY <1>2
    <2> QED BY <1>1, <2>1, <2>2
<1>3. ASSUME q < k - 1, (k - 1) * length <= x PROVE FALSE
    <2>1. k - 1 - q - 1 \in Nat
        BY <1>1, <1>3
    <2>2. (k - 1) * length = q * length + length + (k - 1 - q - 1) * length
          /\ (k - 1 - q - 1) * length >= 0
        BY <1>1, <2>1
    <2> QED BY <1>1, <1>3, <2>2
<1>4. ASSUME q > k - 1, x < k * length PROVE FALSE
    <2>1. q - k \in Nat
        BY <1>1, <1>4
    <2>2. q * length = k * length + (q - k) * length /\ (q - k) * length >= 0
        BY <1>1, <2>1
    <2> QED BY <1>1, <1>4, <2>2
<1>5. q \in Int /\ k - 1 \in Int
    BY <1>1
<1> QED BY <1>2, <1>3, <1>4, <1>5 DEF q

\* How often a number goes into another.
LEMMA DivDown ==
    ASSUME NEW x \in Nat, NEW length \in Nat \ {0}
    PROVE  x \div length \in Nat /\ (x \div length) * length <= x
OBVIOUS

\* The chunks of a range share it.
LEMMA ChunksShare ==
    ASSUME NEW first \in Nat, NEW count \in Nat, NEW length \in Nat \ {0}, NEW heights,
           heights = [i \in 1 .. count |-> first + i - 1]
    PROVE  LET chunks == Chunks(heights, length)
               shares == [k \in DOMAIN chunks |-> [todo |-> chunks[k], got |-> <<>>]]
           IN  shares \in Seq(Part) /\ Shared(shares, first, count)
<1> DEFINE number == (count + length - 1) \div length
           low(k) == (k - 1) * length + 1
           high(k) == Min({k * length, count})
           chunk(k) == SubSeq(heights, low(k), high(k))
           shares == [k \in 1 .. number |-> [todo |-> chunk(k), got |-> <<>>]]
<1>1. heights \in Seq(Nat) /\ Len(heights) = count /\ DOMAIN heights = 1 .. count
    OBVIOUS
<1>2. number \in Nat
    <2>1. 0 <= number /\ number \in Int
        BY DivNat
    <2> QED BY <2>1
<1>3. /\ DOMAIN Chunks(heights, length) = 1 .. number
      /\ \A k \in 1 .. number : Chunks(heights, length)[k] = chunk(k)
    BY <1>1 DEF Chunks
<1>4. ASSUME NEW k \in 1 .. number
      PROVE  /\ chunk(k) \in Seq(Nat)
             /\ HoldsOnce([todo |-> chunk(k), got |-> <<>>], Share(first, count, length, k))
    <2> DEFINE l == (k - 1) * length
               m == k * length
    <2>1. k \in Nat \ {0}
        BY <1>2
    <2>2. l \in Nat /\ m \in Nat /\ m = l + length
        BY <2>1
    <2>3. high(k) = IF m <= count THEN m ELSE count
        BY <2>2, MinOfTwo
    <2> DEFINE c == chunk(k)
               n == IF low(k) <= high(k) THEN high(k) - low(k) + 1 ELSE 0
    <2>4. low(k) = l + 1
        OBVIOUS
    <2>5. low(k) \in Int /\ high(k) \in Int /\ n \in Nat
        BY <2>2, <2>3, <2>4
    <2> HIDE DEF l, m, low, high
    <2>6. /\ c \in Seq(Nat) /\ Len(c) = n
          /\ \A i \in 1 .. n : c[i] = first + l + i - 1
        <3>1. \A i \in low(k) .. high(k) : heights[i] \in Nat /\ heights[i] = first + i - 1
            BY <1>1, <2>2, <2>3, <2>4, <2>5
        <3>2. /\ c \in Seq(Nat) /\ Len(c) = n
              /\ \A i \in 1 .. high(k) - low(k) + 1 : c[i] = heights[low(k) + i - 1]
            BY <2>5, <3>1, SubSeqProperties
        <3> HIDE DEF c
        <3>3. ASSUME NEW i \in 1 .. n PROVE c[i] = first + l + i - 1
            <4>1. i \in 1 .. high(k) - low(k) + 1 /\ low(k) + i - 1 \in low(k) .. high(k)
                BY <2>5
            <4>2. c[i] = heights[low(k) + i - 1]
                BY <3>2, <4>1
            <4>3. heights[low(k) + i - 1] = first + (low(k) + i - 1) - 1
                BY <3>1, <4>1
            <4> QED BY <4>2, <4>3, <2>2, <2>4
        <3> QED BY <3>2, <3>3
    <2>7. \A h \in first .. first + count - 1 :
              h \in Share(first, count, length, k) <=> (l <= h - first /\ h - first < m)
        <3> TAKE h \in first .. first + count - 1
        <3>1. h - first \in Nat
            OBVIOUS
        <3>2. (h - first) \div length = k - 1 <=> (l <= h - first /\ h - first < m)
            BY <2>1, <3>1, ChunkOf DEF l, m
        <3> QED BY <3>2 DEF Share
    <2> HIDE DEF c
    <2>8. DOMAIN c = 1 .. n
        BY <2>6
    <2>9. Range(c) = Share(first, count, length, k)
        <3>1. ASSUME NEW h \in Range(c) PROVE h \in Share(first, count, length, k)
            <4>1. PICK i \in 1 .. n : h = first + l + i - 1
                BY <2>6, <2>8 DEF Range
            <4>2. h \in first .. first + count - 1 /\ l <= h - first /\ h - first < m
                BY <4>1, <2>2, <2>3, <2>4
            <4> QED BY <2>7, <4>2
        <3>2. ASSUME NEW h \in Share(first, count, length, k) PROVE h \in Range(c)
            <4>1. h \in first .. first + count - 1 /\ l <= h - first /\ h - first < m
                BY <2>7 DEF Share
            <4>2. h - first - l + 1 \in 1 .. n
                BY <4>1, <2>2, <2>3, <2>4
            <4>3. c[h - first - l + 1] = h
                BY <2>6, <4>1, <4>2, <2>2
            <4> QED BY <2>8, <4>2, <4>3 DEF Range
        <3> QED BY <3>1, <3>2
    <2>10. IsInjective(c)
        <3> SUFFICES ASSUME NEW i \in 1 .. n, NEW j \in 1 .. n, c[i] = c[j] PROVE i = j
            BY <2>8 DEF IsInjective
        <3>1. first + l + i - 1 = first + l + j - 1
            BY <2>6
        <3> QED BY <3>1, <2>2, <2>5
    <2>11. HoldsOnce([todo |-> c, got |-> <<>>], Share(first, count, length, k))
        <3>1. Range(<<>>) = {}
            BY DEF Range
        <3> QED BY <3>1, <2>9, <2>10 DEF HoldsOnce
    <2> QED BY <2>6, <2>11 DEF c
<1>5. shares \in Seq(Part)
    <2> HIDE DEF number, chunk
    <2>1. ASSUME NEW k \in 1 .. number PROVE [todo |-> chunk(k), got |-> <<>>] \in Part
        <3>1. chunk(k) \in Seq(Nat)
            BY <1>4
        <3>2. <<>> \in Seq(Fetched)
            BY EmptySeq
        <3> QED BY <3>1, <3>2 DEF Part
    <2> QED BY <1>2, <2>1
<1>6. ASSUME NEW h \in first .. first + count - 1
      PROVE  (h - first) \div length + 1 \in 1 .. number
    <2> DEFINE x == h - first
               q == x \div length
    <2>1. x \in Nat /\ x < count
        OBVIOUS
    <2> HIDE DEF x
    <2>2. q \in Nat /\ q * length <= x
        BY <2>1, DivDown
    <2> HIDE DEF q
    <2>3. q * length < count
        <3>1. q * length \in Nat
            BY <2>2
        <3> QED BY <2>1, <2>2, <3>1
    <2>4. q + 1 <= number
        BY <2>2, <2>3, FitsBelow
    <2> QED BY <2>2, <2>4, <1>2 DEF q, x
<1>7. Shared(shares, first, count)
    <2>1. \A k \in DOMAIN shares : HoldsOnce(shares[k], Share(first, count, length, k))
        BY <1>4
    <2> QED BY <2>1, <1>6 DEF Shared
<1>8. [k \in DOMAIN Chunks(heights, length) |-> [todo |-> Chunks(heights, length)[k], got |-> <<>>]]
          = shares
    BY <1>3
<1> QED BY <1>5, <1>7, <1>8

\* Once every thread has ended, there is a result for every height.
LEMMA SharedIsFetched ==
    ASSUME NEW shares \in Seq(Part), NEW first \in Nat, NEW count \in Nat, Shared(shares, first, count),
           \A k \in DOMAIN shares : shares[k].todo = <<>>
    PROVE  OneForEach(UNION {Range(shares[k].got) : k \in DOMAIN shares}, first, count)
<1> DEFINE fetched == UNION {Range(shares[k].got) : k \in DOMAIN shares}
<1>1. PICK length \in Nat \ {0} :
          /\ \A k \in DOMAIN shares : HoldsOnce(shares[k], Share(first, count, length, k))
          /\ \A h \in first .. first + count - 1 : (h - first) \div length + 1 \in DOMAIN shares
    BY DEF Shared
<1>2. \A k \in DOMAIN shares :
          {entry.height : entry \in Range(shares[k].got)} = Share(first, count, length, k)
    <2>1. Range(<<>>) = {}
        BY DEF Range
    <2> QED BY <1>1, <2>1 DEF HoldsOnce
<1>3. ASSUME NEW entry \in fetched
      PROVE  entry \in Fetched /\ entry.height \in first .. first + count - 1
    <2>1. PICK k \in DOMAIN shares : entry \in Range(shares[k].got)
        OBVIOUS
    <2>2. shares[k].got \in Seq(Fetched)
        <3>1. shares[k] \in Part
            BY LenProperties, ElementOfSeq
        <3> QED BY <3>1 DEF Part
    <2>3. entry \in Fetched
        BY <2>1, <2>2, RangeOfSeq
    <2>4. entry.height \in Share(first, count, length, k)
        BY <1>2, <2>1
    <2> QED BY <2>3, <2>4 DEF Share
<1>4. ASSUME NEW h \in first .. first + count - 1
      PROVE  \E entry \in fetched : entry.height = h
    <2> DEFINE k == (h - first) \div length + 1
    <2>1. k \in DOMAIN shares
        BY <1>1
    <2>2. (h - first) \div length \in Int
        OBVIOUS
    <2>3. h \in Share(first, count, length, k)
        BY <2>2 DEF Share
    <2> HIDE DEF k
    <2>4. PICK entry \in Range(shares[k].got) : entry.height = h
        BY <1>2, <2>1, <2>3
    <2> QED BY <2>1, <2>4
<1>5. ASSUME NEW one \in fetched, NEW other \in fetched, one.height = other.height
      PROVE  one = other
    <2>1. PICK k \in DOMAIN shares : one \in Range(shares[k].got)
        OBVIOUS
    <2>2. PICK l \in DOMAIN shares : other \in Range(shares[l].got)
        OBVIOUS
    <2>3. one.height \in Share(first, count, length, k) /\ one.height \in Share(first, count, length, l)
        BY <1>2, <1>5, <2>1, <2>2
    <2>4. k \in Int /\ l \in Int /\ k - 1 = l - 1
        BY <2>3 DEF Share
    <2>5. k = l
        BY <2>4
    <2> QED BY <1>1, <1>5, <2>1, <2>2, <2>5 DEF HoldsOnce
<1> QED BY <1>3, <1>4, <1>5 DEF OneForEach

\* A thread that has asked for its next height still has each of them once.
LEMMA FetchedOnce ==
    ASSUME NEW part \in Part, NEW heights, HoldsOnce(part, heights), part.todo # <<>>,
           NEW ok \in BOOLEAN
    PROVE  LET asked == [todo |-> Tail(part.todo),
                         got  |-> Append(part.got, [height |-> Head(part.todo), ok |-> ok])]
           IN  asked \in Part /\ HoldsOnce(asked, heights)
<1> DEFINE h == Head(part.todo)
           rest == Tail(part.todo)
           entry == [height |-> h, ok |-> ok]
           longer == Append(part.got, entry)
           asked == [todo |-> rest, got |-> longer]
<1>1. part.todo \in Seq(Nat) /\ part.got \in Seq(Fetched)
    BY DEF Part
<1>2. /\ h \in Nat /\ rest \in Seq(Nat) /\ Len(rest) = Len(part.todo) - 1 /\ h = part.todo[1]
      /\ \A i \in 1 .. Len(rest) : rest[i] = part.todo[i + 1]
      /\ Len(part.todo) \in Nat \ {0} /\ DOMAIN part.todo = 1 .. Len(part.todo)
      /\ DOMAIN rest = 1 .. Len(rest)
    BY <1>1, HeadTailProperties, LenProperties, EmptySeq
<1>3. entry \in Fetched
    BY <1>2 DEF Fetched
<1>4. longer \in Seq(Fetched) /\ Range(longer) = Range(part.got) \cup {entry}
    <2>1. /\ longer \in Seq(Fetched) /\ Len(longer) = Len(part.got) + 1
          /\ \A i \in 1 .. Len(part.got) : longer[i] = part.got[i]
          /\ longer[Len(part.got) + 1] = entry
        BY <1>1, <1>3, AppendProperties
    <2> HIDE DEF longer, entry
    <2>2. Len(part.got) \in Nat /\ DOMAIN part.got = 1 .. Len(part.got) /\ DOMAIN longer = 1 .. Len(longer)
        BY <1>1, <2>1, LenProperties
    <2>3. DOMAIN longer = DOMAIN part.got \cup {Len(part.got) + 1}
        BY <2>1, <2>2
    <2> QED BY <2>1, <2>2, <2>3 DEF Range
<1>5. Range(part.todo) = Range(rest) \cup {h} /\ h \notin Range(rest) /\ IsInjective(rest)
    <2> HIDE DEF rest, h
    <2>1. \A i \in 1 .. Len(rest) : i + 1 \in 1 .. Len(part.todo) /\ i + 1 # 1
        BY <1>2
    <2>2. \A i \in 1 .. Len(part.todo) : i = 1 \/ (i - 1 \in 1 .. Len(rest) /\ rest[i - 1] = part.todo[i])
        BY <1>2
    <2>3. 1 \in 1 .. Len(part.todo)
        BY <1>2
    <2>4. Range(part.todo) = Range(rest) \cup {h}
        <3>1. ASSUME NEW x \in Range(part.todo) PROVE x \in Range(rest) \cup {h}
            <4>1. PICK i \in 1 .. Len(part.todo) : x = part.todo[i]
                BY <1>2 DEF Range
            <4>2. CASE i = 1
                BY <1>2, <4>1, <4>2
            <4>3. CASE i # 1
                <5>1. i - 1 \in DOMAIN rest /\ rest[i - 1] = x
                    BY <1>2, <2>2, <4>1, <4>3
                <5> QED BY <5>1 DEF Range
            <4> QED BY <4>2, <4>3
        <3>2. ASSUME NEW x \in Range(rest) PROVE x \in Range(part.todo)
            <4>1. PICK i \in 1 .. Len(rest) : x = part.todo[i + 1]
                BY <1>2 DEF Range
            <4>2. i + 1 \in DOMAIN part.todo
                BY <1>2, <2>1
            <4> QED BY <4>1, <4>2 DEF Range
        <3>3. h \in Range(part.todo)
            BY <1>2, <2>3 DEF Range
        <3> QED BY <3>1, <3>2, <3>3
    <2>5. \A i, j \in 1 .. Len(part.todo) : part.todo[i] = part.todo[j] => i = j
        BY <1>2 DEF HoldsOnce, IsInjective
    <2>6. h \notin Range(rest)
        <3> SUFFICES ASSUME h \in Range(rest) PROVE FALSE
            OBVIOUS
        <3>1. PICK i \in 1 .. Len(rest) : h = part.todo[i + 1]
            BY <1>2 DEF Range
        <3>2. i + 1 \in 1 .. Len(part.todo) /\ i + 1 # 1 /\ part.todo[i + 1] = part.todo[1]
            BY <1>2, <2>1, <3>1
        <3> QED BY <2>3, <2>5, <3>2
    <2>7. IsInjective(rest)
        <3> SUFFICES ASSUME NEW i \in 1 .. Len(rest), NEW j \in 1 .. Len(rest), rest[i] = rest[j]
                     PROVE  i = j
            BY <1>2 DEF IsInjective
        <3>1. part.todo[i + 1] = part.todo[j + 1]
            BY <1>2
        <3>2. i + 1 = j + 1
            BY <2>1, <2>5, <3>1
        <3> QED BY <3>2
    <2> QED BY <2>4, <2>6, <2>7
<1>6. asked \in Part
    BY <1>2, <1>4 DEF Part
<1> DEFINE before == {e.height : e \in Range(part.got)}
           after == {e.height : e \in Range(longer)}
<1>7. entry.height = h
    OBVIOUS
<1> HIDE DEF longer, rest, entry, h
<1>8. after = before \cup {h}
    BY <1>4, <1>7
<1> HIDE DEF before, after
<1>9. Range(part.todo) \cup before = heights /\ Range(part.todo) \cap before = {}
    BY DEF HoldsOnce, before
<1>10. Range(rest) \cup after = heights /\ Range(rest) \cap after = {}
    BY <1>5, <1>8, <1>9
<1>11. h \notin before
    BY <1>5, <1>9
<1>12. \A one, other \in Range(longer) : one.height = other.height => one = other
    <2>1. \A one, other \in Range(part.got) : one.height = other.height => one = other
        BY DEF HoldsOnce
    <2>2. \A one \in Range(part.got) : one.height # h
        BY <1>11 DEF before
    <2> QED BY <1>4, <1>7, <2>1, <2>2
<1>13. HoldsOnce(asked, heights)
    BY <1>5, <1>10, <1>12 DEF HoldsOnce, after
<1> QED BY <1>6, <1>13 DEF entry, longer, rest, h

----------------------------------------------------------------------------
(* The genesis replay.                                                     *)

\* What is buffered is the heights from where the state continues up to the
\* next window; while a window is fetched nothing is, and the threads share it.
InOrder(queue, first, beyond) ==
    /\ Len(queue) = beyond - first
    /\ \A i \in 1 .. Len(queue) : queue[i].height = first + i - 1

ReplayInv ==
    /\ tip \in Nat \cup {BeforeGenesis} /\ files \subseteq Nat
    /\ next_height \in Nat /\ end \in Nat
    /\ buffered \in Seq(Fetched) /\ parts \in Seq(Part)
    /\ process = "running" /\ parts = <<>> => InOrder(buffered, FirstHeight(tip), next_height)
    /\ process = "running" /\ parts # <<>> =>
           /\ buffered = <<>> /\ next_height = FirstHeight(tip)
           /\ \E count \in Nat : Shared(parts, next_height, count)
    /\ process = "too large" => tip # BeforeGenesis
    /\ process = "complete" => tip >= end

\* Where a state continues is a height.
LEMMA FirstHeights ==
    /\ BeforeGenesis \in Int /\ BeforeGenesis \notin Nat /\ FirstHeight(BeforeGenesis) = 0
    /\ \A height \in Nat : FirstHeight(height) = height + 1
<1>1. BeforeGenesis \in Int /\ BeforeGenesis \notin Nat
    BY DEF BeforeGenesis
<1> QED BY <1>1 DEF FirstHeight

\* A replay starts with the invariant.
LEMMA ReplayStarts == ReplayInit => ReplayInv
BY EmptySeq DEF ReplayInit, ReplayInv, BeforeGenesis

\* Every step keeps it.
LEMMA ReplayInvIsKept ==
    ASSUME ReplayInv, [ReplayNext]_replayer
    PROVE  ReplayInv'
<1>0. /\ tip \in Int /\ (tip = BeforeGenesis \/ tip \in Nat)
      /\ FirstHeight(tip) \in Nat /\ next_height \in Nat /\ end \in Nat
      /\ Window \in Nat \ {0} /\ Workers \in Nat \ {0} /\ MaxHeight \in Nat
    <2>1. tip \in Nat \cup {BeforeGenesis} /\ next_height \in Nat /\ end \in Nat
        BY DEF ReplayInv
    <2>2. Window \in Nat \ {0} /\ Workers \in Nat \ {0} /\ MaxHeight \in Nat
        BY StreamAssumption
    <2>3. CASE tip = BeforeGenesis
        BY <2>1, <2>2, <2>3, FirstHeights
    <2>4. CASE tip \in Nat
        BY <2>1, <2>2, <2>4, FirstHeights
    <2> QED BY <2>1, <2>3, <2>4
<1>1. CASE UNCHANGED replayer
    BY <1>1 DEF replayer, stream, ReplayInv, InOrder
<1>2. CASE Start
    <2>1. /\ tip' \in Nat \cup {BeforeGenesis} /\ end' \in Nat /\ files' = files
          /\ next_height' = FirstHeight(tip') /\ buffered' = <<>> /\ parts' = <<>>
          /\ process' = "running"
        <3>1. /\ tip' \in files \cup {BeforeGenesis} /\ end' \in 0 .. MaxHeight /\ files' = files
              /\ next_height' = FirstHeight(tip') /\ buffered' = <<>> /\ parts' = <<>>
              /\ process' = "running"
            BY <1>2 DEF Start
        <3>2. files \subseteq Nat
            BY DEF ReplayInv
        <3>3. end' \in Nat
            BY <1>0, <3>1
        <3> QED BY <3>1, <3>2, <3>3
    <2>2. next_height' \in Nat
        BY <2>1, FirstHeights
    <2>3. InOrder(buffered', FirstHeight(tip'), next_height')
        BY <2>1, <2>2 DEF InOrder
    <2>4. buffered' \in Seq(Fetched) /\ parts' \in Seq(Part)
        BY <2>1, EmptySeq
    <2> QED BY <2>1, <2>2, <2>3, <2>4 DEF ReplayInv
<1>3. CASE Refill
    <2> DEFINE count == Min({Window, end - next_height + 1})
               heights == WindowFrom(next_height)
               workers == Min({Workers, Len(heights)})
               length == (Len(heights) + workers - 1) \div workers
    <2>1. /\ process = "running" /\ buffered = <<>> /\ parts = <<>> /\ next_height <= end
          /\ next_height \in Nat /\ end \in Nat /\ Window \in Nat \ {0} /\ Workers \in Nat \ {0}
          /\ UNCHANGED <<process, tip, files, next_height, end, buffered>>
        BY <1>3, StreamAssumption DEF Refill, ReplayInv
    <2>2. count \in Nat \ {0}
        BY <2>1, MinOfTwo
    <2>3. heights = [i \in 1 .. count |-> next_height + i - 1] /\ Len(heights) = count
        <3>1. heights = [i \in 1 .. count |-> next_height + i - 1]
            BY DEF WindowFrom
        <3> HIDE DEF count, heights
        <3> QED BY <3>1, <2>2
    <2> HIDE DEF count, heights
    <2>4. workers \in Nat \ {0}
        BY <2>1, <2>2, <2>3, MinOfTwo
    <2> HIDE DEF workers
    <2>5. length \in Nat \ {0}
        <3>1. 0 * workers < count
            BY <2>2, <2>4
        <3>2. 0 + 1 <= (count + workers - 1) \div workers
            BY <2>2, <2>4, <3>1, FitsBelow
        <3>3. (count + workers - 1) \div workers \in Int
            BY <2>2, <2>4
        <3>4. length = (count + workers - 1) \div workers
            BY <2>3
        <3> HIDE DEF length
        <3> QED BY <3>2, <3>3, <3>4
    <2> DEFINE chunks == Chunks(heights, length)
    <2>6. parts' = [k \in DOMAIN chunks |-> [todo |-> chunks[k], got |-> <<>>]]
        BY <1>3 DEF Refill, heights, workers
    <2> HIDE DEF length
    <2>7. parts' \in Seq(Part) /\ Shared(parts', next_height, count)
        BY <2>1, <2>2, <2>3, <2>5, <2>6, ChunksShare
    <2>8. InOrder(buffered, FirstHeight(tip), next_height) /\ next_height = FirstHeight(tip)
        <3>1. InOrder(buffered, FirstHeight(tip), next_height)
            BY <2>1 DEF ReplayInv
        <3>2. next_height - FirstHeight(tip) = 0
            BY <2>1, <3>1, EmptySeq DEF InOrder
        <3> QED BY <1>0, <3>1, <3>2
    <2> QED BY <2>1, <2>2, <2>7, <2>8 DEF ReplayInv
<1>4. CASE \E k \in DOMAIN parts : Fetch(k)
    <2>1. PICK k \in DOMAIN parts : Fetch(k)
        BY <1>4
    <2>2. PICK ok \in BOOLEAN :
              parts' = [parts EXCEPT ![k] = [todo |-> Tail(@.todo),
                            got |-> Append(@.got, [height |-> Head(@.todo), ok |-> ok])]]
        BY <2>1 DEF Fetch
    <2>3. /\ process = "running" /\ parts[k].todo # <<>> /\ parts \in Seq(Part) /\ parts # <<>>
          /\ UNCHANGED <<process, tip, files, next_height, end, buffered>>
        BY <2>1 DEF Fetch, ReplayInv
    <2>4. PICK count \in Nat : Shared(parts, next_height, count)
        BY <2>3 DEF ReplayInv
    <2>5. PICK length \in Nat \ {0} :
              /\ \A l \in DOMAIN parts : HoldsOnce(parts[l], Share(next_height, count, length, l))
              /\ \A h \in next_height .. next_height + count - 1 :
                     (h - next_height) \div length + 1 \in DOMAIN parts
        BY <2>4 DEF Shared
    <2> DEFINE asked == [todo |-> Tail(parts[k].todo),
                         got |-> Append(parts[k].got, [height |-> Head(parts[k].todo), ok |-> ok])]
    <2>6. DOMAIN parts = 1 .. Len(parts) /\ Len(parts) \in Nat /\ parts[k] \in Part
        BY <2>3, LenProperties
    <2>7. asked \in Part /\ HoldsOnce(asked, Share(next_height, count, length, k))
        BY <2>3, <2>5, <2>6, FetchedOnce
    <2>8. parts' = [parts EXCEPT ![k] = asked]
        BY <2>2
    <2> HIDE DEF asked
    <2>9. /\ parts' \in Seq(Part) /\ DOMAIN parts' = DOMAIN parts /\ parts' # <<>>
          /\ \A l \in DOMAIN parts : parts'[l] = IF l = k THEN asked ELSE parts[l]
        BY <2>3, <2>6, <2>7, <2>8, ExceptSeq
    <2>10. Shared(parts', next_height, count)
        BY <2>5, <2>7, <2>9 DEF Shared
    <2> QED BY <2>3, <2>9, <2>10 DEF ReplayInv
<1>5. CASE Join
    <2> DEFINE fetched == UNION {Range(parts[k].got) : k \in DOMAIN parts}
    <2>1. /\ process = "running" /\ parts # <<>> /\ parts \in Seq(Part)
          /\ \A k \in DOMAIN parts : parts[k].todo = <<>>
          /\ buffered' = InHeightOrder(fetched) /\ next_height' = next_height + Cardinality(fetched)
          /\ parts' = <<>> /\ UNCHANGED <<process, tip, files, end>>
        BY <1>5 DEF Join, ReplayInv
    <2>2. PICK count \in Nat : Shared(parts, next_height, count)
        BY <2>1 DEF ReplayInv
    <2>3. next_height \in Nat /\ next_height = FirstHeight(tip)
        BY <2>1 DEF ReplayInv
    <2>4. OneForEach(fetched, next_height, count)
        BY <2>1, <2>2, <2>3, SharedIsFetched
    <2> HIDE DEF fetched
    <2>5. /\ buffered' \in Seq(Fetched) /\ Len(buffered') = count
          /\ next_height' = next_height + count
          /\ \A i \in 1 .. count : buffered'[i].height = next_height + i - 1
        BY <2>1, <2>3, <2>4, SortedResults
    <2>6. InOrder(buffered', FirstHeight(tip), next_height') /\ next_height' \in Nat
        BY <2>3, <2>5 DEF InOrder
    <2>7. parts' \in Seq(Part)
        BY <2>1, EmptySeq
    <2> QED BY <2>1, <2>5, <2>6, <2>7 DEF ReplayInv
<1>6. CASE ApplyNext
    <2>1. /\ process = "running" /\ buffered # <<>> /\ tip' = buffered[1].height
          /\ buffered' = Tail(buffered) /\ UNCHANGED <<next_height, end, parts>>
          /\ process' \in {"running", "too large"}
          /\ files' \subseteq files \cup {tip'} /\ buffered \in Seq(Fetched)
        BY <1>6 DEF ApplyNext, MaybeSaved, ReplayInv
    <2>2. parts = <<>> /\ InOrder(buffered, FirstHeight(tip), next_height)
        BY <2>1 DEF ReplayInv
    <2>3. /\ Len(buffered) \in Nat \ {0} /\ buffered' \in Seq(Fetched)
          /\ Len(buffered') = Len(buffered) - 1
          /\ \A i \in 1 .. Len(buffered') : buffered'[i] = buffered[i + 1]
        BY <2>1, HeadTailProperties, EmptySeq
    <2>4. tip' \in Nat /\ tip' = FirstHeight(tip)
        <3>1. 1 \in 1 .. Len(buffered)
            BY <2>3
        <3>2. buffered[1].height = FirstHeight(tip) + 1 - 1
            BY <2>2, <3>1 DEF InOrder
        <3>3. FirstHeight(tip) + 1 - 1 = FirstHeight(tip)
            BY <1>0
        <3> QED BY <1>0, <2>1, <3>2, <3>3
    <2>5. FirstHeight(tip') = FirstHeight(tip) + 1 /\ FirstHeight(tip) \in Nat
          /\ tip' # BeforeGenesis
        BY <1>0, <2>4, FirstHeights
    <2>6. InOrder(buffered', FirstHeight(tip'), next_height')
        <3>1. Len(buffered') = next_height' - FirstHeight(tip')
            <4>1. Len(buffered) = next_height - FirstHeight(tip)
                BY <2>2 DEF InOrder
            <4>2. next_height' = next_height /\ Len(buffered) \in Nat
                BY <2>1, <2>3
            <4> HIDE DEF InOrder
            <4> QED BY <1>0, <2>3, <2>5, <4>1, <4>2
        <3>2. ASSUME NEW i \in 1 .. Len(buffered')
              PROVE  buffered'[i].height = FirstHeight(tip') + i - 1
            <4>1. i + 1 \in 1 .. Len(buffered)
                BY <2>3
            <4>2. buffered[i + 1].height = FirstHeight(tip) + (i + 1) - 1
                BY <2>2, <4>1 DEF InOrder
            <4> QED BY <2>3, <2>5, <4>2
        <3> QED BY <3>1, <3>2 DEF InOrder
    <2>7. files' \subseteq Nat
        BY <2>1, <2>4 DEF ReplayInv
    <2>8. parts' \in Seq(Part) /\ parts' = <<>>
        BY <2>1, <2>2, EmptySeq
    <2> QED BY <1>0, <2>1, <2>3, <2>4, <2>5, <2>6, <2>7, <2>8 DEF ReplayInv
<1>7. CASE FetchFailed
    BY <1>7 DEF FetchFailed, stream, ReplayInv
<1>8. CASE Complete
    <2>1. /\ process = "running" /\ buffered = <<>> /\ parts = <<>> /\ next_height > end
          /\ process' = "complete" /\ UNCHANGED <<tip, stream>>
        BY <1>8 DEF Complete, Exhausted
    <2>2. files' \subseteq Nat
        BY <1>0, <1>8 DEF Complete, MaybeSaved, ReplayInv
    <2>3. tip >= end
        <3>1. Len(buffered) = next_height - FirstHeight(tip) /\ Len(buffered) = 0
            BY <2>1 DEF ReplayInv, InOrder
        <3> QED BY <1>0, <2>1, <3>1 DEF FirstHeight, BeforeGenesis
    <2> QED BY <2>1, <2>2, <2>3 DEF ReplayInv, stream
<1>9. CASE SaveTooLarge
    BY <1>0, <1>9 DEF SaveTooLarge, MaybeSaved, stream, ReplayInv
<1>10. CASE Killed
    BY <1>10 DEF Killed, stream, ReplayInv
<1> QED BY <1>1, <1>2, <1>3, <1>4, <1>5, <1>6, <1>7, <1>8, <1>9, <1>10 DEF ReplayNext, Progress

\* The replay's invariant holds throughout.
THEOREM ReplayInvariant == ReplaySpec => []ReplayInv
<1>1. ReplayInv /\ [ReplayNext]_replayer => ReplayInv'
    BY ReplayInvIsKept
<1> QED BY <1>1, ReplayStarts, PTL DEF ReplaySpec

\* Whatever order the threads of a window finish in, wherever a replay resumes
\* and wherever a window ends, the next block handed out is the one the state
\* continues with, and a replay is complete only at the end of its range.
THEOREM HeightsComeOnceInOrder == ReplaySpec => []EveryHeightOnceInOrder
<1>1. ReplayInv => EveryHeightOnceInOrder
    <2> SUFFICES ASSUME ReplayInv PROVE EveryHeightOnceInOrder
        OBVIOUS
    <2>1. ASSUME process = "running", buffered # <<>>
          PROVE  buffered[1].height = FirstHeight(tip)
        <3>1. parts = <<>> /\ InOrder(buffered, FirstHeight(tip), next_height)
            BY <2>1 DEF ReplayInv
        <3>2. Len(buffered) \in Nat \ {0} /\ FirstHeight(tip) \in Int
            BY <2>1, EmptySeq DEF ReplayInv, FirstHeight, BeforeGenesis
        <3>3. buffered[1].height = FirstHeight(tip) + 1 - 1
            BY <3>1, <3>2 DEF InOrder
        <3> QED BY <3>2, <3>3
    <2> QED BY <2>1 DEF EveryHeightOnceInOrder, ReplayInv, FirstHeight
<1> QED BY <1>1, ReplayInvariant, PTL

----------------------------------------------------------------------------
(* The differential harness: what a block does to either side.             *)

\* A counted summary without the counts is a summary.
Plain(block) ==
    [height |-> block.height, transparent_spends |-> block.transparent_spends,
     transparent_creates |-> block.transparent_creates, nullifiers |-> block.nullifiers]

\* The counts change nothing of what a block does.
LEMMA CountsDoNotMatter ==
    ASSUME NEW block \in CountedSummary, NEW s
    PROVE  /\ Plain(block) \in BlockSummary
           /\ Applied(s, block) = Applied(s, Plain(block))
           /\ SpentLeaves(s, block) = SpentLeaves(s, Plain(block))
           /\ Cancelled(s, block) = Cancelled(s, Plain(block))
<1> DEFINE plain == Plain(block)
<1>1. /\ plain.height = block.height /\ plain.transparent_spends = block.transparent_spends
      /\ plain.transparent_creates = block.transparent_creates
      /\ plain.nullifiers = block.nullifiers
    BY DEF Plain
<1>2. plain \in BlockSummary
    BY DEF Plain, BlockSummary, CountedSummary
<1> HIDE DEF plain
<1>3. SpentLeaves(s, block) = SpentLeaves(s, plain)
    BY <1>1 DEF SpentLeaves
<1>4. Cancelled(s, block) = Cancelled(s, plain)
    BY <1>1 DEF Cancelled
<1>5. CreatedLeaves(s, block) = CreatedLeaves(s, plain)
    BY <1>1, <1>4 DEF CreatedLeaves
<1>6. Delta(s, block) = Delta(s, plain)
    BY <1>1, <1>3, <1>5 DEF Delta
<1>7. Applied(s, block) = Applied(s, plain)
    BY <1>1, <1>6 DEF Applied
<1> QED BY <1>2, <1>3, <1>4, <1>7 DEF plain

\* The outputs left by a block that creates none of those there are.
OutputsAfter(utxos, block) ==
    (utxos \ Range(block.transparent_spends))
        \cup (Range(block.transparent_creates)
                 \ ((Range(block.transparent_spends) \cap Range(block.transparent_creates)) \ utxos))

\* What both sides ask of a block, heights apart.
Acceptable(utxos, pools, block, tolerant) ==
    /\ NoRepeat(block.transparent_spends)
    /\ tolerant
       \/ Range(block.transparent_spends) \subseteq utxos \cup Range(block.transparent_creates)
    /\ \A p \in Pool :
           /\ NoRepeat(block.nullifiers[p])
           /\ Range(block.nullifiers[p]) \cap Range(pools[p]) = {}
           /\ Len(pools[p]) + Len(block.nullifiers[p]) <= NullifierCapacity

\* The implementation's state after a block.
LEMMA ImplementationAfter ==
    ASSUME NEW s \in State, Matching(s), NEW block \in CountedSummary,
           Range(block.transparent_creates) \cap DOMAIN s.utxo_index = {}
    PROVE  /\ Applied(s, block) \in State /\ Matching(Applied(s, block))
           /\ Applied(s, block).tip = block.height
           /\ DOMAIN Applied(s, block).utxo_index = OutputsAfter(DOMAIN s.utxo_index, block)
           /\ Applied(s, block).nullifiers = [p \in Pool |-> s.nullifiers[p] \o block.nullifiers[p]]
<1> DEFINE plain == Plain(block)
           after == Applied(s, plain)
           transparent == WithTransparent(s, Delta(s, plain))
<1>1. /\ plain.height = block.height /\ plain.transparent_spends = block.transparent_spends
      /\ plain.transparent_creates = block.transparent_creates
      /\ plain.nullifiers = block.nullifiers
    BY DEF Plain
<1>2. plain \in BlockSummary /\ Applied(s, block) = after
    BY CountsDoNotMatter
<1> HIDE DEF plain
<1>3. /\ after \in State /\ Matching(after) /\ after.tip = plain.height
      /\ after.utxo_index = transparent.utxo_index
      /\ \A p \in Pool : after.nullifiers[p] = s.nullifiers[p] \o plain.nullifiers[p]
    BY <1>1, <1>2, AppliedFacts
<1>4. DOMAIN transparent.utxo_index = UnspentAfter(s, plain)
    BY <1>1, <1>2, TransparentFacts
<1>5. UnspentAfter(s, plain) = OutputsAfter(DOMAIN s.utxo_index, block)
    BY <1>1 DEF UnspentAfter, OutputsAfter, Cancelled
<1>6. after.nullifiers = [p \in Pool |-> s.nullifiers[p] \o block.nullifiers[p]]
    <2> HIDE DEF after
    <2>1. after.nullifiers \in [Pool -> Seq(Value)]
        BY <1>3 DEF State
    <2> QED BY <1>1, <1>3, <2>1
<1> QED BY <1>1, <1>2, <1>3, <1>4, <1>5, <1>6

\* The implementation refuses no leaf that its index holds.
LEMMA ForestHoldsTheSpent ==
    ASSUME NEW s \in State, Matching(s), NEW block \in CountedSummary
    PROVE  ForestHolds(s, SpentLeaves(s, block))
<1> DEFINE plain == Plain(block)
<1>1. plain \in BlockSummary /\ SpentLeaves(s, block) = SpentLeaves(s, plain)
    BY CountsDoNotMatter
<1> HIDE DEF plain
<1>2. Range(SpentLeaves(s, plain)) =
          {s.utxo_index[o] : o \in Range(plain.transparent_spends) \cap DOMAIN s.utxo_index}
    BY <1>1, SpentLeavesFacts
<1> QED BY <1>1, <1>2 DEF ForestHolds, Matching

\* The two sides ask the same.
LEMMA ImplementationAsks ==
    ASSUME NEW s \in State, Matching(s), NEW block \in CountedSummary
    PROVE  Accepts(s, block) <=>
               /\ Contiguous(s, block)
               /\ Acceptable(DOMAIN s.utxo_index, s.nullifiers, block, replay.allow_unknown_spends)
BY ForestHoldsTheSpent DEF Accepts, Acceptable, PassesStaging, SpendsResolve, NullifiersFresh,
    RoomFor, Options

\* What the oracle asks of a block.
LEMMA OracleAsks ==
    ASSUME NEW o, NEW block
    PROVE  OracleAccepts(o, block, Options) <=>
               Acceptable(o.utxos, o.pools, block, replay.allow_unknown_spends)
<1>1. Unknown(o, block) = {} <=>
          Range(block.transparent_spends) \subseteq o.utxos \cup Range(block.transparent_creates)
    BY DEF Unknown
<1> QED BY <1>1 DEF OracleAccepts, Acceptable, Options

\* What a block leaves in the oracle.
LEMMA OracleAfter ==
    ASSUME NEW o, NEW block
    PROVE  /\ OracleApplied(o, block).utxos = OutputsAfter(o.utxos, block)
           /\ OracleApplied(o, block).pools = [p \in Pool |-> o.pools[p] \o block.nullifiers[p]]
BY DEF OracleApplied, OutputsAfter, OracleCancels

----------------------------------------------------------------------------
(* The differential harness: what a fault changes of a block.              *)

\* What is left of a sequence without its last member.
LEMMA DropLastFacts ==
    ASSUME NEW S, NEW s \in Seq(S)
    PROVE  /\ DropLast(s) \in Seq(S)
           /\ Range(DropLast(s)) \subseteq Range(s)
           /\ NoRepeat(s) => NoRepeat(DropLast(s))
           /\ s = <<>> => DropLast(s) = s
           /\ s # <<>> => /\ Len(DropLast(s)) = Len(s) - 1
                          /\ Len(s) \in 1 .. Len(s)
                          /\ Range(s) = Range(DropLast(s)) \cup {s[Len(s)]}
                          /\ NoRepeat(s) => s[Len(s)] \notin Range(DropLast(s))
<1>1. Len(s) \in Nat /\ DOMAIN s = 1 .. Len(s) /\ \A i \in 1 .. Len(s) : s[i] \in S
    BY LenProperties
<1>2. CASE s = <<>>
    BY <1>2 DEF DropLast
<1>3. CASE s # <<>>
    <2>1. Len(s) # 0
        BY <1>3, EmptySeq
    <2> DEFINE n == Len(s) - 1
               d == [i \in 1 .. n |-> s[i]]
    <2>2. n \in Nat /\ 1 .. Len(s) = 1 .. n \cup {Len(s)} /\ Len(s) \notin 1 .. n
        BY <1>1, <2>1
    <2>3. DropLast(s) = d
        <3>1. DropLast(s) = SubSeq(s, 1, Len(s) - 1)
            BY <1>3 DEF DropLast
        <3> QED BY <1>1, <3>1, <2>2
    <2>4. d \in Seq(S) /\ Len(d) = n /\ DOMAIN d = 1 .. n /\ \A i \in 1 .. n : d[i] = s[i]
        BY <1>1, <2>2
    <2> HIDE DEF d, n
    <2>5. Range(s) = Range(d) \cup {s[Len(s)]}
        BY <1>1, <2>2, <2>4 DEF Range
    <2>6. NoRepeat(s) => NoRepeat(d) /\ s[Len(s)] \notin Range(d)
        BY <1>1, <2>1, <2>2, <2>4 DEF Range, NoRepeat, IsInjective
    <2> QED BY <1>1, <1>3, <2>1, <2>3, <2>4, <2>5, <2>6 DEF n
<1> QED BY <1>2, <1>3

\* A sequence turned round.
LEMMA ReversedFacts ==
    ASSUME NEW S, NEW s \in Seq(S)
    PROVE  Reversed(s) \in Seq(S) /\ Len(Reversed(s)) = Len(s)
<1>1. Len(s) \in Nat /\ DOMAIN s = 1 .. Len(s) /\ \A i \in 1 .. Len(s) : s[i] \in S
    BY LenProperties
<1>2. Reversed(s) = [i \in 1 .. Len(s) |-> s[Len(s) + 1 - i]]
    BY <1>1 DEF Reversed
<1>3. \A i \in 1 .. Len(s) : Len(s) + 1 - i \in 1 .. Len(s)
    BY <1>1
<1> QED BY <1>1, <1>2, <1>3

\* What a counted summary is made of.
LEMMA CountedType ==
    ASSUME NEW block \in CountedSummary
    PROVE  /\ block.height \in Nat
           /\ block.transparent_spends \in Seq(OutPoint)
           /\ block.transparent_creates \in Seq(OutPoint)
           /\ block.nullifiers \in [Pool -> Seq(Value)]
           /\ block.commitments \in [Pool -> Nat]
           /\ \A p \in Pool : block.nullifiers[p] \in Seq(Value) /\ block.commitments[p] \in Nat
           /\ block = [height |-> block.height, transparent_spends |-> block.transparent_spends,
                       transparent_creates |-> block.transparent_creates,
                       nullifiers |-> block.nullifiers, commitments |-> block.commitments]
BY DEF CountedSummary

\* Everything a fault leaves of a block, and the one thing it changes.
Faulty(seen, block, fault) ==
    /\ seen \in CountedSummary
    /\ seen.height = block.height /\ seen.transparent_spends = block.transparent_spends
    /\ fault = NoFault \/ fault.height # block.height => seen = block
    /\ fault.kind # "DropCreate" => seen.transparent_creates = block.transparent_creates
    /\ fault.kind \notin {"DropNullifier", "ReorderNullifiers"} =>
           seen.nullifiers = block.nullifiers
    /\ fault.kind # "DropCommitment" => seen.commitments = block.commitments
    /\ seen # block =>
           /\ fault.kind \in {"DropNullifier", "DropCreate", "ReorderNullifiers", "DropCommitment"}
           /\ fault.kind = "DropNullifier" =>
                  \E p \in Pool : Len(seen.nullifiers[p]) # Len(block.nullifiers[p])
           /\ fault.kind = "DropCreate" =>
                  /\ block.transparent_creates # <<>>
                  /\ seen.transparent_creates = DropLast(block.transparent_creates)
           /\ fault.kind = "ReorderNullifiers" =>
                  /\ seen.nullifiers # block.nullifiers
                  /\ \A p \in Pool : Len(seen.nullifiers[p]) = Len(block.nullifiers[p])
           /\ fault.kind = "DropCommitment" =>
                  /\ \A p \in Pool : seen.commitments[p] <= block.commitments[p]
                  /\ \E p \in Pool : seen.commitments[p] < block.commitments[p]

\* Two summaries that differ only in one field.
LEMMA DifferIn ==
    ASSUME NEW block \in CountedSummary, NEW seen \in CountedSummary, seen # block
    PROVE  \/ seen.height # block.height \/ seen.transparent_spends # block.transparent_spends
           \/ seen.transparent_creates # block.transparent_creates
           \/ seen.nullifiers # block.nullifiers \/ seen.commitments # block.commitments
BY DEF CountedSummary

\* So it is.
LEMMA CorruptFacts ==
    ASSUME NEW block \in CountedSummary, NEW fault \in Fault
    PROVE  Faulty(Corrupt(block, fault), block, fault)
<1> DEFINE seen == Corrupt(block, fault)
<1> USE CountedType
<1>1. CASE fault.height # block.height \/ fault = NoFault
    <2>1. seen = block
        BY <1>1 DEF Corrupt, NoFault
    <2> QED BY <2>1 DEF Faulty
<1>2. ~(fault.height # block.height \/ fault = NoFault) =>
          fault.kind \in {"DropNullifier", "DropCreate", "ReorderNullifiers", "DropCommitment"}
    BY DEF Fault
<1>3. ASSUME fault.height = block.height, fault # NoFault, fault.kind = "DropNullifier"
      PROVE  Faulty(seen, block, fault)
    <2> DEFINE from == {p \in Pool : block.nullifiers[p] # <<>>}
               new == [p \in Pool |-> IF IsFirst(p, from) THEN DropLast(block.nullifiers[p])
                                      ELSE block.nullifiers[p]]
    <2>1. seen = [block EXCEPT !.nullifiers =
                     [p \in Pool |-> IF IsFirst(p, from) THEN DropLast(@[p]) ELSE @[p]]]
        BY <1>3 DEF Corrupt
    <2>2. \A p \in Pool : new[p] \in Seq(Value)
        BY DropLastFacts
    <2>3. new \in [Pool -> Seq(Value)]
        BY <2>2
    <2>4. seen = [height |-> block.height, transparent_spends |-> block.transparent_spends,
                  transparent_creates |-> block.transparent_creates,
                  nullifiers |-> new, commitments |-> block.commitments]
        <3> HIDE DEF from
        <3> QED BY <2>1, CountedType DEF new
    <2>5. ASSUME seen # block
          PROVE  \E p \in Pool : Len(seen.nullifiers[p]) # Len(block.nullifiers[p])
        <3>1. new # block.nullifiers
            BY <2>4, <2>5
        <3>2. PICK p \in Pool : new[p] # block.nullifiers[p]
            BY <2>3, <3>1
        <3>3. IsFirst(p, from) /\ new[p] = DropLast(block.nullifiers[p])
            BY <3>2
        <3>4. block.nullifiers[p] # <<>>
            BY <3>2, <3>3, DropLastFacts
        <3>5. Len(new[p]) = Len(block.nullifiers[p]) - 1 /\ Len(block.nullifiers[p]) \in Nat
            BY <3>3, <3>4, DropLastFacts, LenProperties
        <3> HIDE DEF new
        <3> QED BY <2>4, <3>5
    <2> HIDE DEF new
    <2>6. seen \in CountedSummary
        BY <2>3, <2>4 DEF CountedSummary
    <2> HIDE DEF seen
    <2> QED BY <1>3, <2>4, <2>5, <2>6 DEF Faulty
<1>4. ASSUME fault.height = block.height, fault # NoFault, fault.kind = "DropCreate"
      PROVE  Faulty(seen, block, fault)
    <2> DEFINE new == DropLast(block.transparent_creates)
    <2>1. seen = [block EXCEPT !.transparent_creates = DropLast(@)]
        BY <1>4 DEF Corrupt
    <2>2. new \in Seq(OutPoint) /\ (block.transparent_creates = <<>> => new = block.transparent_creates)
        BY DropLastFacts
    <2>3. seen = [height |-> block.height, transparent_spends |-> block.transparent_spends,
                  transparent_creates |-> new,
                  nullifiers |-> block.nullifiers, commitments |-> block.commitments]
        BY <2>1
    <2>4. seen \in CountedSummary
        <3> HIDE DEF new
        <3> QED BY <2>2, <2>3 DEF CountedSummary
    <2>5. block.transparent_creates = <<>> => seen = block
        BY <2>2, <2>3
    <2> HIDE DEF seen
    <2> QED BY <1>4, <2>3, <2>4, <2>5 DEF Faulty
<1>5. ASSUME fault.height = block.height, fault # NoFault, fault.kind = "ReorderNullifiers"
      PROVE  Faulty(seen, block, fault)
    <2> DEFINE new == [p \in Pool |-> Reversed(block.nullifiers[p])]
    <2>1. seen = [block EXCEPT !.nullifiers = [p \in Pool |-> Reversed(@[p])]]
        BY <1>5 DEF Corrupt
    <2>2. \A p \in Pool : new[p] \in Seq(Value) /\ Len(new[p]) = Len(block.nullifiers[p])
        BY ReversedFacts
    <2>3. new \in [Pool -> Seq(Value)]
        BY <2>2
    <2>4. seen = [height |-> block.height, transparent_spends |-> block.transparent_spends,
                  transparent_creates |-> block.transparent_creates,
                  nullifiers |-> new, commitments |-> block.commitments]
        BY <2>1
    <2> HIDE DEF new
    <2>5. seen \in CountedSummary
        BY <2>3, <2>4 DEF CountedSummary
    <2>6. new = block.nullifiers => seen = block
        BY <2>4
    <2> HIDE DEF seen
    <2> QED BY <1>5, <2>2, <2>4, <2>5, <2>6 DEF Faulty
<1>6. ASSUME fault.height = block.height, fault # NoFault, fault.kind = "DropCommitment"
      PROVE  Faulty(seen, block, fault)
    <2> DEFINE to == {p \in Pool : block.commitments[p] > 0}
               new == [p \in Pool |-> IF IsFirst(p, to) THEN block.commitments[p] - 1
                                      ELSE block.commitments[p]]
    <2>1. seen = [block EXCEPT !.commitments = new]
        BY <1>6 DEF Corrupt
    <2>2. \A p \in Pool : IsFirst(p, to) => block.commitments[p] > 0
        BY DEF IsFirst
    <2>3. \A p \in Pool : new[p] \in Nat /\ new[p] <= block.commitments[p]
        <3> TAKE p \in Pool
        <3>1. CASE IsFirst(p, to)
            BY <2>2, <3>1
        <3>2. CASE ~IsFirst(p, to)
            BY <3>2
        <3> QED BY <3>1, <3>2
    <2>4. new \in [Pool -> Nat]
        BY <2>3
    <2>5. seen = [height |-> block.height, transparent_spends |-> block.transparent_spends,
                  transparent_creates |-> block.transparent_creates,
                  nullifiers |-> block.nullifiers, commitments |-> new]
        <3> HIDE DEF new
        <3> QED BY <2>1, CountedType
    <2>6. ASSUME seen # block
          PROVE  \E p \in Pool : seen.commitments[p] < block.commitments[p]
        <3>1. new # block.commitments
            BY <2>5, <2>6
        <3>2. PICK p \in Pool : new[p] # block.commitments[p]
            BY <2>4, <3>1
        <3>3. new[p] < block.commitments[p]
            <4> HIDE DEF new
            <4> QED BY <2>3, <3>2
        <3> QED BY <2>5, <3>3
    <2> HIDE DEF new
    <2>7. seen \in CountedSummary
        BY <2>4, <2>5 DEF CountedSummary
    <2> HIDE DEF seen
    <2> QED BY <1>6, <2>3, <2>5, <2>6, <2>7 DEF Faulty
<1> QED BY <1>1, <1>2, <1>3, <1>4, <1>5, <1>6

----------------------------------------------------------------------------
(* The differential harness: what the counts show of a fault.              *)

\* A set with one member more has another size.
LEMMA OneMore ==
    ASSUME NEW S, IsFiniteSet(S), NEW x, x \notin S
    PROVE  Cardinality(S) # Cardinality(S \cup {x})
<1>1. Cardinality(S) \in Nat
    BY FS_CardinalityType
<1>2. Cardinality(S \cup {x}) = Cardinality(S) + 1
    BY FS_AddElement
<1> QED BY <1>1, <1>2

\* When a block creates none of the outputs there are, those it spends go.
LEMMA OutputsLeft ==
    ASSUME NEW utxos, NEW block, Range(block.transparent_creates) \cap utxos = {}
    PROVE  OutputsAfter(utxos, block) =
               (utxos \cup Range(block.transparent_creates)) \ Range(block.transparent_spends)
BY DEF OutputsAfter

LastCreated(block) == block.transparent_creates[Len(block.transparent_creates)]

\* A dropped output is not missed only when the block spends it; otherwise it
\* is missed from whatever outputs there were.
LEMMA DroppedOutput ==
    ASSUME NEW block \in CountedSummary, NEW fault, NEW seen, Faulty(seen, block, fault),
           NEW utxos \in SUBSET OutPoint, IsFiniteSet(utxos),
           Range(block.transparent_creates) \cap utxos = {},
           NoRepeat(block.transparent_creates)
    PROVE  /\ Range(seen.transparent_creates) \subseteq Range(block.transparent_creates)
           /\ seen # block /\ fault.kind = "DropCreate" =>
                  LastCreated(block) \in Range(block.transparent_creates)
                                             \ Range(seen.transparent_creates)
           /\ \/ /\ OutputsAfter(utxos, seen) = OutputsAfter(utxos, block)
                 /\ seen # block /\ fault.kind = "DropCreate" =>
                        LastCreated(block) \in Range(block.transparent_spends)
              \/ /\ Cardinality(OutputsAfter(utxos, seen)) # Cardinality(OutputsAfter(utxos, block))
                 /\ Cardinality(OutputsAfter({}, seen)) # Cardinality(OutputsAfter({}, block))
<1> DEFINE C == Range(block.transparent_creates)
           D == Range(seen.transparent_creates)
           S == Range(block.transparent_spends)
           last == LastCreated(block)
<1>1. /\ block.transparent_creates \in Seq(OutPoint) /\ block.transparent_spends \in Seq(OutPoint)
      /\ seen.transparent_spends = block.transparent_spends
    BY CountedType DEF Faulty
<1>2. CASE ~(seen # block /\ fault.kind = "DropCreate")
    <2>1. seen.transparent_creates = block.transparent_creates
        BY <1>2 DEF Faulty
    <2>2. OutputsAfter(utxos, seen) = OutputsAfter(utxos, block)
        BY <1>1, <2>1 DEF OutputsAfter
    <2> QED BY <1>2, <2>1, <2>2
<1>3. CASE seen # block /\ fault.kind = "DropCreate"
    <2>1. /\ block.transparent_creates # <<>>
          /\ seen.transparent_creates = DropLast(block.transparent_creates)
        BY <1>3 DEF Faulty
    <2>2. C = D \cup {last} /\ last \notin D
        BY <1>1, <2>1, DropLastFacts DEF LastCreated
    <2>3. IsFiniteSet(D)
        BY <1>1, <2>1, DropLastFacts, FiniteRange
    <2>4. /\ OutputsAfter(utxos, seen) = (utxos \cup D) \ S
          /\ OutputsAfter(utxos, block) = (utxos \cup C) \ S
          /\ OutputsAfter({}, seen) = D \ S /\ OutputsAfter({}, block) = C \ S
        <3>1. D \cap utxos = {}
            BY <2>2
        <3> HIDE DEF C, D, S
        <3>2. OutputsAfter(utxos, seen) = (utxos \cup D) \ S
            BY <1>1, <3>1, OutputsLeft DEF D, S
        <3>3. OutputsAfter(utxos, block) = (utxos \cup C) \ S
            BY OutputsLeft DEF C, S
        <3>4. OutputsAfter({}, seen) = ({} \cup D) \ S
            BY <1>1, OutputsLeft DEF D, S
        <3>5. OutputsAfter({}, block) = ({} \cup C) \ S
            BY OutputsLeft DEF C, S
        <3> QED BY <3>2, <3>3, <3>4, <3>5
    <2>5. last \notin utxos
        BY <2>2
    <2> HIDE DEF C, D, S, last
    <2>6. CASE last \in S
        <3>1. OutputsAfter(utxos, seen) = OutputsAfter(utxos, block)
            BY <2>2, <2>4, <2>6
        <3> QED BY <1>1, <2>2, <2>6, <3>1 DEF C, D, S, last
    <2>7. CASE last \notin S
        <3>1. (utxos \cup C) \ S = ((utxos \cup D) \ S) \cup {last} /\ last \notin (utxos \cup D) \ S
            BY <2>2, <2>5, <2>7
        <3>2. C \ S = (D \ S) \cup {last} /\ last \notin D \ S
            BY <2>2, <2>7
        <3>3. IsFiniteSet(utxos \cup D) /\ IsFiniteSet((utxos \cup D) \ S) /\ IsFiniteSet(D \ S)
            <4>1. IsFiniteSet(utxos \cup D)
                BY <2>3, FS_Union
            <4> QED BY <2>3, <4>1, FS_Difference
        <3>4. /\ Cardinality(OutputsAfter(utxos, seen)) # Cardinality(OutputsAfter(utxos, block))
              /\ Cardinality(OutputsAfter({}, seen)) # Cardinality(OutputsAfter({}, block))
            <4>1. Cardinality((utxos \cup D) \ S) # Cardinality(((utxos \cup D) \ S) \cup {last})
                BY <3>1, <3>3, OneMore
            <4>2. Cardinality(D \ S) # Cardinality((D \ S) \cup {last})
                BY <3>2, <3>3, OneMore
            <4> QED BY <2>4, <3>1, <3>2, <4>1, <4>2
        <3> QED BY <2>2, <3>4 DEF C, D, last
    <2> QED BY <2>6, <2>7
<1> QED BY <1>2, <1>3

----------------------------------------------------------------------------
(* The differential harness: the totals.                                   *)

Totals ==
    [nullifiers : [Pool -> Nat], commitments : [Pool -> Nat], spends : Nat, creates : Nat]

\* The totals with a block more.
LEMMA AccumulatedFacts ==
    ASSUME NEW totals \in Totals, NEW block \in CountedSummary
    PROVE  /\ Accumulated(totals, block) \in Totals
           /\ Accumulated(totals, block).creates =
                  totals.creates + Len(block.transparent_creates)
           /\ \A p \in Pool : Accumulated(totals, block).commitments[p] =
                                  totals.commitments[p] + block.commitments[p]
<1>1. /\ totals.nullifiers \in [Pool -> Nat] /\ totals.commitments \in [Pool -> Nat]
      /\ totals.spends \in Nat /\ totals.creates \in Nat
    BY DEF Totals
<1>2. /\ Len(block.transparent_spends) \in Nat /\ Len(block.transparent_creates) \in Nat
      /\ \A p \in Pool : Len(block.nullifiers[p]) \in Nat /\ block.commitments[p] \in Nat
    BY CountedType, LenProperties
<1>3. /\ [p \in Pool |-> totals.nullifiers[p] + Len(block.nullifiers[p])] \in [Pool -> Nat]
      /\ [p \in Pool |-> totals.commitments[p] + block.commitments[p]] \in [Pool -> Nat]
    BY <1>1, <1>2
<1>4. /\ totals.spends + Len(block.transparent_spends) \in Nat
      /\ totals.creates + Len(block.transparent_creates) \in Nat
    BY <1>1, <1>2
<1> QED BY <1>3, <1>4 DEF Accumulated, Totals

\* What the totals of a slice are at every length.
LEMMA RunningTotalsUnfolds ==
    ASSUME NEW slice \in Seq(CountedSummary)
    PROVE  /\ RunningTotals(slice)[0] = NoTotals
           /\ \A n \in 1 .. Len(slice) :
                  RunningTotals(slice)[n] = Accumulated(RunningTotals(slice)[n - 1], slice[n])
           /\ \A n \in 0 .. Len(slice) : RunningTotals(slice)[n] \in Totals
<1> DEFINE accumulated == [n \in 1 .. Len(slice) |-> [totals \in Totals |-> Accumulated(totals, slice[n])]]
           Runs(f) == f = [n \in 0 .. Len(slice) |->
                              IF n = 0 THEN NoTotals ELSE Accumulated(f[n - 1], slice[n])]
<1>1. Len(slice) \in Nat /\ \A n \in 1 .. Len(slice) : slice[n] \in CountedSummary
    BY LenProperties
<1>2. NoTotals \in Totals
    BY DEF NoTotals, Totals
<1>3. \A n \in 1 .. Len(slice), totals \in Totals :
          accumulated[n][totals] = Accumulated(totals, slice[n]) /\ accumulated[n][totals] \in Totals
    BY <1>1, AccumulatedFacts
<1> HIDE DEF accumulated
<1>4. PICK f \in [0 .. Len(slice) -> Totals] :
          f[0] = NoTotals /\ \A n \in 1 .. Len(slice) : f[n] = accumulated[n][f[n - 1]]
    <2>1. \A n \in 1 .. Len(slice), totals \in Totals : accumulated[n][totals] \in Totals
        BY <1>3
    <2> DEFINE m == Len(slice)
               T == Totals
               base == NoTotals
    <2>2. m \in Nat /\ base \in T /\ StaysIn(T, accumulated, m)
        BY <1>1, <1>2, <2>1 DEF StaysIn
    <2> HIDE DEF m, T, base
    <2>3. \E f \in [0 .. m -> T] : Computes(f, accumulated, base, m)
        BY <2>2, Recursion
    <2> QED BY <2>3 DEF m, T, base, Computes
<1>5. \A n \in 1 .. Len(slice) : n - 1 \in 0 .. Len(slice) /\ f[n] = Accumulated(f[n - 1], slice[n])
    BY <1>1, <1>3, <1>4
<1>6. Runs(f)
    <2>1. \A n \in 0 .. Len(slice) :
              f[n] = IF n = 0 THEN NoTotals ELSE Accumulated(f[n - 1], slice[n])
        BY <1>1, <1>4, <1>5
    <2> QED BY <1>4, <2>1
<1>7. RunningTotals(slice) = CHOOSE g : Runs(g)
    BY DEF RunningTotals
<1>8. Runs(RunningTotals(slice))
    <2> HIDE DEF Runs
    <2> QED BY <1>6, <1>7
<1> DEFINE r == RunningTotals(slice)
<1>9. r[0] = NoTotals /\ \A n \in 1 .. Len(slice) : r[n] = Accumulated(r[n - 1], slice[n])
    <2> HIDE DEF r
    <2>1. Runs(r)
        BY <1>8 DEF r
    <2> DEFINE at(n) == IF n = 0 THEN NoTotals ELSE Accumulated(r[n - 1], slice[n])
    <2>2. \A n \in 0 .. Len(slice) : r[n] = at(n)
        <3>1. r = [n \in 0 .. Len(slice) |-> at(n)]
            BY <2>1
        <3> HIDE DEF at
        <3> QED BY <3>1
    <2> QED BY <1>1, <2>2
<1> HIDE DEF r
<1>10. \A n \in 0 .. Len(slice) : r[n] \in Totals
    <2> DEFINE Good == {n \in 0 .. Len(slice) : r[n] \in Totals}
    <2>1. 0 \in Good
        BY <1>1, <1>2, <1>9
    <2>2. \A n \in 1 .. Len(slice) : n - 1 \in Good => n \in Good
        <3> SUFFICES ASSUME NEW n \in 1 .. Len(slice), r[n - 1] \in Totals PROVE r[n] \in Totals
            BY <1>1
        <3>1. r[n] = Accumulated(r[n - 1], slice[n]) /\ slice[n] \in CountedSummary
            BY <1>1, <1>9
        <3> QED BY <3>1, AccumulatedFacts
    <2> HIDE DEF Good
    <2>3. \A n \in 0 .. Len(slice) : n \in Good
        BY <1>1, <2>1, <2>2, UpTo
    <2> QED BY <2>3 DEF Good
<1> QED BY <1>9, <1>10 DEF r

----------------------------------------------------------------------------
(* The differential harness: the two sides, block by block.                *)

\* One of the blocks before position n was corrupted.
Corrupted(r, n) == \E i \in 1 .. n - 1 : Corrupt(r.slice[i], r.fault) # r.slice[i]

\* Where replay r can stand before block n, whatever the fault did: the states
\* are states, and hold no output that is still to be created.
Sound(r, n, s, o) ==
    /\ IsReplay(r) /\ n \in 1 .. Len(r.slice) + 1
    /\ s \in State /\ Matching(s)
    /\ s.tip = IF n = 1 THEN NoTip ELSE r.slice[n - 1].height
    /\ IsFiniteSet(o.utxos) /\ o.utxos \subseteq OutPoint /\ o.pools \in [Pool -> Seq(Value)]
    /\ \A i \in n .. Len(r.slice) :
           Range(r.slice[i].transparent_creates) \cap (DOMAIN s.utxo_index \cup o.utxos) = {}

\* What a replay is made of.
LEMMA ReplayType ==
    ASSUME NEW r, IsReplay(r)
    PROVE  /\ r.slice \in Seq(CountedSummary) /\ Len(r.slice) \in Nat
           /\ DOMAIN r.slice = 1 .. Len(r.slice)
           /\ r.fault \in Fault /\ r.root_check_every \in Nat
           /\ r.allow_unknown_spends \in BOOLEAN /\ r.repro_dir \in BOOLEAN
           /\ r.checkpoint \in BOOLEAN
           /\ \A i \in 1 .. Len(r.slice) :
                  /\ r.slice[i] \in CountedSummary
                  /\ r.slice[i].height \in Nat /\ r.slice[i].height = r.slice[1].height + i - 1
                  /\ NoRepeat(r.slice[i].transparent_creates)
                  /\ \A j \in 1 .. i - 1 : Range(r.slice[i].transparent_creates)
                                               \cap Range(r.slice[j].transparent_creates) = {}
<1>1. r.slice \in Seq(CountedSummary) /\ IsSlice(r.slice)
    BY DEF IsReplay
<1>2. /\ Len(r.slice) \in Nat /\ DOMAIN r.slice = 1 .. Len(r.slice)
      /\ \A i \in 1 .. Len(r.slice) : r.slice[i] \in CountedSummary
    BY <1>1, LenProperties
<1>3. \A i \in 1 .. Len(r.slice) : r.slice[i].height \in Nat
    BY <1>2, CountedType
<1>4. \A i \in 1 .. Len(r.slice) :
          /\ r.slice[i].height = r.slice[1].height + i - 1
          /\ NoRepeat(r.slice[i].transparent_creates)
          /\ \A j \in 1 .. i - 1 : Range(r.slice[i].transparent_creates)
                                       \cap Range(r.slice[j].transparent_creates) = {}
    BY <1>1, <1>2 DEF IsSlice
<1>5. /\ r.fault \in Fault /\ r.root_check_every \in Nat /\ r.allow_unknown_spends \in BOOLEAN
      /\ r.repro_dir \in BOOLEAN /\ r.checkpoint \in BOOLEAN
    BY DEF IsReplay
<1> QED BY <1>1, <1>2, <1>3, <1>4, <1>5

\* What the next block of replay r does to both sides, s2 and o2 being what
\* becomes of them.
SoundBlock(r, n, s, o, block, seen, s2, o2) ==
    /\ n \in Nat /\ n \in 1 .. Len(r.slice)
    /\ block \in CountedSummary /\ seen \in CountedSummary
    /\ Faulty(seen, block, r.fault)
    /\ Contiguous(s, seen) /\ NoRepeat(block.transparent_creates)
    /\ Range(block.transparent_creates) \cap (DOMAIN s.utxo_index \cup o.utxos) = {}
    /\ DOMAIN s2.utxo_index = OutputsAfter(DOMAIN s.utxo_index, seen)
    /\ \A p \in Pool : s2.nullifiers[p] = s.nullifiers[p] \o seen.nullifiers[p]
    /\ o2.utxos = OutputsAfter(o.utxos, block)
    /\ \A p \in Pool : o2.pools[p] = o.pools[p] \o block.nullifiers[p]
    /\ Sound(r, n + 1, s2, o2)

\* It does, whether or not they take it.
LEMMA SoundStep ==
    ASSUME NEW r, NEW n, NEW s, NEW o, Sound(r, n, s, o), n <= Len(r.slice),
           NEW block, block = r.slice[n], NEW seen, seen = Corrupt(block, r.fault)
    PROVE  SoundBlock(r, n, s, o, block, seen, Applied(s, seen), OracleApplied(o, block))
<1>1. /\ IsReplay(r) /\ n \in 1 .. Len(r.slice) + 1
      /\ s \in State /\ Matching(s)
      /\ s.tip = IF n = 1 THEN NoTip ELSE r.slice[n - 1].height
      /\ IsFiniteSet(o.utxos) /\ o.utxos \subseteq OutPoint /\ o.pools \in [Pool -> Seq(Value)]
      /\ \A i \in n .. Len(r.slice) :
             Range(r.slice[i].transparent_creates) \cap (DOMAIN s.utxo_index \cup o.utxos) = {}
    BY DEF Sound
<1>2. n \in Nat /\ Len(r.slice) \in Nat /\ n \in 1 .. Len(r.slice) /\ n \in n .. Len(r.slice)
    BY <1>1, ReplayType
<1>3. /\ block \in CountedSummary /\ r.fault \in Fault /\ block.height \in Nat
      /\ NoRepeat(block.transparent_creates)
    BY <1>1, <1>2, ReplayType
<1>4. Faulty(seen, block, r.fault)
    BY <1>3, CorruptFacts
<1>5. seen \in CountedSummary /\ seen.height = block.height
    BY <1>4 DEF Faulty
<1>6. Contiguous(s, seen)
    <2>1. CASE n = 1
        BY <1>1, <2>1 DEF Contiguous
    <2>2. CASE n # 1
        <3>1. n - 1 \in 1 .. Len(r.slice)
            BY <1>2, <2>2
        <3>2. /\ r.slice[n - 1].height = r.slice[1].height + n - 1 - 1
              /\ r.slice[n].height = r.slice[1].height + n - 1
              /\ r.slice[1].height \in Nat
            <4>1. 1 \in 1 .. Len(r.slice)
                BY <1>2
            <4> QED BY <1>1, <1>2, <3>1, <4>1, ReplayType
        <3>3. s.tip = r.slice[n - 1].height
            BY <1>1, <2>2
        <3>4. r.slice[n].height = r.slice[n - 1].height + 1
            BY <1>2, <3>2
        <3>5. seen.height = s.tip + 1
            BY <1>5, <3>3, <3>4
        <3> QED BY <3>5 DEF Contiguous
    <2> QED BY <2>1, <2>2
<1>7. Range(block.transparent_creates) \cap (DOMAIN s.utxo_index \cup o.utxos) = {}
    BY <1>1, <1>2
<1>8. Range(seen.transparent_creates) \subseteq Range(block.transparent_creates)
    <2>1. /\ IsFiniteSet({}) /\ {} \in SUBSET OutPoint
          /\ Range(block.transparent_creates) \cap {} = {}
        BY FS_EmptySet
    <2> QED BY ONLY <1>3, <1>4, <2>1, DroppedOutput, Zenon
<1>9. Range(seen.transparent_creates) \cap DOMAIN s.utxo_index = {}
    BY <1>7, <1>8
<1> DEFINE s2 == Applied(s, seen)
           o2 == OracleApplied(o, block)
<1>10. /\ s2 \in State /\ Matching(s2) /\ s2.tip = seen.height
       /\ DOMAIN s2.utxo_index = OutputsAfter(DOMAIN s.utxo_index, seen)
       /\ s2.nullifiers = [p \in Pool |-> s.nullifiers[p] \o seen.nullifiers[p]]
    BY <1>1, <1>5, <1>9, ImplementationAfter
<1>11. /\ o2.utxos = OutputsAfter(o.utxos, block)
       /\ o2.pools = [p \in Pool |-> o.pools[p] \o block.nullifiers[p]]
    BY DEF OracleApplied, OutputsAfter, OracleCancels
<1> HIDE DEF s2, o2
<1>12. IsFiniteSet(o2.utxos) /\ o2.utxos \subseteq OutPoint
    <2>1. block.transparent_creates \in Seq(OutPoint)
        BY <1>3, CountedType
    <2>2. /\ IsFiniteSet(Range(block.transparent_creates))
          /\ Range(block.transparent_creates) \subseteq OutPoint
        BY <2>1, FiniteRange
    <2>3. o2.utxos \subseteq o.utxos \cup Range(block.transparent_creates)
        BY <1>11 DEF OutputsAfter
    <2>4. IsFiniteSet(o.utxos \cup Range(block.transparent_creates))
        BY <1>1, <2>2, FS_Union
    <2> QED BY <1>1, <2>2, <2>3, <2>4, FS_Subset
<1>13. o2.pools \in [Pool -> Seq(Value)]
    <2>1. \A p \in Pool : o.pools[p] \in Seq(Value) /\ block.nullifiers[p] \in Seq(Value)
        BY <1>1, <1>3, CountedType
    <2>2. \A p \in Pool : o.pools[p] \o block.nullifiers[p] \in Seq(Value)
        BY <2>1, ConcatProperties
    <2> QED BY <1>11, <2>2
<1>14. ASSUME NEW i \in n + 1 .. Len(r.slice)
       PROVE  Range(r.slice[i].transparent_creates) \cap (DOMAIN s2.utxo_index \cup o2.utxos) = {}
    <2>1. i \in n .. Len(r.slice) /\ i \in 1 .. Len(r.slice) /\ n \in 1 .. i - 1
        BY <1>2
    <2>2. Range(r.slice[i].transparent_creates) \cap (DOMAIN s.utxo_index \cup o.utxos) = {}
        BY <1>1, <2>1
    <2>3. Range(r.slice[i].transparent_creates) \cap Range(block.transparent_creates) = {}
        BY <1>1, <2>1, ReplayType
    <2>4. /\ DOMAIN s2.utxo_index \subseteq
                 DOMAIN s.utxo_index \cup Range(seen.transparent_creates)
          /\ o2.utxos \subseteq o.utxos \cup Range(block.transparent_creates)
        BY <1>10, <1>11 DEF OutputsAfter
    <2> QED BY <1>8, <2>2, <2>3, <2>4
<1>15. Sound(r, n + 1, s2, o2)
    <2>1. n + 1 \in 1 .. Len(r.slice) + 1 /\ n + 1 # 1 /\ n + 1 - 1 = n
        BY <1>2
    <2>2. s2.tip = IF n + 1 = 1 THEN NoTip ELSE r.slice[n + 1 - 1].height
        BY <1>5, <1>10, <2>1
    <2> QED BY <1>1, <1>10, <1>12, <1>13, <1>14, <2>1, <2>2 DEF Sound
<1>16. SoundBlock(r, n, s, o, block, seen, s2, o2)
    BY <1>2, <1>3, <1>4, <1>5, <1>6, <1>7, <1>10, <1>11, <1>15 DEF SoundBlock
<1> QED BY <1>16 DEF s2, o2

\* DroppedUnseen, of a replay.
Unseen(r) ==
    /\ r.fault.kind = "DropCreate" /\ r.allow_unknown_spends
    /\ \E i \in DOMAIN r.slice :
           /\ r.slice[i].height = r.fault.height
           /\ LastCreated(r.slice[i]) \in Range(r.slice[i].transparent_spends)

\* What the two sides agree on before block n when nothing has diverged: they
\* hold the same outputs and trees of the same sizes; a corrupted block was one
\* that the counts cannot tell, and only a reordering left other trees, which a
\* root check would have told.
Agreed(r, n, s, o) ==
    /\ DOMAIN s.utxo_index = o.utxos
    /\ \A p \in Pool : Len(s.nullifiers[p]) = Len(o.pools[p])
    /\ s.nullifiers = o.pools <=> ~(r.fault.kind = "ReorderNullifiers" /\ Corrupted(r, n))
    /\ Corrupted(r, n) =>
           /\ r.fault.kind \in {"DropCreate", "ReorderNullifiers", "DropCommitment"}
           /\ r.fault.kind = "DropCreate" => Unseen(r)
    /\ \/ r.root_check_every = 1
       \/ r.root_check_every > 0 /\ n > Len(r.slice) /\ n > 1
       => s.nullifiers = o.pools

\* RootCheckDue, of a replay.
Due(r, n) ==
    r.root_check_every > 0 /\ (n % r.root_check_every = 0 \/ n = Len(r.slice))

\* The blocks corrupted before the next position.
LEMMA CorruptedNext ==
    ASSUME NEW r, NEW n \in Nat \ {0}
    PROVE  Corrupted(r, n + 1) <=>
               Corrupted(r, n) \/ Corrupt(r.slice[n], r.fault) # r.slice[n]
<1>1. 1 .. n + 1 - 1 = (1 .. n - 1) \cup {n}
    OBVIOUS
<1> QED BY <1>1 DEF Corrupted

\* Trees a are the trees f with the values u.
Grown(a, f, u) ==
    /\ a \in [Pool -> Seq(Value)] /\ f \in [Pool -> Seq(Value)] /\ u \in [Pool -> Seq(Value)]
    /\ \A p \in Pool : a[p] = f[p] \o u[p]

SameSizes(f, g) == \A p \in Pool : Len(f[p]) = Len(g[p])

\* Trees of the same sizes stay equal only if they were and grow by the same.
LEMMA TreesGrow ==
    ASSUME NEW a, NEW f, NEW u, Grown(a, f, u), NEW b, NEW g, NEW v, Grown(b, g, v),
           SameSizes(f, g)
    PROVE  a = b <=> f = g /\ u = v
<1>1. ASSUME a = b
      PROVE  f = g /\ u = v
    <2>1. \A p \in Pool : f[p] = g[p] /\ u[p] = v[p]
        <3> TAKE p \in Pool
        <3>1. f[p] \o u[p] = g[p] \o v[p]
            BY <1>1 DEF Grown
        <3>2. /\ f[p] \in Seq(Value) /\ g[p] \in Seq(Value)
              /\ u[p] \in Seq(Value) /\ v[p] \in Seq(Value)
            BY DEF Grown
        <3>3. Len(f[p]) = Len(g[p])
            BY DEF SameSizes
        <3> QED BY <3>1, <3>2, <3>3, ConcatCancels
    <2> QED BY <2>1 DEF Grown
<1>2. ASSUME f = g, u = v
      PROVE  a = b
    <2>1. \A p \in Pool : a[p] = b[p]
        BY <1>2 DEF Grown
    <2> QED BY <2>1 DEF Grown
<1> QED BY <1>1, <1>2

\* A block both sides took, whose counts agree, and whose roots do if they were
\* compared, leaves them agreed.
LEMMA AgreedStep ==
    ASSUME NEW r, NEW n, NEW s, NEW o, Sound(r, n, s, o), n <= Len(r.slice), Agreed(r, n, s, o),
           NEW block, block = r.slice[n], NEW seen, seen = Corrupt(block, r.fault),
           Acceptable(DOMAIN s.utxo_index, s.nullifiers, seen, r.allow_unknown_spends),
           CountsAgree(Applied(s, seen), OracleApplied(o, block)),
           Due(r, n) => RootsAgree(Applied(s, seen), OracleApplied(o, block))
    PROVE  Agreed(r, n + 1, Applied(s, seen), OracleApplied(o, block))
<1> DEFINE s2 == Applied(s, seen)
           o2 == OracleApplied(o, block)
<1>0. SoundBlock(r, n, s, o, block, seen, s2, o2)
    BY SoundStep
<1>2. CountsAgree(s2, o2) /\ (Due(r, n) => RootsAgree(s2, o2))
    OBVIOUS
<1> HIDE DEF s2, o2
<1>1. /\ n \in Nat /\ n \in 1 .. Len(r.slice)
      /\ block \in CountedSummary /\ seen \in CountedSummary
      /\ Faulty(seen, block, r.fault) /\ NoRepeat(block.transparent_creates)
      /\ Range(block.transparent_creates) \cap (DOMAIN s.utxo_index \cup o.utxos) = {}
      /\ DOMAIN s2.utxo_index = OutputsAfter(DOMAIN s.utxo_index, seen)
      /\ \A p \in Pool : s2.nullifiers[p] = s.nullifiers[p] \o seen.nullifiers[p]
      /\ o2.utxos = OutputsAfter(o.utxos, block)
      /\ \A p \in Pool : o2.pools[p] = o.pools[p] \o block.nullifiers[p]
      /\ Sound(r, n + 1, s2, o2)
    BY <1>0 DEF SoundBlock
<1>3. /\ IsReplay(r) /\ s \in State /\ IsFiniteSet(o.utxos) /\ o.utxos \in SUBSET OutPoint
      /\ o.pools \in [Pool -> Seq(Value)] /\ s.nullifiers \in [Pool -> Seq(Value)]
    BY DEF Sound, State
<1>4. /\ seen.nullifiers \in [Pool -> Seq(Value)] /\ block.nullifiers \in [Pool -> Seq(Value)]
    BY <1>1, CountedType
<1>5. Corrupted(r, n + 1) <=> Corrupted(r, n) \/ seen # block
    BY <1>1, CorruptedNext
<1>6. DOMAIN s.utxo_index = o.utxos
    BY DEF Agreed
<1>7. /\ Cardinality(DOMAIN s2.utxo_index) = Cardinality(o2.utxos)
      /\ \A p \in Pool : Len(s2.nullifiers[p]) = Len(o2.pools[p])
    BY <1>2 DEF CountsAgree
<1>8. /\ DOMAIN s2.utxo_index = o2.utxos
      /\ seen # block /\ r.fault.kind = "DropCreate" =>
             /\ LastCreated(block) \in Range(block.transparent_spends)
             /\ LastCreated(block) \in Range(block.transparent_creates)
                                           \ Range(seen.transparent_creates)
    <2>1. Range(block.transparent_creates) \cap o.utxos = {}
        BY <1>1
    <2>2. /\ seen # block /\ r.fault.kind = "DropCreate" =>
                 LastCreated(block) \in Range(block.transparent_creates)
                                            \ Range(seen.transparent_creates)
          /\ \/ /\ OutputsAfter(o.utxos, seen) = OutputsAfter(o.utxos, block)
                /\ seen # block /\ r.fault.kind = "DropCreate" =>
                       LastCreated(block) \in Range(block.transparent_spends)
             \/ Cardinality(OutputsAfter(o.utxos, seen)) # Cardinality(OutputsAfter(o.utxos, block))
        BY ONLY <1>1, <1>3, <2>1, DroppedOutput, Zenon
    <2> QED BY <1>1, <1>6, <1>7, <2>2
<1>9. seen # block => r.fault.kind \in {"DropCreate", "ReorderNullifiers", "DropCommitment"}
    <2> SUFFICES ASSUME seen # block, r.fault.kind = "DropNullifier" PROVE FALSE
        BY <1>1 DEF Faulty
    <2>1. PICK p \in Pool : Len(seen.nullifiers[p]) # Len(block.nullifiers[p])
        BY <1>1 DEF Faulty
    <2>2. /\ s.nullifiers[p] \in Seq(Value) /\ o.pools[p] \in Seq(Value)
          /\ seen.nullifiers[p] \in Seq(Value) /\ block.nullifiers[p] \in Seq(Value)
        BY <1>3, <1>4
    <2>3. Len(s.nullifiers[p]) = Len(o.pools[p])
        BY DEF Agreed
    <2>4. Len(s.nullifiers[p] \o seen.nullifiers[p]) = Len(o.pools[p] \o block.nullifiers[p])
        BY <1>1, <1>7
    <2>5. /\ Len(s.nullifiers[p]) + Len(seen.nullifiers[p])
                 = Len(o.pools[p]) + Len(block.nullifiers[p])
          /\ Len(s.nullifiers[p]) \in Nat /\ Len(seen.nullifiers[p]) \in Nat
          /\ Len(block.nullifiers[p]) \in Nat
        <3>1. /\ Len(s.nullifiers[p] \o seen.nullifiers[p])
                     = Len(s.nullifiers[p]) + Len(seen.nullifiers[p])
              /\ Len(o.pools[p] \o block.nullifiers[p])
                     = Len(o.pools[p]) + Len(block.nullifiers[p])
            BY <2>2, ConcatProperties
        <3> QED BY <2>2, <2>4, <3>1, LenProperties
    <2> DEFINE k == Len(s.nullifiers[p])
               l == Len(seen.nullifiers[p])
               m == Len(block.nullifiers[p])
    <2>6. k \in Nat /\ l \in Nat /\ m \in Nat /\ k + l = k + m /\ l # m
        BY <2>1, <2>3, <2>5
    <2> HIDE DEF k, l, m
    <2> QED BY ONLY <2>6
<1>10. seen # block /\ r.fault.kind = "DropCreate" => Unseen(r)
    <2> SUFFICES ASSUME seen # block, r.fault.kind = "DropCreate" PROVE Unseen(r)
        OBVIOUS
    <2>1. LastCreated(block) \in Range(block.transparent_spends)
        BY <1>8
    <2>2. seen.transparent_spends = block.transparent_spends /\ r.fault.height = block.height
        BY <1>1 DEF Faulty
    <2>3. r.allow_unknown_spends
        <3>1. LastCreated(block) \notin DOMAIN s.utxo_index \cup Range(seen.transparent_creates)
            BY <1>1, <1>8
        <3>2. r.allow_unknown_spends
              \/ Range(seen.transparent_spends)
                     \subseteq DOMAIN s.utxo_index \cup Range(seen.transparent_creates)
            BY DEF Acceptable
        <3> QED BY <2>1, <2>2, <3>1, <3>2
    <2>4. n \in DOMAIN r.slice
        BY <1>1, <1>3, ReplayType
    <2> QED BY <2>1, <2>2, <2>3, <2>4 DEF Unseen
<1>11. s2.nullifiers = o2.pools <=> s.nullifiers = o.pools /\ seen.nullifiers = block.nullifiers
    <2>1. \A p \in Pool : Len(s.nullifiers[p]) = Len(o.pools[p])
        BY DEF Agreed
    <2> DEFINE f == s.nullifiers
               g == o.pools
               u == seen.nullifiers
               v == block.nullifiers
               a == s2.nullifiers
               b == o2.pools
    <2>2. Grown(a, f, u) /\ Grown(b, g, v) /\ SameSizes(f, g)
        BY <1>1, <1>3, <1>4, <2>1 DEF Sound, State, Grown, SameSizes
    <2> HIDE DEF f, g, u, v, a, b
    <2>3. a = b <=> f = g /\ u = v
        BY <2>2, TreesGrow
    <2> QED BY <2>3 DEF f, g, u, v, a, b
<1>12. s2.nullifiers = o2.pools <=> ~(r.fault.kind = "ReorderNullifiers" /\ Corrupted(r, n + 1))
    <2>1. s.nullifiers = o.pools <=> ~(r.fault.kind = "ReorderNullifiers" /\ Corrupted(r, n))
        BY DEF Agreed
    <2>2. seen.nullifiers = block.nullifiers <=>
              ~(r.fault.kind = "ReorderNullifiers" /\ seen # block)
        BY <1>1, <1>9 DEF Faulty
    <2> QED BY <1>5, <1>11, <2>1, <2>2
<1>13. Due(r, n) => s2.nullifiers = o2.pools
    BY <1>2 DEF RootsAgree
<1>14. ASSUME \/ r.root_check_every = 1
              \/ r.root_check_every > 0 /\ n + 1 > Len(r.slice) /\ n + 1 > 1
       PROVE  s2.nullifiers = o2.pools
    <2>1. r.root_check_every \in Nat /\ Len(r.slice) \in Nat
        BY <1>3, ReplayType
    <2>2. r.root_check_every = 1 => n % r.root_check_every = 0
        BY <1>1
    <2>3. n + 1 > Len(r.slice) => n = Len(r.slice)
        BY <1>1, <2>1
    <2>4. Due(r, n)
        BY <1>14, <2>1, <2>2, <2>3 DEF Due
    <2> QED BY <1>13, <2>4
<1>15. Corrupted(r, n + 1) =>
           /\ r.fault.kind \in {"DropCreate", "ReorderNullifiers", "DropCommitment"}
           /\ r.fault.kind = "DropCreate" => Unseen(r)
    BY <1>5, <1>9, <1>10 DEF Agreed
<1>16. Agreed(r, n + 1, s2, o2)
    BY <1>7, <1>8, <1>12, <1>14, <1>15 DEF Agreed
<1> QED BY <1>16 DEF s2, o2

\* What tier 3 will find: the totals of the blocks before n are the node's, or
\* short of them by what was dropped.
Counted(r, n, totals) ==
    LET whole == RunningTotals(r.slice)[n - 1]
    IN  /\ totals \in Totals
        /\ r.fault = NoFault => totals = whole
        /\ totals.creates <= whole.creates
        /\ \A p \in Pool : totals.commitments[p] <= whole.commitments[p]
        /\ Corrupted(r, n) /\ r.fault.kind = "DropCreate" => totals.creates < whole.creates
        /\ Corrupted(r, n) /\ r.fault.kind = "DropCommitment" =>
               \E p \in Pool : totals.commitments[p] < whole.commitments[p]

\* Block by block.
LEMMA CountedStep ==
    ASSUME NEW r, IsReplay(r), NEW n \in 1 .. Len(r.slice), NEW totals, Counted(r, n, totals),
           NEW seen, seen = Corrupt(r.slice[n], r.fault)
    PROVE  Counted(r, n + 1, Accumulated(totals, seen))
<1> DEFINE block == r.slice[n]
           before == RunningTotals(r.slice)[n - 1]
           after  == RunningTotals(r.slice)[n]
           totals2 == Accumulated(totals, seen)
<1>1. /\ r.slice \in Seq(CountedSummary) /\ n \in Nat \ {0} /\ n - 1 \in 0 .. Len(r.slice)
      /\ n + 1 - 1 = n /\ block \in CountedSummary /\ r.fault \in Fault
    BY ReplayType
<1>2. Faulty(seen, block, r.fault)
    BY <1>1, CorruptFacts
<1>3. seen \in CountedSummary
    BY <1>2 DEF Faulty
<1>4. /\ totals \in Totals
      /\ r.fault = NoFault => totals = before
      /\ totals.creates <= before.creates
      /\ \A p \in Pool : totals.commitments[p] <= before.commitments[p]
      /\ Corrupted(r, n) /\ r.fault.kind = "DropCreate" => totals.creates < before.creates
      /\ Corrupted(r, n) /\ r.fault.kind = "DropCommitment" =>
             \E p \in Pool : totals.commitments[p] < before.commitments[p]
    BY DEF Counted
<1>5. before \in Totals /\ after = Accumulated(before, block)
    BY <1>1, RunningTotalsUnfolds
<1>6. Corrupted(r, n + 1) <=> Corrupted(r, n) \/ seen # block
    BY <1>1, CorruptedNext
<1> HIDE DEF block, before, after, totals2
<1>7. /\ totals2 \in Totals
      /\ totals2.creates = totals.creates + Len(seen.transparent_creates)
      /\ \A p \in Pool : totals2.commitments[p] = totals.commitments[p] + seen.commitments[p]
    BY <1>3, <1>4, AccumulatedFacts DEF totals2
<1>8. /\ after \in Totals
      /\ after.creates = before.creates + Len(block.transparent_creates)
      /\ \A p \in Pool : after.commitments[p] = before.commitments[p] + block.commitments[p]
    BY <1>1, <1>5, AccumulatedFacts
<1>9. /\ totals.creates \in Nat /\ before.creates \in Nat
      /\ \A p \in Pool : totals.commitments[p] \in Nat /\ before.commitments[p] \in Nat
    BY <1>4, <1>5 DEF Totals
<1>10. /\ Len(seen.transparent_creates) \in Nat /\ Len(block.transparent_creates) \in Nat
       /\ \A p \in Pool : seen.commitments[p] \in Nat /\ block.commitments[p] \in Nat
    BY <1>1, <1>3, CountedType, LenProperties
<1>11. /\ Len(seen.transparent_creates) <= Len(block.transparent_creates)
       /\ seen # block /\ r.fault.kind = "DropCreate" =>
              Len(seen.transparent_creates) < Len(block.transparent_creates)
    <2>1. CASE seen # block /\ r.fault.kind = "DropCreate"
        <3>1. /\ block.transparent_creates # <<>>
              /\ seen.transparent_creates = DropLast(block.transparent_creates)
            BY <1>2, <2>1 DEF Faulty
        <3>2. block.transparent_creates \in Seq(OutPoint)
            BY <1>1, CountedType
        <3>3. Len(seen.transparent_creates) = Len(block.transparent_creates) - 1
            BY <3>1, <3>2, DropLastFacts
        <3> QED BY <1>10, <3>3
    <2>2. CASE ~(seen # block /\ r.fault.kind = "DropCreate")
        <3>1. seen.transparent_creates = block.transparent_creates
            BY <1>2, <2>2 DEF Faulty
        <3> QED BY <1>10, <2>2, <3>1
    <2> QED BY <2>1, <2>2
<1>12. /\ \A p \in Pool : seen.commitments[p] <= block.commitments[p]
       /\ seen # block /\ r.fault.kind = "DropCommitment" =>
              \E p \in Pool : seen.commitments[p] < block.commitments[p]
    <2>1. CASE seen # block /\ r.fault.kind = "DropCommitment"
        BY <1>2, <2>1 DEF Faulty
    <2>2. CASE ~(seen # block /\ r.fault.kind = "DropCommitment")
        <3>1. seen.commitments = block.commitments
            BY <1>2, <2>2 DEF Faulty
        <3> QED BY <1>10, <2>2, <3>1
    <2> QED BY <2>1, <2>2
<1>13. r.fault = NoFault => totals2 = after
    <2> SUFFICES ASSUME r.fault = NoFault PROVE totals2 = after
        OBVIOUS
    <2>1. seen = block /\ totals = before
        BY <1>2, <1>4 DEF Faulty
    <2> QED BY <1>5, <2>1 DEF totals2
<1>14. totals2.creates <= after.creates
    BY <1>4, <1>7, <1>8, <1>9, <1>10, <1>11
<1>15. \A p \in Pool : totals2.commitments[p] <= after.commitments[p]
    <2> TAKE p \in Pool
    <2> DEFINE a == totals.commitments[p]
               b == before.commitments[p]
               c == seen.commitments[p]
               d == block.commitments[p]
    <2>1. /\ a \in Nat /\ b \in Nat /\ c \in Nat /\ d \in Nat
          /\ a <= b /\ c <= d
          /\ totals2.commitments[p] = a + c /\ after.commitments[p] = b + d
        BY <1>4, <1>7, <1>8, <1>9, <1>10, <1>12
    <2> HIDE DEF a, b, c, d
    <2> QED BY ONLY <2>1
<1>16. Corrupted(r, n + 1) /\ r.fault.kind = "DropCreate" => totals2.creates < after.creates
    BY <1>4, <1>6, <1>7, <1>8, <1>9, <1>10, <1>11
<1>17. ASSUME Corrupted(r, n + 1), r.fault.kind = "DropCommitment"
       PROVE  \E p \in Pool : totals2.commitments[p] < after.commitments[p]
    <2>1. PICK p \in Pool : \/ totals.commitments[p] < before.commitments[p]
                            \/ seen.commitments[p] < block.commitments[p]
        BY <1>4, <1>6, <1>12, <1>17
    <2>2. totals2.commitments[p] < after.commitments[p]
        <3> DEFINE a == totals.commitments[p]
                   b == before.commitments[p]
                   c == seen.commitments[p]
                   d == block.commitments[p]
        <3>1. /\ a \in Nat /\ b \in Nat /\ c \in Nat /\ d \in Nat
              /\ a <= b /\ c <= d /\ (a < b \/ c < d)
              /\ totals2.commitments[p] = a + c /\ after.commitments[p] = b + d
            BY <1>4, <1>7, <1>8, <1>9, <1>10, <1>12, <2>1
        <3> HIDE DEF a, b, c, d
        <3> QED BY ONLY <3>1
    <2> QED BY <2>2
<1> QED BY <1>1, <1>7, <1>13, <1>14, <1>15, <1>16, <1>17 DEF Counted, after, totals2

----------------------------------------------------------------------------
(* The differential harness: a block on its own.                           *)

\* A block and its corruption that can be told apart on new states.
AloneDiverges(block, fault) ==
    LET seen == Corrupt(block, fault)
        none == NewState.nullifiers
    IN  /\ Acceptable({}, none, seen, TRUE) \/ Acceptable({}, none, block, TRUE)
        /\ \/ Cardinality(OutputsAfter({}, seen)) # Cardinality(OutputsAfter({}, block))
           \/ seen.nullifiers # block.nullifiers

\* A block that fits on some trees fits on new ones.
LEMMA AcceptableAlone ==
    ASSUME NEW utxos, NEW pools \in [Pool -> Seq(Value)], NEW block \in CountedSummary,
           Acceptable(utxos, pools, block, TRUE)
    PROVE  Acceptable({}, NewState.nullifiers, block, TRUE)
<1> DEFINE none == NewState.nullifiers
<1>1. \A p \in Pool : none[p] = <<>>
    BY NewStateType
<1> HIDE DEF none
<1>2. ASSUME NEW p \in Pool
      PROVE  /\ NoRepeat(block.nullifiers[p])
             /\ Range(block.nullifiers[p]) \cap Range(none[p]) = {}
             /\ Len(none[p]) + Len(block.nullifiers[p]) <= NullifierCapacity
    <2>1. NoRepeat(block.nullifiers[p]) /\ Len(pools[p]) + Len(block.nullifiers[p]) <= NullifierCapacity
        BY DEF Acceptable
    <2>2. Len(pools[p]) \in Nat /\ Len(block.nullifiers[p]) \in Nat /\ NullifierCapacity \in Nat
        BY CountedType, LenProperties, NullifierCapacityAssumption
    <2>3. none[p] = <<>> /\ Len(none[p]) = 0 /\ Range(none[p]) = {}
        BY <1>1, EmptyRange
    <2>4. Len(none[p]) + Len(block.nullifiers[p]) <= NullifierCapacity
        BY <2>1, <2>2, <2>3
    <2> QED BY <2>1, <2>3, <2>4
<1>3. NoRepeat(block.transparent_spends)
    BY DEF Acceptable
<1>4. Acceptable({}, none, block, TRUE)
    BY <1>2, <1>3 DEF Acceptable
<1> QED BY <1>4 DEF none

\* So when everything before it agreed, the block that diverges does so alone.
LEMMA AloneStep ==
    ASSUME NEW r, NEW n, NEW s, NEW o, Sound(r, n, s, o), n <= Len(r.slice), Agreed(r, n, s, o),
           r.root_check_every = 1,
           NEW block, block = r.slice[n], NEW seen, seen = Corrupt(block, r.fault),
           \/ /\ Acceptable(DOMAIN s.utxo_index, s.nullifiers, seen, TRUE)
              /\ Acceptable(o.utxos, o.pools, block, TRUE)
              /\ \/ ~CountsAgree(Applied(s, seen), OracleApplied(o, block))
                 \/ ~RootsAgree(Applied(s, seen), OracleApplied(o, block))
           \/ ~(Acceptable(DOMAIN s.utxo_index, s.nullifiers, seen, TRUE)
                    <=> Acceptable(o.utxos, o.pools, block, TRUE))
    PROVE  AloneDiverges(block, r.fault)
<1> DEFINE s2 == Applied(s, seen)
           o2 == OracleApplied(o, block)
<1>1. SoundBlock(r, n, s, o, block, seen, s2, o2)
    BY SoundStep
<1>2. \/ /\ Acceptable(DOMAIN s.utxo_index, s.nullifiers, seen, TRUE)
         /\ Acceptable(o.utxos, o.pools, block, TRUE)
         /\ ~CountsAgree(s2, o2) \/ ~RootsAgree(s2, o2)
      \/ ~(Acceptable(DOMAIN s.utxo_index, s.nullifiers, seen, TRUE)
               <=> Acceptable(o.utxos, o.pools, block, TRUE))
    OBVIOUS
<1> HIDE DEF s2, o2
<1>3. /\ block \in CountedSummary /\ seen \in CountedSummary
      /\ Faulty(seen, block, r.fault) /\ NoRepeat(block.transparent_creates)
      /\ Range(block.transparent_creates) \cap o.utxos = {}
      /\ DOMAIN s2.utxo_index = OutputsAfter(DOMAIN s.utxo_index, seen)
      /\ \A p \in Pool : s2.nullifiers[p] = s.nullifiers[p] \o seen.nullifiers[p]
      /\ o2.utxos = OutputsAfter(o.utxos, block)
      /\ \A p \in Pool : o2.pools[p] = o.pools[p] \o block.nullifiers[p]
      /\ Sound(r, n + 1, s2, o2)
    BY <1>1 DEF SoundBlock
<1>4. /\ DOMAIN s.utxo_index = o.utxos /\ s.nullifiers = o.pools
      /\ o.pools \in [Pool -> Seq(Value)] /\ IsFiniteSet(o.utxos) /\ o.utxos \in SUBSET OutPoint
    BY DEF Agreed, Sound
<1>5. \/ Acceptable({}, NewState.nullifiers, seen, TRUE)
      \/ Acceptable({}, NewState.nullifiers, block, TRUE)
    BY <1>2, <1>3, <1>4, AcceptableAlone
<1>6. ASSUME seen.nullifiers = block.nullifiers
      PROVE  Cardinality(OutputsAfter({}, seen)) # Cardinality(OutputsAfter({}, block))
    <2>1. seen.transparent_spends = block.transparent_spends
        BY <1>3 DEF Faulty
    <2>2. Acceptable(DOMAIN s.utxo_index, s.nullifiers, seen, TRUE)
              <=> Acceptable(o.utxos, o.pools, block, TRUE)
        BY <1>4, <1>6, <2>1 DEF Acceptable
    <2>3. s2.nullifiers = o2.pools
        <3>1. /\ s2.nullifiers \in [Pool -> Seq(Value)] /\ o2.pools \in [Pool -> Seq(Value)]
            BY <1>3 DEF Sound, State
        <3>2. \A p \in Pool : s2.nullifiers[p] = o2.pools[p]
            BY <1>3, <1>4, <1>6
        <3> QED BY <3>1, <3>2
    <2>4. ~CountsAgree(s2, o2)
        BY <1>2, <2>2, <2>3 DEF RootsAgree
    <2>5. Cardinality(DOMAIN s2.utxo_index) # Cardinality(o2.utxos)
        BY <2>3, <2>4 DEF CountsAgree
    <2>6. \/ OutputsAfter(o.utxos, seen) = OutputsAfter(o.utxos, block)
          \/ Cardinality(OutputsAfter({}, seen)) # Cardinality(OutputsAfter({}, block))
        BY ONLY <1>3, <1>4, DroppedOutput, Zenon
    <2> QED BY <1>3, <1>4, <2>5, <2>6
<1> QED BY <1>5, <1>6 DEF AloneDiverges

----------------------------------------------------------------------------
(* The differential harness: the invariant.                                *)

ReportType ==
    [blocks : Nat, root_checks : Nat, checkpoint : BOOLEAN, stopped_early : BOOLEAN,
     totals : Totals, unknown_spends : Nat]

\* What a file holds: a block of a replay, whose settings make a replay of it.
ReproIsKept(file) ==
    /\ IsReplay(Loaded(file))
    /\ Loaded(file).slice = <<file.block>>
    /\ Loaded(file).root_check_every = file.config.root_check_every
    /\ Loaded(file).allow_unknown_spends = file.config.allow_unknown_spends
    /\ Loaded(file).fault = file.config.fault
    /\ file.config.root_check_every = 1 /\ file.config.allow_unknown_spends =>
           AloneDiverges(file.block, file.config.fault)

\* The replay of a repro, before its block is replayed.
SeedIsNew ==
    /\ verdict = "replaying" /\ next_block = 1 /\ ~report.stopped_early
    /\ Len(replay.slice) = 1
    /\ implementation = NewState /\ oracle = NewOracle
    /\ AloneDiverges(replay.slice[1], replay.fault)

HarnessInv ==
    /\ Sound(replay, next_block, implementation, oracle)
    /\ report \in ReportType /\ report.blocks = next_block - 1
    /\ report.stopped_early => next_block <= Len(replay.slice)
    /\ verdict \in {"replaying", "clean"} =>
           Agreed(replay, next_block, implementation, oracle)
    /\ verdict \in {"replaying", "clean"} /\ ~report.stopped_early =>
           Counted(replay, next_block, report.totals)
    /\ WholeSlice /\ replay.checkpoint => report.totals = NodeTotals(replay.slice)
    /\ replay.fault = NoFault => verdict \in {"replaying", "clean"}
    /\ repro # NoRepro => ReproIsKept(repro)
    /\ seed /\ replay.root_check_every = 1 /\ replay.allow_unknown_spends =>
           SeedIsNew \/ verdict \in {"counts", "root", "disagreement"}

\* Every replay starts in it.
LEMMA HarnessStarts ==
    ASSUME NEW r, IsReplay(r)
    PROVE  /\ Sound(r, 1, NewState, NewOracle) /\ Agreed(r, 1, NewState, NewOracle)
           /\ NewReport \in ReportType /\ NewReport.blocks = 0 /\ ~NewReport.stopped_early
           /\ Counted(r, 1, NewReport.totals)
<1>1. /\ NewState \in State /\ DOMAIN NewState.utxo_index = {} /\ NewState.tip = NoTip
      /\ NewState.utxos.live = {} /\ \A p \in Pool : NewState.nullifiers[p] = <<>>
    BY NewStateType
<1>2. Matching(NewState)
    BY <1>1 DEF Matching
<1>3. /\ NewOracle.utxos = {} /\ NewOracle.pools \in [Pool -> Seq(Value)]
      /\ NewOracle.pools = NewState.nullifiers
    BY DEF NewOracle, NewState
<1>4. Len(r.slice) \in Nat /\ r.root_check_every \in Nat /\ r.slice \in Seq(CountedSummary)
    BY ReplayType
<1>5. Sound(r, 1, NewState, NewOracle)
    <2>1. IsFiniteSet(NewOracle.utxos)
        BY <1>3, FS_EmptySet
    <2>2. 1 \in 1 .. Len(r.slice) + 1
        BY <1>4
    <2> QED BY <1>1, <1>2, <1>3, <2>1, <2>2 DEF Sound
<1>6. ~Corrupted(r, 1)
    BY DEF Corrupted
<1>7. Agreed(r, 1, NewState, NewOracle)
    BY <1>1, <1>3, <1>6 DEF Agreed
<1>8. /\ NewReport.blocks = 0 /\ ~NewReport.stopped_early /\ NewReport.totals = NoTotals
      /\ NoTotals \in Totals
    BY DEF NewReport, NoTotals, Totals
<1>9. NewReport \in ReportType
    BY <1>8 DEF NewReport, ReportType
<1>10. RunningTotals(r.slice)[1 - 1] = NoTotals
    BY <1>4, RunningTotalsUnfolds
<1>11. NoTotals.creates <= NoTotals.creates
       /\ \A p \in Pool : NoTotals.commitments[p] <= NoTotals.commitments[p]
    BY <1>8 DEF Totals
<1>12. Counted(r, 1, NewReport.totals)
    BY <1>6, <1>8, <1>10, <1>11 DEF Counted
<1> QED BY <1>5, <1>7, <1>8, <1>9, <1>12

\* What the invariant says of a replay that has a block to replay.
LEMMA BlockContext ==
    ASSUME HarnessInv, Replaying
    PROVE  /\ Sound(replay, next_block, implementation, oracle)
           /\ next_block <= Len(replay.slice) /\ next_block \in 1 .. Len(replay.slice)
           /\ next_block \in Nat
           /\ IsReplay(replay) /\ NextBlock = replay.slice[next_block]
           /\ Seen = Corrupt(NextBlock, replay.fault)
           /\ Agreed(replay, next_block, implementation, oracle)
           /\ Counted(replay, next_block, report.totals)
           /\ SoundBlock(replay, next_block, implementation, oracle, NextBlock, Seen,
                         Applied(implementation, Seen), OracleApplied(oracle, NextBlock))
           /\ Accepts(implementation, Seen) <=>
                  Acceptable(DOMAIN implementation.utxo_index, implementation.nullifiers, Seen,
                             replay.allow_unknown_spends)
           /\ OracleAccepts(oracle, NextBlock, Options) <=>
                  Acceptable(oracle.utxos, oracle.pools, NextBlock, replay.allow_unknown_spends)
<1>1. /\ Sound(replay, next_block, implementation, oracle)
      /\ verdict = "replaying" /\ next_block <= Len(replay.slice) /\ ~report.stopped_early
      /\ Agreed(replay, next_block, implementation, oracle)
      /\ Counted(replay, next_block, report.totals)
    BY DEF HarnessInv, Replaying
<1>2. /\ IsReplay(replay) /\ next_block \in 1 .. Len(replay.slice) + 1
      /\ implementation \in State /\ Matching(implementation)
    BY <1>1 DEF Sound
<1>3. next_block \in Nat /\ next_block \in 1 .. Len(replay.slice)
    BY <1>1, <1>2, ReplayType
<1>4. NextBlock = replay.slice[next_block] /\ Seen = Corrupt(NextBlock, replay.fault)
    BY DEF NextBlock, Seen
<1>5. SoundBlock(replay, next_block, implementation, oracle, NextBlock, Seen,
                 Applied(implementation, Seen), OracleApplied(oracle, NextBlock))
    BY <1>1, <1>4, SoundStep
<1>6. Seen \in CountedSummary /\ Contiguous(implementation, Seen)
    BY <1>5 DEF SoundBlock
<1>7. Accepts(implementation, Seen) <=>
          Acceptable(DOMAIN implementation.utxo_index, implementation.nullifiers, Seen,
                     replay.allow_unknown_spends)
    BY <1>2, <1>6, ImplementationAsks
<1>8. OracleAccepts(oracle, NextBlock, Options) <=>
          Acceptable(oracle.utxos, oracle.pools, NextBlock, replay.allow_unknown_spends)
    BY OracleAsks
<1> QED BY <1>1, <1>2, <1>3, <1>4, <1>5, <1>7, <1>8

\* A repro is kept as it should be, when its block diverges alone.
LEMMA ReproWritten ==
    ASSUME NEW r, IsReplay(r), NEW block \in CountedSummary, NoRepeat(block.transparent_creates),
           r.root_check_every = 1 /\ r.allow_unknown_spends => AloneDiverges(block, r.fault),
           NEW file, file.config = r, file.block = block
    PROVE  ReproIsKept(file)
<1>1. Loaded(file) = [r EXCEPT !.slice = <<block>>, !.repro_dir = FALSE, !.checkpoint = FALSE]
    BY DEF Loaded
<1>2. <<block>> \in Seq(CountedSummary)
    OBVIOUS
<1>3. /\ Loaded(file) \in [slice : Seq(CountedSummary), fault : Fault, root_check_every : Nat,
                           allow_unknown_spends : BOOLEAN, repro_dir : BOOLEAN,
                           checkpoint : BOOLEAN]
      /\ Loaded(file).slice = <<block>>
      /\ Loaded(file).root_check_every = r.root_check_every
      /\ Loaded(file).allow_unknown_spends = r.allow_unknown_spends
      /\ Loaded(file).fault = r.fault
    BY <1>1, <1>2 DEF IsReplay
<1>4. IsSlice(<<block>>)
    <2>1. DOMAIN <<block>> = {1} /\ <<block>>[1] = block
        OBVIOUS
    <2>2. block.height \in Nat
        BY CountedType
    <2> QED BY <2>1, <2>2 DEF IsSlice
<1>5. IsReplay(Loaded(file))
    BY <1>3, <1>4 DEF IsReplay
<1> QED BY <1>3, <1>5 DEF ReproIsKept

\* Without a fault both sides see the same and say the same.
LEMMA NoFaultAgrees ==
    ASSUME HarnessInv, Replaying, replay.fault = NoFault
    PROVE  /\ Seen = NextBlock
           /\ Accepts(implementation, Seen) <=> OracleAccepts(oracle, NextBlock, Options)
           /\ CountsAgree(Applied(implementation, Seen), OracleApplied(oracle, NextBlock))
           /\ RootsAgree(Applied(implementation, Seen), OracleApplied(oracle, NextBlock))
<1> DEFINE s2 == Applied(implementation, Seen)
           o2 == OracleApplied(oracle, NextBlock)
<1>1. SoundBlock(replay, next_block, implementation, oracle, NextBlock, Seen, s2, o2)
    BY BlockContext
<1> HIDE DEF s2, o2
<1>2. /\ Faulty(Seen, NextBlock, replay.fault)
      /\ DOMAIN s2.utxo_index = OutputsAfter(DOMAIN implementation.utxo_index, Seen)
      /\ \A p \in Pool : s2.nullifiers[p] = implementation.nullifiers[p] \o Seen.nullifiers[p]
      /\ o2.utxos = OutputsAfter(oracle.utxos, NextBlock)
      /\ \A p \in Pool : o2.pools[p] = oracle.pools[p] \o NextBlock.nullifiers[p]
      /\ Sound(replay, next_block + 1, s2, o2)
    BY <1>1 DEF SoundBlock
<1>3. Seen = NextBlock
    BY <1>2 DEF Faulty
<1>4. DOMAIN implementation.utxo_index = oracle.utxos /\ implementation.nullifiers = oracle.pools
    BY BlockContext DEF Agreed, NoFault
<1>5. Accepts(implementation, Seen) <=> OracleAccepts(oracle, NextBlock, Options)
    BY <1>3, <1>4, BlockContext
<1>6. s2.nullifiers = o2.pools
    <2>1. s2.nullifiers \in [Pool -> Seq(Value)] /\ o2.pools \in [Pool -> Seq(Value)]
        BY <1>2 DEF Sound, State
    <2>2. \A p \in Pool : s2.nullifiers[p] = o2.pools[p]
        BY <1>2, <1>3, <1>4
    <2> QED BY <2>1, <2>2
<1>7. DOMAIN s2.utxo_index = o2.utxos
    BY <1>2, <1>3, <1>4
<1> QED BY <1>3, <1>5, <1>6, <1>7 DEF CountsAgree, RootsAgree, s2, o2

\* A block both sides take.
LEMMA BlockAgreesKeeps ==
    ASSUME HarnessInv, BlockAgrees
    PROVE  HarnessInv'
<1> DEFINE s2 == Applied(implementation, Seen)
           o2 == OracleApplied(oracle, NextBlock)
           blocks == report.blocks + 1
           checked == CountsAgree(s2, o2) /\ RootCheckDue(blocks)
<1>1. /\ Replaying /\ verdict = "replaying" /\ ~report.stopped_early
      /\ Accepts(implementation, Seen) /\ OracleAccepts(oracle, NextBlock, Options)
      /\ implementation' = s2 /\ oracle' = o2 /\ next_block' = next_block + 1
      /\ replay' = replay /\ seed' = seed
    BY DEF BlockAgrees, Replaying
<1>2. /\ report' = [report EXCEPT !.blocks = blocks, !.totals = Accumulated(@, Seen),
                                  !.root_checks = IF checked THEN @ + 1 ELSE @]
      /\ \/ ~CountsAgree(s2, o2) /\ Diverges("counts")
         \/ checked /\ ~RootsAgree(s2, o2) /\ Diverges("root")
         \/ /\ CountsAgree(s2, o2) /\ (checked => RootsAgree(s2, o2))
            /\ verdict' = verdict /\ repro' = repro
    BY DEF BlockAgrees
<1>3. /\ next_block \in 1 .. Len(replay.slice) /\ next_block \in Nat /\ IsReplay(replay)
      /\ Sound(replay, next_block, implementation, oracle)
      /\ NextBlock = replay.slice[next_block] /\ Seen = Corrupt(NextBlock, replay.fault)
      /\ Agreed(replay, next_block, implementation, oracle)
      /\ Counted(replay, next_block, report.totals)
      /\ SoundBlock(replay, next_block, implementation, oracle, NextBlock, Seen, s2, o2)
      /\ Acceptable(DOMAIN implementation.utxo_index, implementation.nullifiers, Seen,
                    replay.allow_unknown_spends)
      /\ Acceptable(oracle.utxos, oracle.pools, NextBlock, replay.allow_unknown_spends)
    BY <1>1, BlockContext
<1>4. CountsAgree(s2, o2) /\ (Due(replay, next_block) => RootsAgree(s2, o2)) =>
          Agreed(replay, next_block + 1, s2, o2)
    BY <1>3, AgreedStep
<1>5. ASSUME replay.root_check_every = 1, replay.allow_unknown_spends,
             ~CountsAgree(s2, o2) \/ ~RootsAgree(s2, o2)
      PROVE  AloneDiverges(NextBlock, replay.fault)
    <2>1. replay.allow_unknown_spends = TRUE
        BY <1>3, <1>5, ReplayType
    <2>2. /\ Acceptable(DOMAIN implementation.utxo_index, implementation.nullifiers, Seen, TRUE)
          /\ Acceptable(oracle.utxos, oracle.pools, NextBlock, TRUE)
        BY <1>3, <2>1
    <2>3. next_block <= Len(replay.slice)
        BY <1>3, ReplayType
    <2> QED BY <1>3, <1>5, <2>2, <2>3, AloneStep
<1>6. replay.fault = NoFault => CountsAgree(s2, o2) /\ RootsAgree(s2, o2)
    BY <1>1, NoFaultAgrees
<1> HIDE DEF s2, o2
<1>7. Sound(replay, next_block + 1, s2, o2) /\ Seen \in CountedSummary
    BY <1>3 DEF SoundBlock
<1>8. report \in ReportType /\ report.blocks = next_block - 1 /\ report.totals \in Totals
    BY DEF HarnessInv, ReportType
<1>9. blocks = next_block
    BY <1>3, <1>8
<1>10. /\ report' \in ReportType /\ report'.blocks = next_block /\ ~report'.stopped_early
       /\ report'.totals = Accumulated(report.totals, Seen)
    <2> DEFINE n == IF checked THEN report.root_checks + 1 ELSE report.root_checks
               t == Accumulated(report.totals, Seen)
    <2>1. n \in Nat /\ t \in Totals
        BY <1>7, <1>8, AccumulatedFacts DEF ReportType
    <2>2. report' = [report EXCEPT !.blocks = blocks, !.totals = t, !.root_checks = n]
        BY <1>2
    <2> HIDE DEF n, t, checked, blocks
    <2>3. /\ report' \in ReportType /\ report'.blocks = next_block
          /\ report'.stopped_early = report.stopped_early /\ report'.totals = t
        BY <1>3, <1>8, <1>9, <2>1, <2>2 DEF ReportType
    <2> QED BY <1>1, <2>3 DEF t
<1>11. Counted(replay, next_block + 1, report'.totals)
    BY <1>3, <1>10, CountedStep
<1>12. RootCheckDue(blocks) <=> Due(replay, next_block)
    BY <1>9 DEF RootCheckDue, Due
<1>13. verdict' \in {"replaying", "clean"} =>
           /\ verdict' = "replaying" /\ repro' = repro
           /\ CountsAgree(s2, o2) /\ (Due(replay, next_block) => RootsAgree(s2, o2))
    BY <1>1, <1>2, <1>12 DEF Diverges
<1>14. replay.fault = NoFault => verdict' = "replaying"
    BY <1>1, <1>2, <1>6
<1>15. repro' # NoRepro => ReproIsKept(repro)'
    <2>1. CASE repro' = repro
        BY <2>1 DEF HarnessInv, ReproIsKept
    <2>2. CASE repro' # repro
        <3>1. /\ ~CountsAgree(s2, o2) \/ ~RootsAgree(s2, o2)
              /\ repro' = IF replay.repro_dir THEN [config |-> replay, block |-> NextBlock]
                          ELSE NoRepro
            BY <1>2, <2>2 DEF Diverges
        <3>2. repro' # NoRepro => repro'.config = replay /\ repro'.block = NextBlock
            BY <3>1
        <3>3. NextBlock \in CountedSummary /\ NoRepeat(NextBlock.transparent_creates)
            BY <1>3 DEF SoundBlock
        <3>4. ASSUME NEW file, file.config = replay, file.block = NextBlock
              PROVE  ReproIsKept(file)
            BY <1>3, <1>5, <3>1, <3>3, <3>4, ReproWritten
        <3>5. repro' # NoRepro => ReproIsKept(repro')
            BY <3>2, <3>4
        <3> QED BY <3>5 DEF ReproIsKept
    <2> QED BY <2>1, <2>2
<1>16. ASSUME seed, replay.root_check_every = 1, replay.allow_unknown_spends
       PROVE  verdict' \in {"counts", "root"}
    <2>1. SeedIsNew
        BY <1>1, <1>16 DEF HarnessInv
    <2>2. /\ next_block = 1 /\ implementation = NewState /\ oracle = NewOracle
          /\ AloneDiverges(NextBlock, replay.fault)
        BY <1>3, <2>1 DEF SeedIsNew
    <2>3. /\ DOMAIN s2.utxo_index = OutputsAfter({}, Seen)
          /\ o2.utxos = OutputsAfter({}, NextBlock)
          /\ \A p \in Pool : s2.nullifiers[p] = NewState.nullifiers[p] \o Seen.nullifiers[p]
          /\ \A p \in Pool : o2.pools[p] = NewState.nullifiers[p] \o NextBlock.nullifiers[p]
        <3>1. DOMAIN NewState.utxo_index = {} /\ NewOracle.utxos = {}
              /\ NewOracle.pools = NewState.nullifiers
            BY NewStateType DEF NewOracle, NewState
        <3> QED BY <1>3, <2>2, <3>1 DEF SoundBlock
    <2>4. /\ NextBlock \in CountedSummary /\ Seen \in CountedSummary
        BY <1>3 DEF SoundBlock
    <2>5. RootsAgree(s2, o2) => Seen.nullifiers = NextBlock.nullifiers
        <3>1. \A p \in Pool : /\ s2.nullifiers[p] = Seen.nullifiers[p]
                              /\ o2.pools[p] = NextBlock.nullifiers[p]
            <4> TAKE p \in Pool
            <4>1. NewState.nullifiers[p] = <<>>
                BY NewStateType
            <4>2. Seen.nullifiers[p] \in Seq(Value) /\ NextBlock.nullifiers[p] \in Seq(Value)
                BY <2>4, CountedType
            <4> QED BY <2>3, <4>1, <4>2, ConcatEmptySeq
        <3>2. /\ Seen.nullifiers \in [Pool -> Seq(Value)]
              /\ NextBlock.nullifiers \in [Pool -> Seq(Value)]
            BY <2>4, CountedType
        <3> QED BY <3>1, <3>2 DEF RootsAgree
    <2>6. ~CountsAgree(s2, o2) \/ ~RootsAgree(s2, o2)
        BY <1>3, <2>2, <2>3, <2>5 DEF AloneDiverges, CountsAgree
    <2>7. RootCheckDue(blocks)
        BY <1>9, <1>16, <2>2 DEF RootCheckDue
    <2> QED BY <1>2, <2>6, <2>7 DEF Diverges
<1>17. ~(WholeSlice /\ replay.checkpoint)'
    BY <1>2, <1>1 DEF WholeSlice, Diverges
<1>18. verdict' \in {"replaying", "clean"} => Agreed(replay, next_block + 1, s2, o2)
    BY <1>4, <1>13
<1> HIDE DEF blocks, checked
<1>19. report'.blocks = next_block' - 1
    BY <1>1, <1>3, <1>10
<1> QED BY <1>1, <1>7, <1>10, <1>11, <1>14, <1>15, <1>16, <1>17, <1>18, <1>19 DEF HarnessInv

\* A block both sides refuse.
LEMMA BlockRejectedKeeps ==
    ASSUME HarnessInv, BlockRejected
    PROVE  HarnessInv'
<1>1. /\ Replaying /\ verdict = "replaying" /\ next_block <= Len(replay.slice)
      /\ ~Accepts(implementation, Seen) /\ ~OracleAccepts(oracle, NextBlock, Options)
      /\ report' = [report EXCEPT !.totals = Accumulated(@, Seen), !.stopped_early = TRUE]
      /\ replay' = replay /\ next_block' = next_block /\ implementation' = implementation
      /\ oracle' = oracle /\ verdict' = verdict /\ repro' = repro /\ seed' = seed
    BY DEF BlockRejected, Replaying
<1>2. /\ Agreed(replay, next_block, implementation, oracle)
      /\ SoundBlock(replay, next_block, implementation, oracle, NextBlock, Seen,
                    Applied(implementation, Seen), OracleApplied(oracle, NextBlock))
      /\ IsReplay(replay) /\ next_block \in 1 .. Len(replay.slice)
      /\ NextBlock = replay.slice[next_block] /\ Seen = Corrupt(NextBlock, replay.fault)
    BY <1>1, BlockContext
<1>3. Seen \in CountedSummary
    BY <1>2 DEF SoundBlock
<1>4. report' \in ReportType /\ report'.blocks = report.blocks /\ report'.stopped_early
    <2> DEFINE t == Accumulated(report.totals, Seen)
    <2>1. report \in ReportType /\ t \in Totals
        BY <1>3, AccumulatedFacts DEF HarnessInv, ReportType
    <2>2. report' = [report EXCEPT !.totals = t, !.stopped_early = TRUE]
        BY <1>1
    <2> HIDE DEF t
    <2> QED BY <2>1, <2>2 DEF ReportType
<1>5. ASSUME seed, replay.root_check_every = 1, replay.allow_unknown_spends
      PROVE  FALSE
    <2>1. SeedIsNew
        BY <1>1, <1>5 DEF HarnessInv
    <2>2. /\ implementation = NewState /\ oracle = NewOracle
          /\ AloneDiverges(NextBlock, replay.fault)
        BY <1>2, <2>1 DEF SeedIsNew
    <2>3. /\ DOMAIN implementation.utxo_index = {} /\ oracle.utxos = {}
          /\ oracle.pools = NewState.nullifiers
        BY <2>2, NewStateType DEF NewOracle, NewState
    <2>4. replay.allow_unknown_spends = TRUE
        BY <1>2, <1>5, ReplayType
    <2>5. \/ Acceptable({}, NewState.nullifiers, Seen, TRUE)
          \/ Acceptable({}, NewState.nullifiers, NextBlock, TRUE)
        BY <1>2, <2>2 DEF AloneDiverges
    <2>6. /\ Accepts(implementation, Seen) <=> Acceptable({}, NewState.nullifiers, Seen, TRUE)
          /\ OracleAccepts(oracle, NextBlock, Options) <=>
                 Acceptable({}, NewState.nullifiers, NextBlock, TRUE)
        BY <1>1, <2>2, <2>3, <2>4, BlockContext
    <2> QED BY <1>1, <2>5, <2>6
<1>6. ~WholeSlice'
    BY <1>1 DEF WholeSlice
<1>7. /\ Sound(replay, next_block, implementation, oracle) /\ report.blocks = next_block - 1
      /\ replay.fault = NoFault => verdict \in {"replaying", "clean"}
      /\ repro # NoRepro => ReproIsKept(repro)
    BY DEF HarnessInv
<1>8. (repro # NoRepro => ReproIsKept(repro))'
    BY <1>1, <1>7 DEF ReproIsKept
<1> QED BY <1>1, <1>2, <1>4, <1>5, <1>6, <1>7, <1>8 DEF HarnessInv

\* A block one side takes.
LEMMA BlockDisagreesKeeps ==
    ASSUME HarnessInv, BlockDisagrees
    PROVE  HarnessInv'
<1>1. /\ Replaying /\ verdict = "replaying" /\ next_block <= Len(replay.slice)
      /\ ~(Accepts(implementation, Seen) <=> OracleAccepts(oracle, NextBlock, Options))
      /\ report' = [report EXCEPT !.totals = Accumulated(@, Seen)]
      /\ verdict' = "disagreement"
      /\ repro' = IF replay.repro_dir THEN [config |-> replay, block |-> NextBlock] ELSE NoRepro
      /\ replay' = replay /\ next_block' = next_block /\ implementation' = implementation
      /\ oracle' = oracle /\ seed' = seed
    <2>1. Accepts(implementation, Seen) \in BOOLEAN
          /\ OracleAccepts(oracle, NextBlock, Options) \in BOOLEAN
        BY DEF Accepts, PassesStaging, OracleAccepts
    <2> QED BY <2>1 DEF BlockDisagrees, Replaying, Diverges
<1>2. /\ Sound(replay, next_block, implementation, oracle)
      /\ Agreed(replay, next_block, implementation, oracle)
      /\ SoundBlock(replay, next_block, implementation, oracle, NextBlock, Seen,
                    Applied(implementation, Seen), OracleApplied(oracle, NextBlock))
      /\ IsReplay(replay) /\ next_block \in 1 .. Len(replay.slice)
      /\ NextBlock = replay.slice[next_block] /\ Seen = Corrupt(NextBlock, replay.fault)
    BY <1>1, BlockContext
<1>3. /\ Seen \in CountedSummary /\ NextBlock \in CountedSummary
      /\ NoRepeat(NextBlock.transparent_creates)
    BY <1>2 DEF SoundBlock
<1>4. /\ report' \in ReportType /\ report'.blocks = report.blocks
      /\ report'.stopped_early = report.stopped_early
    <2> DEFINE t == Accumulated(report.totals, Seen)
    <2>1. report \in ReportType /\ t \in Totals
        BY <1>3, AccumulatedFacts DEF HarnessInv, ReportType
    <2>2. report' = [report EXCEPT !.totals = t]
        BY <1>1
    <2> HIDE DEF t
    <2> QED BY <2>1, <2>2 DEF ReportType
<1>5. replay.fault # NoFault
    BY <1>1, NoFaultAgrees
<1>6. ASSUME replay.root_check_every = 1, replay.allow_unknown_spends
      PROVE  AloneDiverges(NextBlock, replay.fault)
    <2>1. replay.allow_unknown_spends = TRUE
        BY <1>2, <1>6, ReplayType
    <2>2. ~(Acceptable(DOMAIN implementation.utxo_index, implementation.nullifiers, Seen, TRUE)
                <=> Acceptable(oracle.utxos, oracle.pools, NextBlock, TRUE))
        <3>1. /\ Accepts(implementation, Seen) <=>
                     Acceptable(DOMAIN implementation.utxo_index, implementation.nullifiers, Seen, TRUE)
              /\ OracleAccepts(oracle, NextBlock, Options) <=>
                     Acceptable(oracle.utxos, oracle.pools, NextBlock, TRUE)
            BY <1>1, <2>1, BlockContext
        <3> QED BY <1>1, <3>1
    <2> QED BY <1>1, <1>2, <1>6, <2>2, AloneStep
<1>7. (repro # NoRepro => ReproIsKept(repro))'
    <2>1. repro' # NoRepro => repro'.config = replay /\ repro'.block = NextBlock
        BY <1>1
    <2>2. repro' # NoRepro => ReproIsKept(repro')
        BY <1>2, <1>3, <1>6, <2>1, ReproWritten
    <2> QED BY <2>2 DEF ReproIsKept
<1>8. ~WholeSlice'
    BY <1>1 DEF WholeSlice
<1>9. report.blocks = next_block - 1 /\ (report.stopped_early => next_block <= Len(replay.slice))
    BY DEF HarnessInv
<1> QED BY <1>1, <1>2, <1>4, <1>5, <1>7, <1>8, <1>9 DEF HarnessInv

\* The end of a replay.
LEMMA FinishKeeps ==
    ASSUME HarnessInv, Finish
    PROVE  HarnessInv'
<1> DEFINE compared == replay.checkpoint /\ report.blocks = Len(replay.slice)
<1>1. /\ verdict = "replaying" /\ (next_block > Len(replay.slice) \/ report.stopped_early)
      /\ report' = [report EXCEPT !.checkpoint = compared]
      /\ verdict' = IF compared /\ report.totals # NodeTotals(replay.slice)
                    THEN "checkpoint" ELSE "clean"
      /\ replay' = replay /\ next_block' = next_block /\ implementation' = implementation
      /\ oracle' = oracle /\ repro' = repro /\ seed' = seed
    BY DEF Finish
<1>2. /\ Sound(replay, next_block, implementation, oracle)
      /\ report \in ReportType /\ report.blocks = next_block - 1
      /\ report.stopped_early => next_block <= Len(replay.slice)
      /\ Agreed(replay, next_block, implementation, oracle)
      /\ ~report.stopped_early => Counted(replay, next_block, report.totals)
    BY <1>1 DEF HarnessInv
<1>3. IsReplay(replay) /\ next_block \in 1 .. Len(replay.slice) + 1 /\ Len(replay.slice) \in Nat
    BY <1>2, ReplayType DEF Sound
<1>4. /\ report' \in ReportType /\ report'.blocks = report.blocks
      /\ report'.stopped_early = report.stopped_early /\ report'.totals = report.totals
    <2>1. compared \in BOOLEAN
        BY <1>3, ReplayType
    <2> HIDE DEF compared
    <2> QED BY <1>1, <1>2, <2>1 DEF ReportType
<1>5. ASSUME replay.fault = NoFault, compared PROVE report.totals = NodeTotals(replay.slice)
    <2>1. next_block = Len(replay.slice) + 1
        BY <1>2, <1>3, <1>5
    <2>2. ~report.stopped_early
        BY <1>2, <1>3, <2>1
    <2>3. next_block - 1 = Len(replay.slice)
        BY <1>3, <2>1
    <2> QED BY <1>2, <1>5, <2>2, <2>3 DEF Counted, NodeTotals
<1>6. ASSUME seed, replay.root_check_every = 1, replay.allow_unknown_spends
      PROVE  FALSE
    <2>1. next_block = 1 /\ ~report.stopped_early /\ Len(replay.slice) = 1
        BY <1>1, <1>6 DEF HarnessInv, SeedIsNew
    <2> QED BY <1>1, <2>1
<1>7. (WholeSlice /\ replay.checkpoint => report.totals = NodeTotals(replay.slice))'
    <2>1. ASSUME WholeSlice', replay'.checkpoint PROVE report'.totals = NodeTotals(replay'.slice)
        <3>1. verdict' = "clean" /\ compared
            BY <1>1, <1>4, <2>1 DEF WholeSlice
        <3>2. report.totals = NodeTotals(replay.slice)
            BY <1>1, <3>1
        <3> QED BY <1>1, <1>4, <3>2
    <2> QED BY <2>1
<1>8. replay.fault = NoFault => verdict' = "clean"
    BY <1>1, <1>5
<1>9. (repro # NoRepro => ReproIsKept(repro))'
    BY <1>1 DEF HarnessInv, ReproIsKept
<1>10. verdict' \in {"clean", "checkpoint"}
    BY <1>1
<1> HIDE DEF compared
<1> QED BY <1>1, <1>2, <1>4, <1>6, <1>7, <1>8, <1>9, <1>10 DEF HarnessInv

\* The replay of a repro.
LEMMA ReplaySeedKeeps ==
    ASSUME HarnessInv, ReplaySeed
    PROVE  HarnessInv'
<1>1. /\ repro # NoRepro /\ verdict # "replaying"
      /\ replay' = Loaded(repro) /\ next_block' = 1
      /\ implementation' = NewState /\ oracle' = NewOracle /\ report' = NewReport
      /\ verdict' = "replaying" /\ seed' = TRUE /\ repro' = repro
    BY DEF ReplaySeed
<1>2. ReproIsKept(repro)
    BY <1>1 DEF HarnessInv
<1>3. IsReplay(Loaded(repro)) /\ Loaded(repro).slice = <<repro.block>>
    BY <1>2 DEF ReproIsKept
<1>4. /\ Sound(replay', 1, NewState, NewOracle) /\ Agreed(replay', 1, NewState, NewOracle)
      /\ NewReport \in ReportType /\ NewReport.blocks = 0 /\ ~NewReport.stopped_early
      /\ Counted(replay', 1, NewReport.totals)
    BY <1>1, <1>3, HarnessStarts
<1>5. replay'.root_check_every = 1 /\ replay'.allow_unknown_spends => SeedIsNew'
    <2>1. Len(replay'.slice) = 1 /\ replay'.slice[1] = repro.block
        BY <1>1, <1>3
    <2>2. replay'.root_check_every = 1 /\ replay'.allow_unknown_spends =>
              AloneDiverges(replay'.slice[1], replay'.fault)
        BY <1>1, <1>2, <2>1 DEF ReproIsKept
    <2> QED BY <1>1, <1>4, <2>1, <2>2 DEF SeedIsNew
<1>6. ~WholeSlice'
    BY <1>1 DEF WholeSlice
<1>7. (repro # NoRepro => ReproIsKept(repro))'
    BY <1>1, <1>2 DEF ReproIsKept
<1> QED BY <1>1, <1>4, <1>5, <1>6, <1>7 DEF HarnessInv

\* Whatever is replayed, and whatever the fault, the differential harness keeps
\* the invariant: until something diverges the two sides hold the same outputs,
\* and what the fault changed is what the configuration cannot tell.
THEOREM HarnessInvariant == HarnessSpec => []HarnessInv
<1>1. HarnessInit => HarnessInv
    <2> SUFFICES ASSUME HarnessInit PROVE HarnessInv
        OBVIOUS
    <2>1. /\ replay \in Replays /\ next_block = 1 /\ implementation = NewState
          /\ oracle = NewOracle /\ report = NewReport /\ verdict = "replaying"
          /\ repro = NoRepro /\ seed = FALSE
        BY DEF HarnessInit
    <2>2. IsReplay(replay)
        BY <2>1, ReplaysAssumption
    <2>3. /\ Sound(replay, 1, NewState, NewOracle) /\ Agreed(replay, 1, NewState, NewOracle)
          /\ NewReport \in ReportType /\ NewReport.blocks = 0 /\ ~NewReport.stopped_early
          /\ Counted(replay, 1, NewReport.totals)
        BY <2>2, HarnessStarts
    <2> QED BY <2>1, <2>3 DEF HarnessInv, WholeSlice
<1>2. HarnessInv /\ [HarnessNext]_harness => HarnessInv'
    <2> SUFFICES ASSUME HarnessInv, [HarnessNext]_harness PROVE HarnessInv'
        OBVIOUS
    <2>1. CASE BlockAgrees
        BY <2>1, BlockAgreesKeeps
    <2>2. CASE BlockRejected
        BY <2>2, BlockRejectedKeeps
    <2>3. CASE BlockDisagrees
        BY <2>3, BlockDisagreesKeeps
    <2>4. CASE Finish
        BY <2>4, FinishKeeps
    <2>5. CASE ReplaySeed
        BY <2>5, ReplaySeedKeeps
    <2>6. CASE UNCHANGED harness
        BY <2>6 DEF HarnessInv, harness, WholeSlice, SeedIsNew
    <2> QED BY <2>1, <2>2, <2>3, <2>4, <2>5, <2>6 DEF HarnessNext
<1> QED BY <1>1, <1>2, PTL DEF HarnessSpec

\* So without a fault nothing ever diverges (harness.rs, replay).
THEOREM NothingDivergesUnprovoked == HarnessSpec => []NoFalseAlarm
<1>1. HarnessInv => NoFalseAlarm
    BY DEF HarnessInv, NoFalseAlarm
<1> QED BY <1>1, HarnessInvariant, PTL

\* A clean replay of a whole slice saw every fault that changed something, but
\* for those its configuration cannot see (harness.rs, Fault).
THEOREM FaultsShow == HarnessSpec => []FaultsAreCaught
<1>1. HarnessInv => FaultsAreCaught
    <2> SUFFICES ASSUME HarnessInv, WholeSlice, Effective
                 PROVE  \/ replay.fault.kind = "ReorderNullifiers" /\ replay.root_check_every = 0
                        \/ ~replay.checkpoint
                           /\ (replay.fault.kind = "DropCommitment" \/ DroppedUnseen)
        BY DEF FaultsAreCaught
    <2> DEFINE n == next_block
    <2>1. /\ verdict = "clean" /\ report.blocks = Len(replay.slice)
          /\ Sound(replay, n, implementation, oracle) /\ report.blocks = n - 1
          /\ Agreed(replay, n, implementation, oracle)
        BY DEF HarnessInv, WholeSlice
    <2>2. /\ IsReplay(replay) /\ n \in 1 .. Len(replay.slice) + 1 /\ Len(replay.slice) \in Nat
          /\ DOMAIN replay.slice = 1 .. Len(replay.slice) /\ replay.root_check_every \in Nat
          /\ replay.slice \in Seq(CountedSummary)
        BY <2>1, ReplayType DEF Sound
    <2>3. n = Len(replay.slice) + 1 /\ 1 .. n - 1 = DOMAIN replay.slice
        BY <2>1, <2>2
    <2>4. Corrupted(replay, n)
        BY <2>3 DEF Corrupted, Effective
    <2>5. n > 1
        BY <2>2, <2>4 DEF Corrupted
    <2>6. /\ replay.fault.kind \in {"DropCreate", "ReorderNullifiers", "DropCommitment"}
          /\ replay.fault.kind = "DropCreate" => Unseen(replay)
        BY <2>1, <2>4 DEF Agreed
    <2>7. replay.fault.kind = "ReorderNullifiers" => replay.root_check_every = 0
        <3> SUFFICES ASSUME replay.fault.kind = "ReorderNullifiers", replay.root_check_every # 0
                     PROVE  FALSE
            OBVIOUS
        <3>1. replay.root_check_every > 0 /\ n > Len(replay.slice)
            BY <2>2, <2>3
        <3>2. implementation.nullifiers = oracle.pools
            BY <2>1, <2>5, <3>1 DEF Agreed
        <3> QED BY <2>1, <2>4, <3>2 DEF Agreed
    <2>8. Unseen(replay) => DroppedUnseen
        BY DEF Unseen, DroppedUnseen, LastCreated
    <2>9. ASSUME replay.checkpoint, replay.fault.kind \in {"DropCreate", "DropCommitment"}
          PROVE  FALSE
        <3> DEFINE whole == RunningTotals(replay.slice)[n - 1]
        <3>1. report.totals = whole
            <4>1. report.totals = NodeTotals(replay.slice)
                BY <2>9 DEF HarnessInv
            <4>2. n - 1 = Len(replay.slice)
                BY <2>2, <2>3
            <4> QED BY <4>1, <4>2 DEF NodeTotals
        <3>2. ~report.stopped_early
            <4>1. ~(n <= Len(replay.slice))
                BY <2>2, <2>3
            <4> QED BY <4>1 DEF HarnessInv
        <3>3. Counted(replay, n, report.totals)
            BY <2>1, <3>2 DEF HarnessInv
        <3> HIDE DEF n
        <3>4. /\ report.totals \in Totals
              /\ \/ report.totals.creates < whole.creates
                 \/ \E p \in Pool : report.totals.commitments[p] < whole.commitments[p]
            BY <2>4, <2>9, <3>3 DEF Counted
        <3> HIDE DEF whole
        <3>5. /\ report.totals.creates \in Nat
              /\ \A p \in Pool : report.totals.commitments[p] \in Nat
            BY <3>4 DEF Totals
        <3> QED BY <3>1, <3>4, <3>5
    <2> QED BY <2>6, <2>7, <2>8, <2>9
<1> QED BY <1>1, HarnessInvariant, PTL

\* When the roots are checked after every block and spends from outside are
\* tolerated, a repro diverges alone (harness.rs, load_repro).
THEOREM ReprosDiverge == HarnessSpec => []SeedsReproduce
<1>1. HarnessInv => SeedsReproduce
    BY DEF HarnessInv, SeedsReproduce, SeedIsNew
<1> QED BY <1>1, HarnessInvariant, PTL
=============================================================================
