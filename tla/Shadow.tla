------------------------------- MODULE Shadow -------------------------------
(***************************************************************************)
(* The shadow run: a bridge and a compact node that follow the tip of a    *)
(* zebrad over RPC (zutreexo-testkit/src/bin/shadow.rs) and unwind when it *)
(* reorganises (zutreexo-testkit/src/shadow.rs).                           *)
(*                                                                         *)
(* Every RPC is a step, and between any two of them the node may move to   *)
(* another branch, fall back, or stop answering.  A chain is the sequence  *)
(* of its blocks from genesis, so a height is a length less one, and a     *)
(* block is its hash.  The accumulators are the sequence of blocks applied *)
(* to them: modules Chain and Compact show that it determines both.        *)
(***************************************************************************)
EXTENDS Integers, Sequences, SequencesExt

CONSTANTS
    NodeChains,             \* the chains the node may be on
    Snapshots,              \* the chains the run may be resumed from
    history_cap, want,      \* ZUTREEXO_HISTORY, ZUTREEXO_SHADOW_BLOCKS
    MaxMoves                \* bound: changes of the node's chain

\* A block is its hash; these are the blocks of every branch.
BlockHash == UNION {Range(c) : c \in NodeChains}

ASSUME ChainAssumption ==
    /\ NodeChains \subseteq Seq(BlockHash)
    /\ \A c \in NodeChains : \A length \in 1 .. Len(c) : SubSeq(c, 1, length) \in NodeChains
ASSUME SnapshotAssumption == Snapshots \subseteq NodeChains \cup {<<>>}
ASSUME BoundAssumption == history_cap \in Nat \ {0} /\ want \in Nat /\ MaxMoves \in Nat

VARIABLES
    chain, up, moves,       \* the node: its chain, whether it answers
    phase,                  \* the follower: the next RPC
    node_tip, raw, hash,    \* what this iteration has been told
    bridge, csn,            \* ChainAccumulators and CompactState
    history,                \* the newest blocks applied: [height, hash, csn]
    followed,               \* blocks applied at the node's tip
    marks, restored,        \* unwind: history entries left to ask for; the bridge rebuilt
    snapshot,               \* the file the run was resumed from
    mixed                   \* ghost: two answers used together came from two branches

node    == <<chain, up, moves>>
told    == <<node_tip, raw, hash>>
sides   == <<bridge, csn, history, followed>>
rewind  == <<marks, restored>>
vars    == <<node, phase, told, sides, rewind, snapshot, mixed>>

NoBlock == <<>>             \* raw, hash: nothing told yet

\* Whether a block is the one that follows these blocks on some branch.
Linked(blocks, block) == Append(blocks, block) \in NodeChains

----------------------------------------------------------------------------
(* The node.                                                               *)

NodeMoves(c) ==
    /\ moves < MaxMoves /\ c # chain
    /\ chain' = c /\ moves' = moves + 1
    /\ UNCHANGED <<up, phase, told, sides, rewind, snapshot, mixed>>

NodeGoesOrComes ==
    /\ up' = ~up
    /\ UNCHANGED <<chain, moves, phase, told, sides, rewind, snapshot, mixed>>

\* A query about a height succeeds when the node answers and has the height.
Answers(height) == up /\ height < Len(chain)
At(height) == chain[height + 1]

----------------------------------------------------------------------------
(* An iteration of the loop.                                               *)

next == Len(bridge)
Retry == phase' = "tip"

QueryTip ==
    /\ phase = "tip" /\ up
    /\ node_tip' = Len(chain) - 1
    /\ phase' = "check"
    /\ UNCHANGED <<node, raw, hash, sides, rewind, snapshot, mixed>>

\* history.back(), when it is the block at this height.
Recorded(height) == history # <<>> /\ Last(history).height = height

\* Mutant: a tip that has changed is extended all the same.
CheckTipIgnored ==
    /\ phase = "check"
    /\ phase' = IF next > node_tip THEN "tip" ELSE "block"
    /\ UNCHANGED <<node, told, sides, marks, restored, snapshot, mixed>>

\* The reorg check: is the last block applied still the node's at its height?
CheckTip ==
    /\ phase = "check"
    /\ IF bridge # <<>> /\ ~Answers(next - 1) THEN Retry /\ marks' = marks
       ELSE IF bridge # <<>> /\ Recorded(next - 1) /\ Last(history).hash # At(next - 1)
            THEN phase' = "fork" /\ marks' = Len(history)
       ELSE phase' = (IF next > node_tip THEN "tip" ELSE "block") /\ marks' = marks
    /\ UNCHANGED <<node, told, sides, restored, snapshot, mixed>>

FetchBlock ==
    /\ phase = "block"
    /\ IF Answers(next)
       THEN /\ raw' = At(next) /\ phase' = "hash"
            /\ mixed' = (mixed \/ ~Linked(bridge, At(next)))
       ELSE Retry /\ UNCHANGED <<raw, mixed>>
    /\ UNCHANGED <<node, node_tip, hash, sides, rewind, snapshot>>

FetchHash ==
    /\ phase = "hash"
    /\ IF Answers(next)
       THEN /\ hash' = At(next) /\ phase' = "json"
            /\ mixed' = (mixed \/ At(next) # raw)
            /\ UNCHANGED raw
       ELSE Retry /\ raw' = NoBlock /\ UNCHANGED <<hash, mixed>>
    /\ UNCHANGED <<node, node_tip, sides, rewind, snapshot>>

Stop == phase' = "failed" /\ UNCHANGED <<node, told, sides, rewind, snapshot, mixed>>

\* zebrad's own counts are of another block than the one fetched, and differ.
OracleDisagrees == phase = "json" /\ Answers(next) /\ At(next) # raw /\ Stop

\* A block that does not follow the ones applied may spend what they lack.
BridgeRejects == phase = "json" /\ ~Linked(bridge, raw) /\ Stop

\* The newest history_cap entries stay.
Capped(entries) ==
    IF Len(entries) > history_cap THEN Tail(entries) ELSE entries

\* The counts agree or are not to be had, both sides apply, and their roots
\* are equal.  Nothing compares the block's parent with the block before it.
Apply ==
    /\ phase = "json"
    /\ bridge' = Append(bridge, raw)
    /\ csn' = Append(csn, raw)
    /\ history' = Capped(Append(history, [height |-> next, hash |-> hash, csn |-> csn']))
    /\ followed' = IF next >= node_tip THEN followed + 1 ELSE followed
    /\ phase' = IF followed' < want THEN "tip" ELSE "done"
    /\ raw' = NoBlock /\ hash' = NoBlock
    /\ UNCHANGED <<node, node_tip, rewind, snapshot, mixed>>

----------------------------------------------------------------------------
(* unwind.                                                                 *)

\* The entries of history up to the fork.
Surviving == SubSeq(history, 1, marks)

\* find_fork asks for one height.  An error ends the run.  The snapshot is
\* never past the fork: the history holds what was applied on top of it.
FindFork ==
    /\ phase = "fork"
    /\ LET mark == history[marks] IN
       IF ~Answers(mark.height)
       THEN phase' = "failed" /\ UNCHANGED <<history, marks, restored>>
       ELSE IF At(mark.height) # mark.hash
       THEN /\ marks' = marks - 1
            /\ phase' = IF marks = 1 THEN "failed" ELSE "fork"
            /\ UNCHANGED <<history, restored>>
       ELSE IF marks = Len(history)
       THEN phase' = "tip" /\ UNCHANGED <<history, marks, restored>>
       ELSE /\ history' = Surviving
            /\ restored' = snapshot
            /\ phase' = "replay"
            /\ marks' = marks
    /\ UNCHANGED <<node, told, bridge, csn, followed, snapshot, mixed>>

Target == Last(history).height

\* The bridge is rebuilt from the snapshot with the blocks the node has now.
Refetch ==
    /\ phase = "replay" /\ Len(restored) <= Target
    /\ IF Answers(Len(restored))
       THEN \/ restored' = Append(restored, At(Len(restored))) /\ phase' = phase
            \/ /\ ~Linked(restored, At(Len(restored)))
               /\ phase' = "failed" /\ restored' = restored
       ELSE phase' = "failed" /\ restored' = restored
    /\ UNCHANGED <<node, told, sides, marks, snapshot, mixed>>

\* Mutant: the two sides are not compared after the rollback.
RestoreUncompared ==
    /\ phase = "replay" /\ Len(restored) > Target
    /\ bridge' = restored /\ csn' = Last(history).csn
    /\ phase' = "tip"
    /\ marks' = 0 /\ restored' = <<>>
    /\ UNCHANGED <<node, told, history, followed, snapshot, mixed>>

\* The compact node takes its state off the history; the roots must agree.
Restore ==
    /\ phase = "replay" /\ Len(restored) > Target
    /\ bridge' = restored /\ csn' = Last(history).csn
    /\ phase' = IF csn' = bridge' THEN "tip" ELSE "failed"
    /\ marks' = 0 /\ restored' = <<>>
    /\ UNCHANGED <<node, told, history, followed, snapshot, mixed>>

----------------------------------------------------------------------------
Init ==
    /\ chain \in NodeChains /\ up = TRUE /\ moves = 0
    /\ snapshot \in Snapshots /\ bridge = snapshot /\ csn = snapshot
    /\ history = <<>> /\ followed = 0
    /\ node_tip = 0 /\ raw = NoBlock /\ hash = NoBlock
    /\ phase = IF want = 0 THEN "done" ELSE "tip"
    /\ marks = 0 /\ restored = <<>> /\ mixed = FALSE

Iterate == QueryTip \/ CheckTip \/ FetchBlock \/ FetchHash
               \/ OracleDisagrees \/ BridgeRejects \/ Apply
Unwind == FindFork \/ Refetch \/ Restore
Follower == Iterate \/ Unwind

Next == (\E c \in NodeChains : NodeMoves(c)) \/ NodeGoesOrComes \/ Follower

\* The follower's loop goes on until it returns; nobody promises that the
\* node answers.
Spec == Init /\ [][Next]_vars /\ WF_vars(Follower)

----------------------------------------------------------------------------
(* Properties.                                                             *)

\* Between iterations the two sides hold the same blocks, and the history
\* holds the newest of them without a hole, each with the compact state it
\* produced, through any number of unwinds (shadow.rs, unwind).
HistoryRewindsBothSides ==
    phase \in {"tip", "check"} =>
        /\ csn = bridge
        /\ Len(history) <= history_cap
        /\ \A i \in DOMAIN history :
               /\ history[i].height = next - 1 - (Len(history) - i)
               /\ history[i].csn = SubSeq(csn, 1, history[i].height + 1)

\* As long as no two answers used together came from two branches, what is
\* applied is one branch and the hashes in the history are its hashes, even
\* when the node reorganises in the middle of an unwind.
OneBranchUnlessMixed ==
    ~mixed /\ phase \in {"tip", "check"} =>
        /\ bridge \in NodeChains \cup {<<>>}
        /\ \A i \in DOMAIN history : history[i].hash = bridge[history[i].height + 1]

Stopped == phase \in {"done", "failed"}

\* The node has nothing for the follower: it is below the follower's tip, or
\* at it while nothing has been applied whose hash could be compared.
NothingNew == Len(chain) < next \/ (Len(chain) = next /\ history = <<>>)

\* Once the node settles and goes on answering, the follower reaches its tip,
\* reorganised away from under it or not, or it stops; it never waits for
\* ever, unless the node has settled below it (bin/shadow.rs, the loop).
CatchesUp ==
    <>[]up => <>[](Stopped \/ mixed \/ bridge = chain \/ NothingNew)
=============================================================================
