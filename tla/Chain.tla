-------------------------------- MODULE Chain --------------------------------
(***************************************************************************)
(* A chain follower: apply_block (block_apply.rs) and the RollbackJournal  *)
(* of rollback.rs, used as the journal's doc asks -- record after every    *)
(* successful apply_block, rollback_to on a reorganisation.                *)
(*                                                                         *)
(* rollback_to is a loop over deltas and is modelled step by step; no      *)
(* other action is possible until it has returned.  An error the code      *)
(* could return in the middle of it is a step that is not enabled, and the *)
(* invariants say that never happens.  Calls that are refused before they  *)
(* change anything are no steps.                                           *)
(***************************************************************************)
EXTENDS ChainState, FiniteSetsExt

CONSTANTS
    Block,                  \* the blocks on offer, of every branch
    Followers               \* the followers to check, see Follower

ASSUME BlockAssumption == Block \subseteq BlockSummary

\* The arguments of RollbackJournal::new, the ApplyOptions of every apply_block,
\* and the blocks the follower's node ever serves.
Follower == [interval : Nat, max_depth : Nat, options : ApplyOptions, served : SUBSET Block]

ASSUME FollowersAssumption == Followers \subseteq Follower

VARIABLES
    interval, max_depth,    \* RollbackJournal, fixed when it is made
    options,                \* ApplyOptions, the same for every block
    served,                 \* the blocks it may be given
    state,                  \* ChainAccumulators
    snapshots, deltas,      \* RollbackJournal, oldest first
    phase,                  \* what the follower is doing
    delta,                  \* the delta apply_block returned, until recorded
    target,                 \* rollback_to: the height asked for
    to_undo,                \* rollback_to: positions in deltas not yet undone
    step,                   \* rollback_to: height replayed up to
    history,                \* ghost: the active chain, with the state after each block
    recorded                \* ghost: the heights ever recorded, [first, highest]

config  == <<interval, max_depth, options, served>>
journal == <<snapshots, deltas>>
loop    == <<target, to_undo, step>>
ghosts  == <<history, recorded>>
vars    == <<config, state, journal, phase, delta, loop, ghosts>>

Nothing == <<>>             \* the value of a variable that is not in use

----------------------------------------------------------------------------
\* The blocks of the active chain.
Blocks == [i \in DOMAIN history |-> history[i].block]

\* Consensus: an output is created once on a chain (its transaction's id is
\* fresh), once in a block, and not after it was spent.
CreatesFreshOutputs(block) ==
    /\ NoRepeat(block.transparent_creates)
    /\ \A i \in DOMAIN history :
           Range(block.transparent_creates)
               \cap (Range(history[i].block.transparent_creates)
                       \cup Range(history[i].block.transparent_spends)) = {}

\* ChainAccumulators::new and RollbackJournal::new.
Fresh ==
    /\ state = NewState
    /\ snapshots = <<>> /\ deltas = <<>>
    /\ phase = "idle" /\ delta = Nothing
    /\ target = 0 /\ to_undo = {} /\ step = 0
    /\ history = <<>> /\ recorded = Nothing

Init ==
    /\ \E f \in Followers :
           /\ interval = Max({f.interval, 1}) /\ max_depth = f.max_depth
           /\ options = f.options /\ served = f.served
    /\ Fresh

\* apply_block returns Ok.
ApplyBlock(block) ==
    /\ phase = "idle"
    /\ CreatesFreshOutputs(block)
    /\ PassesStaging(state, block, options)
    /\ ForestHolds(state, SpentLeaves(state, block))
    /\ \A p \in Pool : RoomFor(state, block, p)
    /\ state' = Applied(state, block)
    /\ delta' = Delta(state, block)
    /\ phase' = "applied"
    /\ history' = Append(history, [block |-> block, state |-> Applied(state, block)])
    /\ UNCHANGED <<config, journal, loop, recorded>>

\* apply_block fails after its first mutation; the caller gives up.
ApplyBlockFails(block) ==
    /\ phase = "idle"
    /\ CreatesFreshOutputs(block)
    /\ PassesStaging(state, block, options)
    /\ ForestHolds(state, SpentLeaves(state, block))
    /\ \E p \in Pool : ~RoomFor(state, block, p)
    /\ state' = HalfApplied(state, block)
    /\ phase' = "failed"
    /\ UNCHANGED <<config, journal, delta, loop, ghosts>>

----------------------------------------------------------------------------
(* RollbackJournal.                                                        *)

JournalTip ==
    IF deltas # <<>> THEN deltas[Len(deltas)].height
    ELSE IF snapshots # <<>> THEN snapshots[Len(snapshots)].height
    ELSE NoTip

DropFront(s, n) == SubSeq(s, n + 1, Len(s))

\* The length of the longest prefix of s at or below `height`.
LeadingUpTo(s, height) ==
    Max({n \in 0 .. Len(s) : \A i \in 1 .. n : s[i].height <= height})

\* The length of what is left of s when newer entries than `height` are popped.
KeptUpTo(s, height) ==
    Max({0} \cup {n \in 1 .. Len(s) : s[n].height <= height})

\* Mutant: the oldest snapshot goes as soon as it is beyond the horizon itself.
RedundantByOwnHeight(taken, horizon) ==
    Min({Len(taken) - 1, LeadingUpTo(taken, horizon)})

\* Mutant: nothing is ever pruned.
RedundantNever(taken, horizon) == 0

\* How many of the oldest snapshots prune drops: those whose successor is
\* still at or below the horizon.
Redundant(taken, horizon) ==
    LeadingUpTo(Tail(taken), horizon)

Horizon(tip) == IF tip > max_depth THEN tip - max_depth ELSE 0

IsBoundary(height) == snapshots = <<>> \/ height % interval = 0

Snapshot == [height |-> delta.height, utxos |-> state.utxos, utxo_index |-> state.utxo_index]

\* Mutant: the deltas are dropped up to the newest snapshot, not the oldest.
RecordBoundaryDropsAllDeltas ==
    LET taken == Append(snapshots, Snapshot)
    IN  /\ snapshots' = DropFront(taken, Redundant(taken, Horizon(delta.height)))
        /\ deltas' = Append(DropFront(deltas, LeadingUpTo(deltas, delta.height)), delta)

RecordBoundary ==
    LET taken == Append(snapshots, Snapshot)
        kept  == DropFront(taken, Redundant(taken, Horizon(delta.height)))
    IN  /\ snapshots' = kept
        /\ deltas' = Append(DropFront(deltas, LeadingUpTo(deltas, kept[1].height)), delta)

Record ==
    /\ phase = "applied"
    /\ JournalTip # NoTip => delta.height = JournalTip + 1
    /\ IF IsBoundary(delta.height) THEN RecordBoundary
       ELSE snapshots' = snapshots /\ deltas' = Append(deltas, delta)
    /\ phase' = "idle" /\ delta' = Nothing
    /\ recorded' = IF recorded = Nothing
                   THEN [first |-> delta.height, highest |-> delta.height]
                   ELSE [recorded EXCEPT !.highest = Max({@, delta.height})]
    /\ UNCHANGED <<config, state, loop, history>>

\* rollback_to is called with a height it does not refuse.
RollbackTo(height) ==
    /\ phase = "idle"
    /\ state.tip # NoTip /\ height < state.tip
    /\ snapshots # <<>> /\ snapshots[1].height <= height
    /\ target' = height
    /\ to_undo' = {k \in DOMAIN deltas : deltas[k].height > height}
    /\ phase' = "undoing"
    /\ UNCHANGED <<config, state, journal, delta, step, ghosts>>

\* undo_insert takes back a tree's newest values only.
EndsWith(s, newest) ==
    /\ Len(newest) <= Len(s)
    /\ SubSeq(s, Len(s) - Len(newest) + 1, Len(s)) = newest

UndoFits(k) == \A p \in Pool : EndsWith(state.nullifiers[p], deltas[k].insertions[p])

UndoDelta(k) ==
    /\ phase = "undoing"
    /\ k \in to_undo /\ \A j \in to_undo : j <= k
    /\ UndoFits(k)
    /\ state' = [state EXCEPT !.nullifiers = [p \in Pool |->
                    SubSeq(@[p], 1, Len(@[p]) - Len(deltas[k].insertions[p]))]]
    /\ to_undo' = to_undo \ {k}
    /\ UNCHANGED <<config, journal, phase, delta, target, step, ghosts>>

\* Mutant: the forest is restored and the outpoint index is not.
RestoreSnapshotForestOnly(base) ==
    /\ phase = "undoing" /\ to_undo = {}
    /\ snapshots[base].height <= target
    /\ \A j \in DOMAIN snapshots : snapshots[j].height <= target => j <= base
    /\ state' = [state EXCEPT !.utxos = snapshots[base].utxos]
    /\ step' = snapshots[base].height
    /\ phase' = "replaying"
    /\ UNCHANGED <<config, journal, delta, target, to_undo, ghosts>>

\* The newest snapshot at or below the target becomes the transparent half.
RestoreSnapshot(base) ==
    /\ phase = "undoing" /\ to_undo = {}
    /\ snapshots[base].height <= target
    /\ \A j \in DOMAIN snapshots : snapshots[j].height <= target => j <= base
    /\ state' = [state EXCEPT !.utxos = snapshots[base].utxos,
                              !.utxo_index = snapshots[base].utxo_index]
    /\ step' = snapshots[base].height
    /\ phase' = "replaying"
    /\ UNCHANGED <<config, journal, delta, target, to_undo, ghosts>>

\* Mutant: only the forest is replayed; the outpoint index stays as it was.
ReplayedForestOnly(current, undone) ==
    [current EXCEPT !.utxos = ForestInserts(ForestDeletes(@, undone.spent), undone.created)]

\* replay_transparent.
ReplayedTransparent(current, undone) ==
    [current EXCEPT
        !.utxos      = ForestInserts(ForestDeletes(@, undone.spent), undone.created),
        !.utxo_index = IndexWith(IndexWithout(@, Outpoints(undone.spent)), undone.created)]

ReplayDelta(k) ==
    /\ phase = "replaying" /\ step < target
    /\ deltas[k].height = step + 1
    /\ \A j \in DOMAIN deltas : deltas[j].height = step + 1 => k <= j
    /\ ForestHolds(state, deltas[k].spent)
    /\ state' = ReplayedTransparent(state, deltas[k])
    /\ step' = step + 1
    /\ UNCHANGED <<config, journal, phase, delta, target, to_undo, ghosts>>

\* The undone deltas and snapshots are dropped and the tip settles.
FinishRollback ==
    /\ phase = "replaying" /\ step = target
    /\ deltas' = SubSeq(deltas, 1, KeptUpTo(deltas, target))
    /\ snapshots' = SubSeq(snapshots, 1, KeptUpTo(snapshots, target))
    /\ state' = [state EXCEPT !.tip = target]
    /\ phase' = "idle"
    /\ target' = 0 /\ step' = 0
    /\ history' = SubSeq(history, 1, Len(history) - (state.tip - target))
    /\ UNCHANGED <<config, delta, to_undo, recorded>>

Next ==
    \/ \E block \in served : ApplyBlock(block)
    \/ \E block \in served : ApplyBlockFails(block)
    \/ Record
    \/ \E height \in 0 .. state.tip : RollbackTo(height)
    \/ \E k \in DOMAIN deltas : UndoDelta(k)
    \/ \E base \in DOMAIN snapshots : RestoreSnapshot(base)
    \/ \E k \in DOMAIN deltas : ReplayDelta(k)
    \/ FinishRollback

Spec == Init /\ [][Next]_vars

----------------------------------------------------------------------------
(* Properties.                                                             *)

Settled == phase \in {"idle", "applied"}

StateAt(length) == IF length = 0 THEN NewState ELSE history[length].state

\* After any mixture of blocks and rollbacks the state -- forest, outpoint
\* index, every nullifier tree, tip -- is the one a cold replay of the active
\* chain reaches (rollback.rs, rollback_to).
MatchesColdReplay ==
    Settled =>
        /\ state = StateAt(Len(history))
        /\ \A i \in DOMAIN history :
               history[i].state = Applied(StateAt(i - 1), history[i].block)

\* The index names exactly the leaves the forest holds, each under its own
\* outpoint, even halfway through a rollback or a failed block: otherwise a
\* deletion fails at some later height (pool.rs, restore_transparent).
IndexMatchesForest ==
    /\ {state.utxo_index[o] : o \in DOMAIN state.utxo_index} = state.utxos.live
    /\ \A o \in DOMAIN state.utxo_index : state.utxo_index[o].outpoint = o

\* The index holds the outputs the active chain has created and not spent,
\* each with the height it was created at on this branch.
UtxosAreTheUnspentOutputs ==
    Settled =>
        state.utxo_index =
            [o \in {created \in OutPoint :
                       /\ \E i \in DOMAIN history :
                              created \in Range(Blocks[i].transparent_creates)
                       /\ \A i \in DOMAIN history :
                              created \notin Range(Blocks[i].transparent_spends)} |->
                [outpoint |-> o,
                 height |-> CHOOSE h \in {Blocks[i].height : i \in DOMAIN history} :
                     \E i \in DOMAIN history :
                         /\ Blocks[i].height = h
                         /\ o \in Range(Blocks[i].transparent_creates)]]

\* A rollback that was not refused at the start never meets an error on the
\* way: every undo finds its values newest, a base snapshot exists, and every
\* delta to replay is there and fits (MissingDelta and Imt errors).
RollbackNeverFailsMidway ==
    /\ phase = "undoing" => \A k \in to_undo : (\A j \in to_undo : j <= k) => UndoFits(k)
    /\ phase = "undoing" => \E i \in DOMAIN snapshots : snapshots[i].height <= target
    /\ phase = "replaying" /\ step < target =>
           \E k \in DOMAIN deltas : /\ deltas[k].height = step + 1
                                    /\ ForestHolds(state, deltas[k].spent)

\* However much is pruned, the journal reaches max_depth blocks back from the
\* highest block it ever recorded, or to the first one (rollback.rs, prune).
ReachIsKept ==
    recorded # Nothing =>
        /\ snapshots # <<>>
        /\ snapshots[1].height <= Max({recorded.first, recorded.highest - max_depth})

\* And it keeps little more than that: what prune leaves is bounded by the two
\* parameters, however long the chain and however often it reorganises.
JournalIsBounded ==
    /\ Len(snapshots) <= (max_depth + interval - 1) \div interval + 1
    /\ Len(deltas) <= max_depth + 2 * interval - 1

\* block_apply.rs: "On any error the accumulators are left exactly as they
\* were."
FailedBlockLeavesState ==
    phase = "failed" => state = StateAt(Len(history))

\* Together they implement a ledger that validates blocks against the blocks
\* of its chain alone.
Ledger == INSTANCE Ledger
            WITH Blocks <- Block, Pools <- Pool,
                 chain <- Blocks, tolerant <- options.allow_unknown_spends
ImplementsLedger == Ledger!Spec
=============================================================================
