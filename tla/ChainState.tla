----------------------------- MODULE ChainState -----------------------------
(***************************************************************************)
(* The accumulators of crates/zutreexo-chain/src/pool.rs and the state     *)
(* transition function of block_apply.rs, as operators on a state record.  *)
(*                                                                         *)
(* A state is [utxos, utxo_index, nullifiers, tip].  The forest is the     *)
(* sequence of calls made to it, beside the leaves it holds: rustreexo is  *)
(* deterministic, so forests with equal call sequences are byte-identical, *)
(* which is the equality the code promises.  A pool's tree is the list of  *)
(* its values in insertion order (module Imt shows the tree implements     *)
(* that list and is determined by it).                                     *)
(***************************************************************************)
EXTENDS Iterators, Functions

CONSTANTS
    OutPoint,               \* transparent outputs
    Value,                  \* nullifiers
    PoolOrder,              \* PoolId::ALL, a sequence of pools
    NullifierCapacity       \* values one nullifier tree holds: 2^depth - 1

ASSUME PoolAssumption == IsInjective(PoolOrder)
ASSUME NullifierCapacityAssumption == NullifierCapacity \in Nat

Pool == Range(PoolOrder)

NoTip == -1                 \* tip: None

\* UtxoLeaf: commits to the outpoint and to the creating height.
Leaf == [outpoint : OutPoint, height : Nat]

\* BlockSummary, without the note commitments, which are counted only.
BlockSummary == [height : Nat, transparent_spends : Seq(OutPoint),
                 transparent_creates : Seq(OutPoint), nullifiers : [Pool -> Seq(Value)]]

\* The knob of ApplyOptions that varies; every follower enforces contiguity.
ApplyOptions == [allow_unknown_spends : BOOLEAN]

NoRepeat(s) == IsInjective(s)

----------------------------------------------------------------------------
(* UtxoForest.                                                             *)

EmptyForest == [calls |-> <<>>, live |-> {}]

ForestDeletes(forest, hashes) ==
    IF hashes = <<>> THEN forest
    ELSE [calls |-> Append(forest.calls, <<"delete", hashes>>),
          live  |-> forest.live \ Range(hashes)]

ForestInserts(forest, hashes) ==
    IF hashes = <<>> THEN forest
    ELSE [calls |-> Append(forest.calls, <<"insert", hashes>>),
          live  |-> forest.live \cup Range(hashes)]

IndexWithout(index, outpoints) == [o \in DOMAIN index \ outpoints |-> index[o]]

IndexWith(index, created) ==
    LET outpoints == {leaf.outpoint : leaf \in Range(created)}
    IN  [o \in DOMAIN index \cup outpoints |->
            IF o \in outpoints THEN CHOOSE leaf \in Range(created) : leaf.outpoint = o
            ELSE index[o]]

----------------------------------------------------------------------------
(* apply_block: staging.                                                   *)

NewState ==
    [utxos |-> EmptyForest, utxo_index |-> [o \in {} |-> o],
     nullifiers |-> [p \in Pool |-> <<>>], tip |-> NoTip]

Contiguous(state, block) == state.tip # NoTip => block.height = state.tip + 1

\* Outputs the block both creates and spends; they never enter the state.
Cancelled(state, block) ==
    (Range(block.transparent_spends) \cap Range(block.transparent_creates))
        \ DOMAIN state.utxo_index

\* Each spend, once, of an indexed output or of one this block creates.
SpendsResolve(state, block, options) ==
    /\ NoRepeat(block.transparent_spends)
    /\ options.allow_unknown_spends
       \/ Range(block.transparent_spends)
            \subseteq DOMAIN state.utxo_index \cup Range(block.transparent_creates)

\* Mutant: the block's own nullifiers are not staged against each other.
NullifiersFreshToTrees(state, block) ==
    \A p \in Pool : Range(block.nullifiers[p]) \cap Range(state.nullifiers[p]) = {}

\* No nullifier is in its pool's tree already, or twice in the block.
NullifiersFresh(state, block) ==
    \A p \in Pool :
        /\ NoRepeat(block.nullifiers[p])
        /\ Range(block.nullifiers[p]) \cap Range(state.nullifiers[p]) = {}

PassesStaging(state, block, options) ==
    /\ Contiguous(state, block)
    /\ SpendsResolve(state, block, options)
    /\ NullifiersFresh(state, block)

----------------------------------------------------------------------------
(* apply_block: mutation.                                                  *)

\* The leaves deleted: the spends that hit the index, in block order.
SpentLeaves(state, block) ==
    LET hits == Filtered(block.transparent_spends, DOMAIN state.utxo_index)
    IN  [i \in DOMAIN hits |-> state.utxo_index[hits[i]]]

\* Mutant: an output the block itself spends is inserted all the same.
CreatedLeavesUncancelled(state, block) ==
    [i \in DOMAIN block.transparent_creates |->
        [outpoint |-> block.transparent_creates[i], height |-> block.height]]

\* The leaves inserted: the creates this block does not spend, in block order.
CreatedLeaves(state, block) ==
    LET kept == Filtered(block.transparent_creates,
                         Range(block.transparent_creates) \ Cancelled(state, block))
    IN  [i \in DOMAIN kept |-> [outpoint |-> kept[i], height |-> block.height]]

Outpoints(leaves) == {leaf.outpoint : leaf \in Range(leaves)}

\* StateDelta.
Delta(state, block) ==
    [height |-> block.height, spent |-> SpentLeaves(state, block),
     created |-> CreatedLeaves(state, block), insertions |-> block.nullifiers]

WithTransparent(state, delta) ==
    [state EXCEPT
        !.utxos      = ForestInserts(ForestDeletes(@, delta.spent), delta.created),
        !.utxo_index = IndexWith(IndexWithout(@, Outpoints(delta.spent)), delta.created)]

\* A mutation can still fail: the forest lacks a leaf, or a tree is full.
ForestHolds(state, leaves) == Range(leaves) \subseteq state.utxos.live

RoomFor(state, block, p) ==
    Len(state.nullifiers[p]) + Len(block.nullifiers[p]) <= NullifierCapacity

Applied(state, block) ==
    [WithTransparent(state, Delta(state, block)) EXCEPT
        !.nullifiers = [p \in Pool |-> @[p] \o block.nullifiers[p]],
        !.tip        = block.height]

\* What apply_block leaves behind when a tree fills up: the transparent half
\* is done, the pools before the first full one too, that one up to its limit.
HalfApplied(state, block) ==
    LET full  == {i \in DOMAIN PoolOrder : ~RoomFor(state, block, PoolOrder[i])}
        first == CHOOSE i \in full : \A j \in full : i <= j
        at(p) == CHOOSE i \in DOMAIN PoolOrder : PoolOrder[i] = p
        taken(p) == CASE at(p) < first -> block.nullifiers[p]
                      [] at(p) = first -> SubSeq(block.nullifiers[p], 1,
                                              NullifierCapacity - Len(state.nullifiers[p]))
                      [] at(p) > first -> <<>>
    IN  [WithTransparent(state, Delta(state, block)) EXCEPT
            !.nullifiers = [p \in Pool |-> @[p] \o taken(p)]]
=============================================================================
