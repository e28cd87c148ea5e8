------------------------------ MODULE Compact ------------------------------
(***************************************************************************)
(* A bridge node that holds the accumulators and serves proof bundles      *)
(* (bundle.rs, zutreexo-bridge/src/lib.rs), and a compact state node that  *)
(* follows the chain with them (zutreexo-csn/src/lib.rs).                  *)
(*                                                                         *)
(* The compact node learns its blocks elsewhere, so block and bundle can   *)
(* be of different branches, and the bridge can move on or restart on      *)
(* another branch between the answer and its use.                          *)
(*                                                                         *)
(* A nullifier tree's root and count commit to the list of its values, so  *)
(* ImtState is that list here; the only insertion proof that verifies for  *)
(* a value against a state is the tree's own (module Imt), so a proof is   *)
(* the list it was made against and the value.                             *)
(***************************************************************************)
EXTENDS ChainState, Utreexo

CONSTANTS
    Block,                  \* the blocks on offer, of every branch
    keep                    \* bundles a bridge retains

ASSUME BlockAssumption == Block \subseteq BlockSummary
ASSUME KeepAssumption == keep \in Nat

VARIABLES
    state, bundles,         \* Bridge; bundles is a map from heights
    csn,                    \* CompactState
    kept,                   \* the compact states kept for a reorganisation, oldest first
    fetched,                \* a bundle the compact node was served and has not used
    served,                 \* ghost: the bridge's chain, with the state after each block
    accepted,               \* ghost: the blocks the compact node's state came from
    truncated               \* ghost: a reload of csn lost the root of an emptied tree

bridge == <<state, bundles, served>>
node   == <<csn, kept, accepted, truncated>>
vars   == <<bridge, node, fetched>>

None == <<>>                \* fetched: no bundle

GenesisForward == [allow_unknown_spends |-> FALSE]

----------------------------------------------------------------------------
(* The bridge.                                                             *)

\* The forest the recorded calls have built.
Forest(chain_state) ==
    LET calls == chain_state.utxos.calls
        built[n \in 0 .. Len(calls)] ==
            IF n = 0 THEN NewForest
            ELSE IF calls[n][1] = "delete" THEN Deleted(built[n - 1], calls[n][2])
            ELSE Added(built[n - 1], calls[n][2])
    IN  built[Len(calls)]

\* One insertion proof per value, each against the tree the one before left.
InsertionProofs(list, values) ==
    [i \in DOMAIN values |-> [tree |-> list \o SubSeq(values, 1, i - 1), value |-> values[i]]]

\* Mutant: the spends are proved after the block has been applied.
BundleProvedAfterwards(chain_state, block) ==
    [height |-> block.height,
     spent |-> SpentLeaves(chain_state, block),
     utxo_proof |-> Proof(Forest(Applied(chain_state, block)), SpentLeaves(chain_state, block)),
     insertions |-> [p \in Pool |->
         InsertionProofs(chain_state.nullifiers[p], block.nullifiers[p])]]

\* The bundle apply_and_prove makes: leaves and proof from before the block.
Bundle(chain_state, block) ==
    [height |-> block.height,
     spent |-> SpentLeaves(chain_state, block),
     utxo_proof |-> Proof(Forest(chain_state), SpentLeaves(chain_state, block)),
     insertions |-> [p \in Pool |->
         InsertionProofs(chain_state.nullifiers[p], block.nullifiers[p])]]

\* Mutant: the newest bundle goes when there are too many.
RetainedOldest(map) ==
    LET newest == Max(DOMAIN map)
    IN  IF Cardinality(DOMAIN map) > keep THEN Restrict(map, DOMAIN map \ {newest}) ELSE map

\* The oldest bundles go until `keep` are left.
Retained(map) ==
    Restrict(map, {h \in DOMAIN map :
                      Cardinality({later \in DOMAIN map : later > h}) < keep})

With(map, height, bundle) ==
    [h \in DOMAIN map \cup {height} |-> IF h = height THEN bundle ELSE map[h]]

\* An output is created once on a chain, once in a block, and not after it
\* was spent: a transaction's id is fresh.
CreatesFreshOutputs(block, earlier) ==
    /\ NoRepeat(block.transparent_creates)
    /\ \A past \in earlier :
           Range(block.transparent_creates)
               \cap (Range(past.transparent_creates) \cup Range(past.transparent_spends)) = {}

\* Bridge::apply.
BridgeApplies(block) ==
    /\ CreatesFreshOutputs(block, {served[i].block : i \in DOMAIN served})
    /\ PassesStaging(state, block, GenesisForward)
    /\ ForestHolds(state, SpentLeaves(state, block))
    /\ \A p \in Pool : RoomFor(state, block, p)
    /\ state' = Applied(state, block)
    /\ bundles' = Retained(With(bundles, block.height, Bundle(state, block)))
    /\ served' = Append(served, [block |-> block, state |-> Applied(state, block)])
    /\ UNCHANGED <<node, fetched>>

StateAfter(length) == IF length = 0 THEN NewState ELSE served[length].state

\* A bridge is built anew from a state of its past; its bundles are gone.
BridgeRestarts(length) ==
    /\ length < Len(served)
    /\ state' = StateAfter(length)
    /\ bundles' = [h \in {} |-> None]
    /\ served' = SubSeq(served, 1, length)
    /\ UNCHANGED <<node, fetched>>

----------------------------------------------------------------------------
(* The compact node: apply_bundle.                                         *)

NewCompactState ==
    [utxos |-> NewForest, nullifiers |-> [p \in Pool |-> <<>>], tip |-> NoTip]

\* One cursor walks the bundle's leaves along the block's spends: a spend is
\* the next leaf's, or else taken for an output of the block itself.
Walked(block, bundle) ==
    LET spends == block.transparent_spends
        claims(walk, o) == walk.cursor < Len(bundle.spent)
                           /\ bundle.spent[walk.cursor + 1].outpoint = o
        walked[n \in 0 .. Len(spends)] ==
            IF n = 0 THEN [cursor |-> 0, cancelled |-> {}]
            ELSE IF claims(walked[n - 1], spends[n])
            THEN [walked[n - 1] EXCEPT !.cursor = @ + 1]
            ELSE [walked[n - 1] EXCEPT !.cancelled = @ \cup {spends[n]}]
    IN  walked[Len(spends)]

\* Mutant: a spend the bundle leaves out is believed to be cancelled.
SpendsClaimedOrBelieved(block, bundle) ==
    /\ NoRepeat(block.transparent_spends)
    /\ Walked(block, bundle).cursor = Len(bundle.spent)

\* Every spend is proved or is of an output the block creates, and every leaf
\* of the bundle is claimed by a spend.
SpendsClaimed(block, bundle) ==
    /\ NoRepeat(block.transparent_spends)
    /\ Walked(block, bundle).cancelled \subseteq Range(block.transparent_creates)
    /\ Walked(block, bundle).cursor = Len(bundle.spent)

InsertionsVerify(compact, block, bundle) ==
    \A p \in Pool :
        bundle.insertions[p] = InsertionProofs(compact.nullifiers[p], block.nullifiers[p])

Accepts(compact, block, bundle) ==
    /\ bundle.height = block.height
    /\ compact.tip # NoTip => block.height = compact.tip + 1
    /\ SpendsClaimed(block, bundle)
    /\ bundle.spent # <<>> => Proves(compact.utxos, bundle.utxo_proof, bundle.spent)
    /\ InsertionsVerify(compact, block, bundle)

\* Mutant: the outputs a block spends itself are added too.
AdditionsUncancelled(block, bundle) ==
    [i \in DOMAIN block.transparent_creates |->
        [outpoint |-> block.transparent_creates[i], height |-> block.height]]

Additions(block, bundle) ==
    LET added == Filtered(block.transparent_creates,
                          Range(block.transparent_creates) \ Walked(block, bundle).cancelled)
    IN  [i \in DOMAIN added |-> [outpoint |-> added[i], height |-> block.height]]

Advanced(compact, block, bundle) ==
    [utxos |-> Modified(compact.utxos, Additions(block, bundle), bundle.spent, bundle.utxo_proof),
     nullifiers |-> [p \in Pool |-> compact.nullifiers[p] \o block.nullifiers[p]],
     tip |-> block.height]

----------------------------------------------------------------------------
\* The node asks for a height and is served what the bridge still has.
Fetch(height) ==
    /\ fetched = None
    /\ height \in DOMAIN bundles
    /\ fetched' = bundles[height]
    /\ UNCHANGED <<bridge, node>>

\* apply_bundle returns Ok; the node keeps a copy of the state it reached.
ApplyBundle(block) ==
    /\ fetched # None
    /\ CreatesFreshOutputs(block, Range(accepted))
    /\ Accepts(csn, block, fetched)
    /\ csn' = Advanced(csn, block, fetched)
    /\ kept' = Append(kept, csn')
    /\ accepted' = Append(accepted, block)
    /\ fetched' = None
    /\ UNCHANGED <<bridge, truncated>>

\* The bundle is refused, or not tried: nothing changes.
Discard ==
    /\ fetched # None
    /\ fetched' = None
    /\ UNCHANGED <<bridge, node>>

\* The node goes back to a state it kept.
Rollback(n) ==
    /\ n < Len(kept)
    /\ csn' = kept[n]
    /\ kept' = SubSeq(kept, 1, n)
    /\ accepted' = SubSeq(accepted, 1, Len(accepted) - (Len(kept) - n))
    /\ UNCHANGED <<bridge, fetched, truncated>>

\* A compact state is written and read back (write_body, read_body), or the
\* node is seeded from the bridge it is in step with (from_roots): either way
\* from the roots shown and the leaf count.
Reloaded(compact) ==
    [compact EXCEPT !.utxos = FromParts(Roots(@), @.leaves)]

Reload ==
    /\ kept # <<>>
    /\ csn' = Reloaded(csn)
    /\ kept' = <<csn'>>
    /\ truncated' = (truncated \/ csn' # csn)
    /\ UNCHANGED <<bridge, fetched, accepted>>

Init ==
    /\ state = NewState /\ bundles = [h \in {} |-> None] /\ served = <<>>
    /\ csn = NewCompactState /\ kept = <<>> /\ accepted = <<>> /\ truncated = FALSE
    /\ fetched = None

Next ==
    \/ \E block \in Block : BridgeApplies(block)
    \/ \E length \in 0 .. Len(served) : BridgeRestarts(length)
    \/ \E height \in DOMAIN bundles : Fetch(height)
    \/ \E block \in Block : ApplyBundle(block)
    \/ Discard
    \/ \E n \in DOMAIN kept : Rollback(n)
    \/ Reload

Spec == Init /\ [][Next]_vars

----------------------------------------------------------------------------
(* Properties.                                                             *)

\* What a full node at chain_state and a compact node in step with it share.
Commitment(chain_state) ==
    [utxos |-> Forest(chain_state), nullifiers |-> chain_state.nullifiers,
     tip |-> chain_state.tip]

\* What either of them shows of it.
Shown(compact) ==
    [roots |-> Roots(compact.utxos), leaves |-> compact.utxos.leaves,
     nullifiers |-> compact.nullifiers, tip |-> compact.tip]

\* A cold replay of a chain.
Replayed(blocks) ==
    LET replay[n \in 0 .. Len(blocks)] ==
            IF n = 0 THEN NewState ELSE Applied(replay[n - 1], blocks[n])
    IN  replay[Len(blocks)]

BundleOf(i) == Bundle(StateAfter(i - 1), served[i].block)

\* What the compact node holds commits to a cold replay of exactly the blocks
\* it accepted, whatever bundles it was served, from whichever branch
\* (tests/reorg.rs, tests/lockstep.rs).
NodeMatchesColdReplay ==
    LET replayed == Replayed(accepted)
    IN  /\ csn.nullifiers = replayed.nullifiers
        /\ csn.tip = replayed.tip
        /\ UNION {DOMAIN csn.utxos.roots[i] : i \in DOMAIN csn.utxos.roots} = replayed.utxos.live
        /\ ~truncated => csn = Commitment(replayed)

\* A node in step with the bridge accepts the bundle of the bridge's next
\* block, and is in step with the bridge again.
NodeFollowsBridge ==
    \A i \in DOMAIN served :
        csn = Commitment(StateAfter(i - 1)) =>
            /\ Accepts(csn, served[i].block, BundleOf(i))
            /\ Advanced(csn, served[i].block, BundleOf(i)) = Commitment(served[i].state)

\* The bundles retained are those of the newest blocks, without a hole, so a
\* node that keeps within `keep` blocks of the tip is always served.
BundlesAreTheNewest ==
    /\ Cardinality(DOMAIN bundles) <= keep
    /\ \A h \in DOMAIN bundles :
           /\ h <= state.tip
           /\ h < state.tip => h + 1 \in DOMAIN bundles
           /\ \E i \in DOMAIN served : served[i].block.height = h /\ bundles[h] = BundleOf(i)

\* utreexo.rs: "a *correct* seed is immediately usable".  A node that shows
\* what the bridge shows can follow it.
SeededNodeFollows ==
    \A i \in DOMAIN served :
        Shown(csn) = Shown(Commitment(StateAfter(i - 1))) =>
            /\ Accepts(csn, served[i].block, BundleOf(i))
            /\ Shown(Advanced(csn, served[i].block, BundleOf(i)))
                 = Shown(Commitment(served[i].state))

\* The node accepts valid chains only, with no outpoint index and no tree:
\* what it has accepted is a ledger.
Ledger == INSTANCE Ledger WITH Blocks <- Block, Pools <- Pool,
                               chain <- accepted, tolerant <- FALSE
NodeImplementsLedger == Ledger!Spec
=============================================================================
