# A TLA+ model of ztreexo

ztreexo keeps the state a Zcash validator needs -- which nullifiers have been
revealed, which transparent outputs are unspent -- in accumulators small enough
that a *compact state node* can follow the chain from a few hashes, helped by a
*bridge node* that holds everything and ships proofs.  This directory models
the parts of the program whose correctness is not obvious from the text,
checks the models with TLC on small instances and proves the main results with
TLAPS.  All paths below are relative to the repository.

## 1. Inventory

| Component | State | Operations | Correct when |
|---|---|---|---|
| Indexed Merkle tree, `zutreexo-accumulator/src/imt.rs` | leaf vector, value index, sparse map of inner digests | `insert`, `undo_insert`, `from_values_bulk`, `rebuild_root`, `prove_non_membership`; `verify_*` for holders of a root and a count | the leaves are one sorted linked list; the digests are those of the leaves; absence can be proved for absent values only; an undo leaves a tree that never saw the value |
| Block application, `zutreexo-chain/src/block_apply.rs`, `pool.rs` | a tree per pool, the UTXO forest, an index from outpoint to leaf, the tip | `apply_block`: stage everything, then mutate | no double spend, no double reveal; index and forest describe the same outputs; an error changes nothing |
| Rollback journal, `zutreexo-chain/src/rollback.rs` | snapshots and deltas, oldest first | `record` (with `prune`), `rollback_to` | a rolled-back state equals a cold replay; the journal reaches far enough back and stays bounded |
| Transparent forest, `zutreexo-accumulator/src/utreexo.rs` | rustreexo's forest; for a compact node, roots and a leaf counter | `insert`, `delete`, `apply`, `prove`, `verify`, `from_parts` | roots and leaf counter of both sides agree |
| Proof bundle, `zutreexo-chain/src/bundle.rs` | none | `apply_and_prove`, a byte codec | proofs are taken against the state before the block |
| Compact state node, `zutreexo-csn/src/lib.rs` | an IMT state per pool, UTXO roots, tip | `apply_bundle`, `from_roots`, a codec | it accepts exactly what the bridge applied and stays in step with it |
| Snapshot store, `zutreexo-chain/src/store.rs` | one file and its temporary | `save`, `load` | after a crash the old or the new snapshot loads |
| Bridge, `zutreexo-bridge/src/{lib,server,limits,wire}.rs` | accumulators, the last `keep` bundles, a token bucket per peer | `apply`, `bundle`, `allow_at`, `serve` | retention is a window ending at the tip; limits bound work without starving peers |
| Byte formats, `proof.rs`, `bundle.rs`, `store.rs`, `zutreexo-csn/src/lib.rs`, `wire.rs` | none | an encoder and a decoder per message | decoding inverts encoding, refuses what is not canonical where that is promised, and allocates no more than the input pays for |
| Cohort and sorted commitments, `cohort.rs`, `sorted.rs` | none | build and prove over a finished set; verify and resolve at the wallet | every value with the prefix is settled, and no short answer settles one wrongly |
| Shadow follower, `zutreexo-testkit/src/shadow.rs`, `bin/shadow.rs` | history of applied blocks with compact states, a snapshot | poll, detect a fork, unwind, replay | follows a node that reorganises at any moment |
| Differential harness, `harness.rs`, `state.rs`, `naive.rs`, `checkpoints.rs` | implementation and oracle side by side, a report | `replay` in three tiers, `load_repro` | silent on correct code, and never silent on a fault |
| Reorg fuzzer, `reorg.rs` | accumulators, journal, its own chain | grow, roll back, compare | the same |
| Block stream and genesis replay, `source.rs`, `bin/genesis_replay.rs` | a window of fetched blocks; snapshot files | fetch in threads, hand out in order, apply, save, resume | every height once and in order |
| RPC client, block extraction, vectors, measurement binaries, fuzz targets | -- | I/O, parsing and reporting | section 6 |

**Interactions.**  The bridge calls `apply_and_prove`, which resolves the
block's spends against the state *before* it, proves them, calls `apply_block`
and packs the insertion proofs the trees return.  The compact node replays the
bundle with `verify_insertion` and a batch UTXO proof.  The journal is driven
by whoever owns the accumulators: `record` after every `apply_block`,
`rollback_to` when the chain reorganises.  The shadow follower owns a bridge's
accumulators and a compact node and rewinds both, the one from a snapshot, the
other from its history.  The server owns a bridge and answers one connection
at a time.  No state is shared between threads (the block stream's threads
return their parts); what makes the code hard is

* *order*: the low leaf is rewritten before the new leaf's siblings are read;
  values are undone newest first; deletions precede insertions; spends are
  looked up in the index before the block's own outputs;
* *state kept twice*: leaf vector, index and digests in a tree; forest and
  index in the accumulators; journal and accumulators; bridge and compact node;
* *the middle of an operation*: a failure after the first mutation of a block
  or of a rollback; a crash between two file system calls; a node that
  reorganises between two RPCs;
* *limits*: the last free leaf, pruning exactly to a horizon, retention, rate
  limits, time limits that add up;
* *the other side*: a node that moves between two questions, a peer that
  stalls, an answer that is short, an encoding that was damaged.

`PROJECT.json` lists each hazard at its line with the properties that would
notice it.

## 2. What is modelled

### Accumulator

`MerklePath.tla` -- the tree as a sparse map of digests: `Siblings`,
`RootFromPath`, `WriteLeaf` (`write_leaf`), `ClearLeaf` (`clear_leaf`).  A
digest is the term that was hashed, so two digests are equal exactly when
their preimages are: BLAKE2b personalised per pool and role is taken to be
injective.  Nodes equal to the digest of an empty subtree are absent from the
map after `ClearLeaf`, as in the code, so two trees can be equal as sets of
leaves and differ as data; that they do not is a property (`TreeIsCanonical`).

`Imt.tla` -- `leaves`, `index_by_value` and `nodes` are the three fields of
`IndexedMerkleTree`; actions `Insert(v)` and `UndoInsert(v, proof)`.  The undo
is offered every proof that passes the checks of `undo_insert`, whether or not
it is the proof the insertion returned.  `InsertionAccepted` and `StateAfter`
are `verify_insertion`; `BulkTree` and `RebuildRoot` the two bottom-up
constructions, recursive functions over levels.  Calls that return an error
change nothing and are no steps.

`NullifierLog.tla` -- what callers rely on: a bounded sequence without
repetition, appended to and taken back from at its end.  `Imt` implements it
(`ImplementsLog`), and that is why the chain modules below may hold a tree as
the list of its values.

`Cohort.tla` and `Sorted.tla` (which extend `Imt`) -- the prefix queries of
`cohort.rs` and `sorted.rs`, evaluated on every tree `Imt` reaches.  `Covering`
is the bucket of a value at a prefix width; `ProvePrefixCohort` gathers its
leaves and the one below them and leaves out the digests a verifier computes
(`DedupPaths`); `CohortFold` and `Resolve` are the wallet's side.  `Sorted`
commits to the ascending values themselves, answers with a contiguous run
(`ProveSortedCohort`), and its verifier checks that the run spans the bucket
(`SpansRange`), because its `resolve` looks for no gaps.  What a bridge states
and the root does not commit to is the bridge's to choose: `Claiming` puts any
leaf count on a run, and the runs of `Sorted` are tried under every count the
verifier lets pass; a cohort with leaves at indices beyond the tree's width is
the subject of `CohortsNeverMislead`, not of the runs.  A cohort is
read at the tree's own depth: no digest of a leaf is one of a node, so a fold
of another depth does not end in the root.  A run states its depth, and
`RunsNeverMislead` takes any.

### Chain

`ChainState.tla` -- the accumulators as a record `[utxos, utxo_index,
nullifiers, tip]` and `apply_block` as operators on it: staging
(`PassesStaging`, one conjunct per pass), the delta, the mutation (`Applied`),
and the mutation cut short by a full tree (`HalfApplied`).  The forest is the
sequence of calls made to it with the leaves it holds: rustreexo is
deterministic, so equal call sequences mean byte-identical forests, which is
the equality `rollback_to` promises.  A leaf is its outpoint and the height it
was created at.  Note commitments, which the code only counts, are left out.
The knob `enforce_contiguous` is TRUE wherever blocks of a chain are applied
(`Contiguous`).  Two callers set it to FALSE, and their models need no knob:
`load_repro` applies one block to a new state, which has no tip to be contiguous
to, and the fragment of the fuzzer's leftover faults is at the height of the tip
(`FragmentApplies` in `Reorg` asks for what is left of the staging).

`Chain.tla` -- a follower that applies blocks, records each in its journal and
rolls back at will.  `ApplyBlock`, `ApplyBlockFails` and `Record` are single
steps; `rollback_to` is one step per block undone (`UndoDelta`), one for the
snapshot (`RestoreSnapshot`), one per block replayed (`ReplayDelta`) and one
to settle (`FinishRollback`).  An error the code could return in the middle is
a disabled step, and `RollbackNeverFailsMidway` says the step is enabled.
`history` and `recorded` are ghosts: the active chain with the state after
each of its blocks, and the heights ever recorded.  After `ApplyBlockFails`
the follower stops, as the callers in the repository do.

Assumed of the environment: a block's outputs are new on its chain
(`CreatesFreshOutputs`; a transaction id commits to its inputs, and the code
relies on it by keying the index with outpoints); the journal is used as its
doc asks (record after every apply).

`Ledger.tla` -- no accumulators, only the blocks: a block extends the chain if
it spends outputs created and unspent on it and reveals nullifiers not
revealed on it; a reorganisation removes the newest blocks.  `Chain` implements it.

### Bridge and compact node

`Utreexo.tla` -- rustreexo's forest as `utreexo.rs` uses it.  A tree is the
function from its leaves to their paths, which is what its root hash commits
to; deleting a leaf moves its sibling up, a tree without leaves is `EMPTY`,
and adding leaves merges the last trees the leaf counter says exist.  `Proof`
and `Proves` are a batch proof and its check, `Modified` the roots-only update,
`Roots` and `FromParts` the two ends of every transfer of roots.  A proof names
the trees it reaches but not their rows, so the model's verifier accepts a
proof against the same tree in another row where rustreexo would refuse it:
safety is checked of a node that accepts more.

`Compact.tla` -- `BridgeApplies` is `Bridge::apply` with `apply_and_prove` and
the retention of `keep` bundles; `BridgeRestarts` builds a bridge on an earlier
state, from which it may take another branch, with no bundles.  `Fetch` answers
a request, `ApplyBundle` is `apply_bundle` when it returns Ok (its checks are
`Accepts`, its cursor `Walked`), `Discard` stands for every refusal: a refused
bundle changes nothing.  The block and the bundle come from different sources
and need not be of one branch, and anything may happen between the answer and
its use.  `Rollback` returns to a kept state as the shadow follower does;
`Reload` writes and reads the node's state, which is also what seeding it from
a bridge in step amounts to.  A nullifier tree is the list of its values, and
an insertion proof that list and the value: `AcceptedInsertionIsCanonical`
(module `Imt`) is what makes that no restriction.  Bundles are honest, made by
a bridge on some branch.  Both sides assume fresh outputs, as `Chain` does.

### Snapshot store

`Store.tla` -- `save`, one action per system call: `CreateTemp`, `Write` (a
piece at a time), `SyncFile`, `Rename`, `SyncDirectory`, with `SaveFails` for a
call that returns an error and `DirectoryNotSynced` for the last one, whose
error the code drops.  `dirs` is the sequence of directories from the one on
the disk to the one processes see; `files` has, per file, the pieces written
and the pieces on the disk.  `PowerLoss` keeps any one of the directories and
any prefix of each file between the two marks, `Killed` loses the process only,
`Resume` is `load`.  A state is its tip, since `encode` and `decode` are
conversions and a file is a state with all its pieces, or nothing.  There is
one writer and one path, which is how the binaries use it.

`SnapshotFile.tla` -- a register that is replaced as a whole, with the set of
values a loss of power may leave.  `Store` implements it.

### Byte formats

`Codec.tla` -- one writer and one reader for every format of the repository:
cells (a byte, an integer or a hash, whatever a format never splits), varints,
dense and sparse paths, byte strings, tagged choices, and counted lists with
the check of the count.  A read returns where it ended, what it read, and the
largest reservation it made.  Widths are reduced: an index has three bits, a
varint group two, a bitmap cell three.

`WireFormats.tla` -- the eleven message kinds as sequences of fields, and what
their encoders and decoders do beyond the fields: the delta coding of node and
leaf indices, the order of pools, the alignment of a prefix, the header of a
utreexo proof, the tree rebuilt from a snapshot.  The state is an encoding on
its way; `Cut`, `Change` and `Extend` damage it.

### Shadow follower

`Shadow.tla` -- the loop of `bin/shadow.rs` and `unwind`, one action per RPC,
with a node that moves to any of its branches, goes away or comes back between
any two of them.  A chain is the sequence of its blocks; the accumulators are
the blocks applied, which modules `Chain` and `Compact` show to determine
both.  The compact node rewinds by taking a kept state, the bridge by
rebuilding from the snapshot with the blocks the node has *now*.  `mixed`, a
ghost, remembers that two answers used together came from two branches: the
code cannot notice that when the block still applies.

### Server

`RateLimiter.tla` -- the token buckets, exact in units of a token's fraction;
`crowd`, a ghost, is the set of other addresses seen since an address's last
request.  `Server.tla` extends it with the one thread: accept, ask the limiter,
read headers, read the body, answer, close, with the socket buffers of the
connection being served and a peer that sends, closes and reads as it likes.
`left` is what remains of `serve_with`'s `limit`, counted down by every
connection, the refused ones included; `Endless` stands for `usize::MAX`.
`Return` is the end of the loop and `AcceptFails` the `?` after `accept()`
(`server.rs:107`): both end the server with peers still waiting.  `ReadEnd` is
the end of the stream: an error in the headers, while in the body it ends the
loop whatever the deadline says, and `Respond` answers what came if that
decodes, for nothing compares it with `Content-Length`.  A request therefore
names every length at which its body decodes.  Bytes after the declared length
are cut off (`Body`).  `Tick` is a unit of time in a blocking call.

### Test kit

`NaiveOracle.tla`, `Harness.tla` -- `replay()`: a block, corrupted or not, goes
to `ChainState` and to the oracle; counts, roots and checkpoint totals are
compared; a divergence may leave a repro, and `ReplaySeed` is the corpus runner
on it (`HarnessSpec`).  `Reorg.tla` extends `Chain`: the fuzzer grows and rolls
back through the very actions of the journal, keeps its own chain, plants the
three faults and compares (`RunSpec`).  `generate()` names what it makes up by
height, branch and number, and so does the model (`Named`); `AlteredName` is the
nullifier `AlteredHistory` puts in a name's place, unlike any other.
`Replayer.tla` -- `BlockStream` with its threads, each fetch a step, and the
replay around it: snapshots, kills, memory ceiling, resumes (`ReplaySpec`).
`MCTestkit` puts the three side by side; in a behaviour one of them runs, from
any of its initial states, and the others stay in one of theirs.

## 3. What the runs show

| Run | Instance | Distinct states | Shows |
|---|---|---|---|
| `imt` | depth 2 (3 values fit), all 7 values of three bits, prefixes of 1 and 2 bits | 260 | `SortedListWithoutGaps`, `TreeIsCanonical`: undone and redone in any way, the tree is the one built from its values; `NonMembershipIsExact`; `CompactStateFollows` and `AcceptedInsertionIsCanonical`: a holder of root and count follows, and accepts no other proof; `ImplementsLog`; `CohortSettlesEveryValue`, `ShortCohortNeverMisleads`, `SortedAgreesWithCohort`, `RunsMisleadOnlyPastTheirEnd` for the two prefix queries |
| `wire` | 20 messages of 11 kinds, damaged up to twice | 165,281 | `EncodingsRoundTrip`, `OneEncodingEach` for the formats that promise it, `ReservationsFitTheInput` |
| `chain` | 9 payloads at heights 1-6 in 2 pools with trees of 3, genesis-forward and window mode; 3 payloads at heights 0-9 with five `(interval, max_depth)` settings | 313,725 | `MatchesColdReplay`, `IndexMatchesForest`, `UtxosAreTheUnspentOutputs`, `ImplementsLedger`; `ReachIsKept`, `JournalIsBounded`, `RollbackNeverFailsMidway` |
| `compact` | 6 payloads at heights 1-4 over 6 outputs, `keep` 2 | 55,080 | `NodeMatchesColdReplay` (the node holds the commitment of a cold replay of what it accepted), `NodeFollowsBridge`, `BundlesAreTheNewest`, `NodeImplementsLedger` |
| `store` | tips 0-3, up to 5 directory changes not on disk | 580,803 | `ImplementsSnapshotFile` (never a partial file), `ConfirmedSnapshotIsKept` |
| `shadow` | 3 branches of up to 4 blocks, 3 moves, a history of 2 | 181,812 | `HistoryRewindsBothSides`, `OneBranchUnlessMixed`, `CatchesUp` |
| `server` | 3 peers, 2 tracked, 6 kinds of request, timeouts of 1 and 2 ticks, a limit of 2 connections and none | 484,831 | `BusyTimeIsBounded`, `AnsweredBodiesAreWholeOrEnded`, `OnlyCrowdedOutPeersAreForgotten`, `EveryoneIsAccepted`: whoever waits is accepted unless the server ends |
| `testkit` | 24 slices of 3 blocks under 312 configurations; chains of 3-5 blocks, 2-3 reorganisations, 3 faults; windows of 3 on 2 threads | 145,056 | `NoFalseAlarm`, `FaultsAreCaught`, `SeedsReproduce`; `NoFalseDivergence`, `PlantedFaultsAreCaught`; `EveryHeightOnceInOrder`, `ReplayEnds` |
| `full_tree` | as `chain` | | finding 1 |
| `seed` | as `compact` | | finding 2 |
| `bare_name` | as `store`, no directory in the path | | finding 3 |
| `sorted_top` | as `imt` | | finding 4 |

**Why the bounds are enough.**  *`imt`*: depth 2 with more values than leaves is
the smallest tree in which the capacity limit is met with values left over; a
low leaf can be the new leaf's sibling or in the other half, and clearing a
leaf empties one ancestor or two.  Three-bit values give every bucket of one
and two bits: empty ones, full ones, the lowest and the topmost, and a run of
one of them is tried under every leaf count that the verifier does not refuse as
too large for its depth.  *`wire`*: the
messages have empty and full lists, indices of one and of two groups, levels
that change, paths with and without empty subtrees, both pools, both tips; two
changes reach a count and the entry it miscounts, a repeated key, or an index
beyond its width.  *`chain`*: the nine payloads contain each conflict
`apply_block` distinguishes -- a spend of an indexed, of an own, of an unknown
and of a spent output, a double spend and a double reveal within a block, a
reveal again, one nullifier in two pools, a block that overfills a tree -- and
six heights let two branches with a common prefix alternate around a snapshot.
The settings are interval 0, interval above `max_depth`, `max_depth` 0, and
intervals that do and do not divide it; ten heights let the largest of them
prune.  *`compact`*: five outputs make a forest of a tree of four and a tree of
one, the smallest in which one tree can be emptied while another remains, and
the sixth output is then merged over the hole; the payloads spend from either
tree, spend an output of their own, and include two that differ only in a
spend, so that a bundle of the one can be tried with the other.  Four heights
exceed `keep`, and let the bridge restart twice.  *`store`*: five pending
changes allow two whole saves to be in flight with neither on the disk, and a
third begun.  *`shadow`*: three moves are enough to leave a branch, leave the
next one in the middle of an unwind, and come back; one fork lies within the
history of two and one beyond it; the run is resumed from nothing, from the
common genesis and from above a fork.  *`server`*: two tracked addresses and a
third evict each other; the requests are one that is answered in several
writes, an answer too large, one that does not decode, a body and headers that
are too large, and one that decodes after half of its declared length; a
deadline of two read timeouts can pass between reads, and a limit of two
connections leaves the third peer waiting.
*`testkit`*: a slice spends an output of its own block, one of an earlier
block and one from before the window, repeats a nullifier, and fills a pool;
root checks run never, always and every second block, so that the last block
of three is not due by count; the fuzzer's last of three iterations is not due
by count either, and its journal is given the least depth of 1 where the code
has 8, so that on short chains it prunes; the windows of three on two threads have parts of different
length and ends inside and at the end of a range.

Every bound is a constant of the module or of the MC module it belongs to:
`LastHeight`, `MaxTip`, `MaxPending`, `MaxDamage`, `MaxMoves`, `MaxHeight`, and
the block sets.  Deadlock is not checked where the system stops by itself: a
follower after a failed block or without a block that applies (`chain`), a run
that is done (`shadow`, `testkit`), a server that has returned or
failed (`server`), an encoding that is not damaged further
(`wire`).

**Fairness.**  *Shadow*: `WF_vars(Follower)` -- the loop of `main` goes on until
it returns; nothing is assumed of the node but, in the property itself, that
it settles on answering in the end (`MaxMoves` makes it settle on a branch).
*Server*: `WF_vars(Serve)` and `WF_vars(Tick)` -- the thread runs when a call
can return, and time passes while it is blocked; no peer is obliged to send,
read, close or connect, and `accept` is not obliged to fail.  `EveryoneIsAccepted`
therefore ends with the server: `limit` connections are handled and no more, and
an `accept` that returns an error is the end of the loop, although "One bad
connection must not take the server down" (`server.rs:114`) is said of what
follows it.  *Replayer*: weak fairness of `Progress` -- the threads
and the loop run, and a fetch returns, with a block or an error.  `RpcSource`
sets no timeout on its socket, so the last point is a promise of the node's,
in `shadow` and `testkit` alike.  The other modules assume no fairness: they
are called and schedule nothing.

A compact node that has been reloaded once a tree was empty (`truncated`) is
exempt from the byte-for-byte half of `NodeMatchesColdReplay`: that is
finding 2.  `OneBranchUnlessMixed` and `CatchesUp` exempt a follower that was
told of two branches at once (`mixed`); see the notes below.

### Findings

1. *A full tree fails a block in the middle* (`full_tree`,
   `FailedBlockLeavesState`).  `apply_block` says "On any error the
   accumulators are left exactly as they were" (`block_apply.rs:203`).  The
   staging pass does not ask whether the trees have room, so the `insert` at
   `block_apply.rs:344` can return `CapacityExhausted` with the transparent half
   applied and earlier nullifiers inserted.  At the default depth this takes
   more nullifiers than Zcash has; at the small depths the tests use it is
   ordinary.
2. *Roots of emptied trees are dropped* (`seed`, `SeededNodeFollows`).
   `roots()` is documented as "one per perfect tree in the forest"
   (`utreexo.rs:345`) but leaves out the trees all of whose leaves are spent.
   `CompactState::from_roots` and the compact codec put the rest back next to
   the full leaf counter, and the next output is merged with the wrong tree.
   The bridge's own snapshot is not affected: it serialises the forest.
3. *A bare file name is never made durable* (`bare_name`,
   `SavedSnapshotIsKept`).  The parent of `zutreexo-100.snap` is the empty path,
   which does not open, so the directory is not synced although `store.rs:374`
   says it is.  The same happens, rarely, when the sync fails.

4. *The topmost bucket of a sorted commitment can be cut short* (`sorted_top`,
   `VerifiedRunIsComplete`).  A verified run "spans the entire prefix range ... A
   bridge cannot omit a member" (`sorted.rs:325-329`).  For the range without an
   upper bound every end counts as past it (`sorted.rs:367`, `None => true`), so
   a run without its last members verifies against the true root, and `resolve`,
   which relies on completeness, calls a spent value unspent. Finding 4 is the
   case in which the run states the snapshot's own leaf count; the notes have
   the other.

### Notes on the code

Met while modelling; each is how the models behave, and no property claims
otherwise.

* A bucket of a sorted commitment can be cut short below the top, too.  A run
  that ends with the tree need not go past its range (`sorted.rs:364`), and where
  the tree ends is `leaf_count`, a field of the answer (`proof.rs:669`) that the
  root does not commit to.  A run of any bucket without its last members verifies
  when it claims that nothing follows, with the same wrong "unspent", although
  the field is there so that the verifier can tell the two ends apart
  (`sorted.rs:297-298`).  What remains true: up to its last value a run that
  verifies never misleads, past it only here and in finding 4
  (`RunsMisleadOnlyPastTheirEnd`, whose last disjunct names the two).
* A cohort can carry a leaf that is not in the tree.  The verifier compares
  position 0 of the top level with the root (`cohort.rs:412`); a leaf at an index
  of `2^depth` or more folds to another position, which nothing looks at, and is
  handed to `resolve` with the rest.  No index is bounded, by the verifier or by
  the decoder, so that a `Spent` can be answered without "a leaf holding `value`,
  which must fold to the trusted root" (`cohort.rs:441-442`).  A leaf at one of
  the tree's own indices is the tree's (`CohortsNeverMislead`).
* A body its peer ends early is answered.  `read_request` is to "Read until the
  header terminator, then exactly `Content-Length` more" (`server.rs:123`), but
  leaves the loop at the end of the stream (`:180-182`), without a look at the
  deadline, and what came is decoded as it is (`:59`).  What does hold is that a
  body cut off by a timeout is never answered (`AnsweredBodiesAreWholeOrEnded`).
* Leftovers of the reorg fuzzer are noticed by its cheap tier.  "Nothing but the
  byte-for-byte comparison against a cold replay can notice" any of the planted
  faults, says the doc of `ReorgFault` (`reorg.rs:169-170`), and a comment of the
  tests asks for `NotColdReplay` (`tests/reorg_fuzz.rs:133-134`).  That is true of
  an altered history; a leftover nullifier or output is one entry too many and
  ends the run with a `CountMismatch` in the iteration that planted it, as
  `PlantedFaultsAreCaught` states and the tests' own assertion has it.
* A journal is "able to roll back at least `max_depth`" blocks
  (`rollback.rs:157`).  It reaches `max_depth` below the highest block it has
  recorded (`ReachIsKept`); after a rollback without growth that is less than
  `max_depth` below the tip.
* The shadow follower compares the hash of its tip with the node, but not the
  parent of the next block.  A node that moves between that check and the
  fetch, or a resumed tip, which is not in the history (`bin/shadow.rs:319`),
  is extended across branches; if the block applies, nothing notices until a
  count differs.  `genesis_replay` near the tip has no check at all.
* An unreachable node ends the run when it is met during an unwind
  (`shadow.rs:173`, `:207`), while the loop's comment says that it "is not a
  divergence" (`bin/shadow.rs:302`).
* A full bucket and a minute's refill allow about twice `requests_per_minute`
  within one minute.
* The write timeout is per call: the time one peer can hold the thread grows
  with the answer (`BusyTimeIsBounded`).
* `read_varint` keeps the low 64 bits of a ten-byte varint instead of refusing
  the rest; the unused bits of a sparse path's bitmap are ignored, and a flag
  of a snapshot is any byte but zero.  The formats in question have more than
  one encoding per message, which is why `OneEncodingEach` leaves them out.
* When both sides reject a block the harness stops, and the roots after the
  last accepted block are not compared although "the final block always gets a
  root check" (`harness.rs:365`).  A repro written under
  `root_check_every > 1`, or without `allow_unknown_spends`, may be inert when
  it is replayed alone, and tier 3 leaves none: hence the premises of
  `SeedsReproduce`.
* An altered history "persists rather than being undone next iteration"
  (`reorg.rs:522-523`) unless a later target undoes the altered block between
  two cold replays; the property asks for the detection of what is still there.

## 4. What is proved

Theorems are proved with TLAPS for every value of the constants, from the
assumptions named in the modules; they are in the eight modules below.  Each
invariant was first checked by TLC on the instance of its run, in so far as its
sets are finite, and in all of them the inductive invariant is a conjunction of
named parts, with one lemma per action.

| Module | About | Theorems, and the properties they state |
|---|---|---|
| `Numbers` | natural numbers: least and greatest members, multiples, `UpTo` (what holds at 0 and passes on holds up to n), `Recursion` (a recursive function over `0 .. n` exists and obeys its equation) | lemmas only |
| `ImtProofs` | `Imt`, with the hash tree of `MerklePath`, and the queries of `Cohort` and `Sorted` | `TypeCorrect`; `SortedList` (`SortedListWithoutGaps`); `TreeImplementsLog` (`ImplementsLog`); `NonMembershipIsAlwaysExact` (`NonMembershipIsExact`); `AbsenceCannotBeForged`; `CompactStateAlwaysFollows` (`CompactStateFollows`); `AcceptedInsertionsAreCanonical` (`AcceptedInsertionIsCanonical`); `InsertionCannotBeForged`; `TreeIsAlwaysCanonical` (`TreeIsCanonical`); `CohortsSettleEveryValue` (`CohortSettlesEveryValue`); `ShortCohortsNeverMislead` (`ShortCohortNeverMisleads`); `CohortsNeverMislead`; `SnapshotsAgree` (`SortedAgreesWithCohort`); `SnapshotRunsMisleadOnlyPastTheirEnd` (`RunsMisleadOnlyPastTheirEnd`); `RunsNeverMislead` |
| `ChainStateProofs` | the operators of `ChainState` and `Iterators`: what a block does to a state; lists | lemmas only |
| `ChainProofs` | `Chain`, and `Reorg`, which extends it | `ChainInvariant`; `FollowerMatchesColdReplay` (`MatchesColdReplay`); `IndexAlwaysMatchesForest` (`IndexMatchesForest`); `UtxosAreAlwaysTheUnspentOutputs` (`UtxosAreTheUnspentOutputs`); `RollbackAlwaysRunsThrough` (`RollbackNeverFailsMidway`); `ReachIsAlwaysKept` (`ReachIsKept`); `JournalIsAlwaysBounded` (`JournalIsBounded`); `FollowerImplementsLedger` (`ImplementsLedger`); `FuzzerInvariant`; `NothingFalselyDiverges` (`NoFalseDivergence`); `PlantedFaultsAreAlwaysCaught` (`PlantedFaultsAreCaught`) |
| `CompactProofs` | `Compact`, with the operators of `Utreexo` | `CompactInvariant`; `NodeAlwaysMatchesColdReplay` (`NodeMatchesColdReplay`); `NodeAlwaysFollowsBridge` (`NodeFollowsBridge`); `BundlesAreAlwaysTheNewest` (`BundlesAreTheNewest`); `NodeImplementsTheLedger` (`NodeImplementsLedger`) |
| `TestkitProofs` | `Shadow`, `Replayer`, `Harness` | `ShadowInvariant`; `HistoryAlwaysRewindsBothSides` (`HistoryRewindsBothSides`); `OneBranchIsFollowed` (`OneBranchUnlessMixed`); `ReplayInvariant`; `HeightsComeOnceInOrder` (`EveryHeightOnceInOrder`); `HarnessInvariant`; `NothingDivergesUnprovoked` (`NoFalseAlarm`); `FaultsShow` (`FaultsAreCaught`); `ReprosDiverge` (`SeedsReproduce`) |
| `StoreProofs` | `Store` | `StoreInvariant`; `ConfirmedSnapshotIsAlwaysKept` (`ConfirmedSnapshotIsKept`); `StoreImplementsSnapshotFile` (`ImplementsSnapshotFile`) |
| `ServerProofs` | `Server`, `RateLimiter` | `ServerInvariant`; `ForgottenOnlyWhenCrowdedOut` (`OnlyCrowdedOutPeersAreForgotten`); `AnswersAreToWhatCame` (`AnsweredBodiesAreWholeOrEnded`); `BusyTimeIsAlwaysBounded` (`BusyTimeIsBounded`) |

**The tree** (`ImtInv`).  The sorted list is not inductive by reachability
along links, so the invariant is local: values at different positions differ,
the index is the inverse of the leaf vector, each leaf's `next_value` is the
value at its `next_index`, is larger (or ends the list), and no value lies
between the two.  `Insert` splits one such interval; the new leaf inherits the
upper half.  `UndoInsert` merges the last leaf's interval into its
predecessor's: from the checks it makes -- the value is the last leaf's, the
given low leaf links to it once spliced, the last leaf is what `insert` would
have appended -- it follows that the proof is the one `insert` returned,
whatever its origin.  The digests do not enter: the operators of `MerklePath`
are hidden from these proofs, so they hold whatever the hash function does.

**The hash tree** (`DigestInv`).  On top of that, the sparse node map is the
Merkle tree over the leaves (`MerkleMap`): it holds exactly the positions above
some leaf, a leaf position holds the hash of its leaf and an inner one the hash
of its two children, an absent one standing for the empty subtree.  That
`write_leaf` keeps this needs the new leaf to be the next one or an old one
(`WriteLeafMerkle`), that `clear_leaf` does needs it to be the last
(`ClearLeafMerkle`): then a digest on its way up is that of an empty subtree
exactly where no leaf is left.  The verifiers are about this tree.  A leaf's own
siblings hash to the root (`HonestPath`), and since digests are terms, siblings
of the right number that hash to the root from any leaf digest at any position
are the tree's own, and the digest is the one at that position
(`OnlyHonestPaths`); `check_path` fixes the number.  So a leaf that passes is a
leaf of the tree, and one that brackets a value proves it absent by the sorted
list.  `verify_insertion` checks the low leaf against the old root and the empty
leaf against the root with the low leaf rewritten, which is the root of the map
in the middle of `insert`; the second pins the siblings the new root is computed
from.  The two theorems named `...CannotBeForged` say so of arbitrary siblings,
where the runs enumerate paths of the tree.  `TreeIsCanonical` is then
uniqueness: the tree that `BulkTree` builds satisfies the same equations
(`FoldIsTheTree`), over the links that sorting the values yields
(`SortingFindsTheLinks`).

**The prefix queries.**  They need no invariant beyond `DigestInv`: every tree
the program reaches answers rightly.  A verifier's fold knows, at each level,
the positions above its leaves.  Upwards, each of them holds the tree's digest
when the leaves and the fringe are the tree's (`HonestFold`): a child is below,
or was sent, or is an empty subtree, and `DedupPaths` leaves out no other
(`DedupIsTheFringe`).  Downwards, when the fold's top is the root, each known
position holds the tree's digest, because digests are terms
(`OnlyHonestFolds`); so the leaves of whatever verifies are the tree's, each at
its place (`VerifiedLeavesAreTheTrees`).  What leaves of the tree settle is true
(`LeavesSettleTruly`), for `resolve` answers "unspent" only from a leaf that
brackets the value; and the cohort of a prefix settles everything
(`CohortsSettle`), for the leaf that brackets an absent value of the bucket
either is in it or is the greatest below it.  `CohortsNeverMislead` is about
any cohort whatever, with leaves at any indices, since neither the verifier nor
the decoder bounds them: of one that verifies, the leaves at the tree's own
indices (`WithinTheTree`) are the tree's and settle nothing wrongly.  With a leaf
beyond them the conclusion would be false (section 3, notes); that there is
none is what a wallet needs besides the root and the gap check of `resolve`.

A sorted snapshot is the same argument over a run of positions: the values by
rank are the stored ones, ascending (`Ranks`), a run folds to the root
(`HonestRun`) and only a run of the snapshot's own values does
(`OnlyHonestRuns`), the values of the pads being told from the others by their
digest.  The depth a run states is not believed either: the digest of a leaf is
no node's, so a fold that starts at another level does not end in the root
(`DepthIsPinned`).  A run that begins below its range, or with the sentinel,
holds every value of the range up to its own last one, or shows it absent,
without looking for gaps (`RunsSettleUpToTheirEnd`); one that goes on past the
range, or ends with the last value there is, does so for all of the range.
`RunsNeverMislead` says this of any run a wallet can be handed -- any values,
digests, start, leaf count and depth up to the tree's (`WalletRuns`): an answer from a run that
verifies is true up to its last value, and beyond it can be false only if the
range has no upper bound (finding 4) or the run claims fewer leaves than the
snapshot has (section 3, notes).

**The follower and its journal** (`ChainInv`).  The history, a ghost, determines
everything else.  Each of its states is the one before it with the block
applied, holds the unspent outputs of the blocks up to there, and has all their
nullifiers.  Every delta is the one its block makes in the history, the deltas
are the newest ones without a gap back to the oldest snapshot, and every
snapshot is the transparent half of the state at its height.  While a rollback
is under way the state is a *mixture*: the transparent half of the history's
state at one length and the nullifiers of that at another.  Undoing a delta
moves the second one block down, restoring a snapshot moves the first to the
snapshot's height, replaying a delta moves it one block up, so each step is an
equation between neighbours in the history and no induction is needed; that the
next step is enabled (`RollbackNeverFailsMidway`) is read off the same
equations.  `ReachIsKept` and `JournalIsBounded` need a part of their own: all
snapshots but the oldest are at multiples of the interval, with none missing
between them, and the second is less than `max_depth` below the newest; two
multiples are at least an interval apart, which counts the snapshots.

**The compact node** (`CompactInv`).  A *path* is a list of blocks each of which
creates outputs new to those before it; the replay of every prefix of it is
*sound* (its index and its forest hold the same leaves, and the recorded calls
build a forest in which each leaf is in one tree) and leaves what the blocks
created and did not spend.  The blocks accepted are a path, and so are the
blocks the bridge serves.  The node's state, and every state it keeps, reflects
the replay of a prefix of what it accepted: the same nullifiers and tip, a
forest with the same leaves, and the very same forest unless it was reloaded
with an emptied tree.  A bundle on its way is one a bridge made of a block at
some sound state, of any branch.  The heart of the proof is that such a bundle
can be accepted only if it is about the node's own chain: a proof that verifies
against the node's trees is of leaves they hold; leaf and index entry determine
each other; so the cursor, which only compares the bundle's next leaf with the
next spend, claims exactly the spends the index of a full node would resolve,
and the others are left for the outputs of the block itself
(`ClaimedIsSpent`, `SpentIsClaimed`).  That the insertion proofs are the ones
made against the node's own lists gives that the block's nullifiers are fresh
to them, for they were to the bridge's.  From there the block passes the
staging of a full node that replays what the node accepted
(`AcceptedFacts`), which is all `NodeImplementsLedger` asks.

**The shadow follower** (`ShadowInv`).  The entries of the history are
consecutive: each holds the state of the one before with one block more, and
while the loop iterates both sides agree with the newest.  An unwind cuts the
history to a prefix; the bridge, which is rebuilt from blocks the node has now,
is compared with the entry that is left before the loop goes on.
`OneBranchUnlessMixed` adds what the answers say of each other.  It needs of the
environment that a node's chain was each of its beginnings before
(`ChainAssumption`) and that a resumed run's snapshot is of one of its chains
(`SnapshotAssumption`).

**The genesis replay** (`ReplayInv`).  What is buffered is the heights from where
the state continues up to the next window.  While a window is fetched nothing is
buffered, and the heights of the window are shared out among the threads, each
of which is to fetch or has fetched a run of its own (`Shared`); so what is
joined is the whole window, and sorting it is putting it in order.  The division
into runs (`Chunks`) is where an off-by-one would lose a height: that the runs
cover the window once is a lemma of division.

**The harness** (`HarnessInv`).  Until a block is corrupted the implementation
and the oracle hold the same outputs and the same nullifiers, although the one
keeps an index, a forest and a net of what a block creates and spends and the
other a set and lists (`Agreed`).  From the corrupted block on they differ by
what it lost, and by nothing else: a nullifier less in a pool, an output less
unless the block spends it itself, nullifiers in another order, or only a
total.  The checks that are due can see the difference, and no later block
makes up for it: one that would is accepted by one side only, which is a
divergence itself.  A repro is the block at
which the sides first differed, and they differ on it from new states too when
the roots are checked and spends from outside are tolerated (`AloneDiverges`),
which is why `SeedsReproduce` has those premises.

**The fuzzer** (`FuzzInv`).  Its follower is that of `Chain`, so while nothing
has been planted `ChainInv` holds of it and its history is the fuzzer's own
chain, except between a rollback and the cut of that chain (`Faithful`).  Then
both tiers compare two descriptions of the same blocks: the counts are those of
`UtxosAreTheUnspentOutputs`, and the cold replay is `MatchesColdReplay`.  That no
target is out of reach comes from `ReachPart`: targets lie within
`max_reorg_depth` of the tip and the journal keeps twice that.  A leftover makes
the follower's state a strict superset (`Surplus`): an output or a nullifier more
than the chain has.  It stays one while the chain regrows, because what is left
over was named for an earlier branch and later blocks are named for later ones
(`MadeInOrder`), so no block spends it or reveals it again; the first comparison
of the counts ends the run.  An altered history leaves the follower alone and changes the
fuzzer's chain: while the altered block is on it a nullifier differs
(`Mistaken`), and a cold replay of the chain is then another state
(`ReplayTellsThemApart`), for the replay of blocks yields their nullifiers in
order.  `ColdlyChecked` is the second half of `PlantedFaultsAreCaught`, and the
last iteration's check is what makes it hold at the end of a run.

**The snapshot store** (`StoreInv`).  In every directory a power loss could
leave, the file named as the snapshot is whole on the disk and no older than
the last confirmed save; only the newest directory's temporary file is being
written, and no directory names it as its snapshot.  Names for temporary files
never run out, by counting.  The refinement maps the register to what `load`
finds and the possible values to what each directory would.

**The server** (`ServerInv`).  The buckets are in the order of the last
request, and everybody behind an address is in its crowd; the oldest is evicted
when all buckets are taken, so a forgotten address has a crowd of at least that
size, whatever asks afterwards.  The time a connection takes is kept as a
budget: before the deadline it is no more than has elapsed, the read under way
then adds at most its own timeout, and every wait in a write is paid for by a
unit of the response that has been written.  What is answered decoded: the
last read either completed the declared length before the deadline or met the
end of the stream, and no third way leads from the body to an answer.

**Assumptions.**  `Depth \in 1 .. 63`, `Value \subseteq Nat \ {0}`, and that
`Capacity` is a natural of at least 2 (`CapacityAssumption`: it is `2^Depth`,
and the exponent is beyond the prover) and `2^level` doubles from each level to
the next (`PowerAssumption`, for the same reason); for the prefix queries, that
`ValueBits` is at least 2, that every nullifier fits in it
(`ValueBitsAssumption`), and that powers up to it are positive
(`BucketAssumption`, as `PowerAssumption`); `Block \subseteq BlockSummary`; that
`PoolOrder` names no pool twice; that sizes, timeouts and bounds are naturals,
the ones the code takes as `NonZero` or checks positive; that a server's limit
is a natural or `Endless` (`LimitsAssumption`); that more addresses
exist than are tracked; the two about the node's chains above; for the harness,
that a configuration is one (`ReplaysAssumption`); for the fuzzer, that a
configuration and what is drawn for a block are (`ConfigsAssumption`,
`DrawsAssumption`) and that the names `generate()` makes up are outputs and
nullifiers (`NamesAssumption`).  That the names of two branches or two heights
differ is not assumed: a name is the triple.  TLC evaluates
all of them in the runs.  Fresh outputs are not an assumption of the proofs but
a guard of the models, as section 2 says.

**How the models are written for it.**  `SelectSeq` and `FoldLeft` are recursive
operators, into which the prover cannot see; `Filtered`, `AddedLeaf`, `Added`,
`Forest`, `Walked` and `Replayed` are recursive functions over the length of a
prefix, and the proofs show that the function exists and is unique, by the
least length at which it would fail (`FiltersExist`, `AddsExist` and so on),
and then unfold it one element at a time.  `Zero`, `PathDigests`,
`FoldedDigest`, a snapshot's levels and the folds of the two verifiers are
recursive functions over levels and are treated the same way.

**Only model-checked.**

* Liveness: `CatchesUp`, `EveryoneIsAccepted`, and `ReplayEnds` of the replayer.
  The prover has neither ENABLED nor temporal induction under fairness.
* `WireFormats`: `EncodingsRoundTrip`, `OneEncodingEach` and
  `ReservationsFitTheInput`.  Its reader and writer, in `Codec`, are recursive
  operators over nested formats, which the prover cannot reason about, and the
  properties are inductions over messages.

Every other property of a passing run, 34 of 40, is stated by a theorem.

## 5. Plan

The models are complete as far as section 6 says, and the safety properties are
proved as far as the prover reaches.  What could be added: the formats of
`WireFormats` rewritten without recursion, as folds over a flat list of fields,
which would bring the round trip of each field within reach; and models of the
parts of section 6 if they come to keep state.

## 6. What is not modelled

* `extract.rs` (a zebra block to a `BlockSummary`), `RpcSource` and
  `FixtureSource` (HTTP, JSON, hex), and `BridgeClient`: conversions and I/O
  without a state of the program's own.  What they return is an input of the
  models, an error included.
* A worker of `BlockStream` that panics: its part of the window is dropped
  without a word (`source.rs:343`), and `apply_block` refuses the height that
  follows the gap.  Nothing a worker calls is known to panic.
* Measurement binaries, fuzz targets, benchmarks and vectors drive or pin what
  is modelled here.  Note commitments are counted by the test kit, where they
  are modelled, and kept in no tree.
* rustreexo is external: the model holds it to what `utreexo.rs` uses of it,
  and leaves out the row numbers of positions.  BLAKE2b is a free term algebra.
* `MAX_SORTED_DEPTH`: a snapshot of more than 2^32 values is refused.
* The encoding of `u64` and of hashes into bytes, and the lossless end of the
  lossy casts (`take(u32::MAX)` on lists that long).
