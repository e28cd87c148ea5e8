------------------------------ MODULE Harness ------------------------------
(***************************************************************************)
(* The differential harness, replay() of zutreexo-testkit/src/harness.rs:  *)
(* every block goes to the implementation and to the naive oracle, and     *)
(* three tiers compare them.  A fault corrupts what the implementation     *)
(* sees.  A divergence leaves a repro, which the corpus runner             *)
(* (tests/corpus.rs) replays on its own.                                   *)
(*                                                                         *)
(* A tree's root is its list of values: module Imt shows that the list     *)
(* determines it, and NaiveImt::root is computed from the list.            *)
(***************************************************************************)
EXTENDS NaiveOracle

CONSTANT Replays            \* the configurations to replay

\* What summarize_block returns, the note commitments of every pool counted.
CountedSummary ==
    [height : Nat, transparent_spends : Seq(OutPoint), transparent_creates : Seq(OutPoint),
     nullifiers : [Pool -> Seq(Value)], commitments : [Pool -> Nat]]

NoFault == [kind |-> "none", height |-> 0]

Fault ==
    {NoFault} \cup
    [kind : {"DropNullifier", "DropCreate", "ReorderNullifiers", "DropCommitment"}, height : Nat]

\* Consecutive blocks of a chain; a transaction's id is fresh, so an output is
\* created once.
IsSlice(slice) ==
    \A i \in DOMAIN slice :
        /\ slice[i].height = slice[1].height + i - 1
        /\ NoRepeat(slice[i].transparent_creates)
        /\ \A j \in 1 .. i - 1 :
               Range(slice[i].transparent_creates) \cap Range(slice[j].transparent_creates) = {}

\* A replay is a HarnessConfig -- root_check_every, allow_unknown_spends,
\* whether there is a repro_dir, the fault -- with the slice to replay and
\* whether the node's totals of the slice are on file as a checkpoint.
IsReplay(r) ==
    /\ r \in [slice : Seq(CountedSummary), fault : Fault, root_check_every : Nat,
              allow_unknown_spends : BOOLEAN, repro_dir : BOOLEAN, checkpoint : BOOLEAN]
    /\ IsSlice(r.slice)

ASSUME ReplaysAssumption == \A r \in Replays : IsReplay(r)

VARIABLES
    replay,                 \* the HarnessConfig and its slice
    next_block,             \* position in replay.slice
    implementation, oracle, \* ChainAccumulators, NaiveState
    report,                 \* Report
    verdict,                \* "replaying", "clean", or what diverged
    repro,                  \* the file written, NoRepro when there is none
    seed                    \* whether this replay is of a repro

harness == <<replay, next_block, implementation, oracle, report, verdict, repro, seed>>

NoRepro == <<>>

NoTotals ==
    [nullifiers |-> [p \in Pool |-> 0], commitments |-> [p \in Pool |-> 0],
     spends |-> 0, creates |-> 0]

NewReport ==
    [blocks |-> 0, root_checks |-> 0, checkpoint |-> FALSE, stopped_early |-> FALSE,
     totals |-> NoTotals, unknown_spends |-> 0]

HarnessInit ==
    /\ replay \in Replays
    /\ next_block = 1
    /\ implementation = NewState /\ oracle = NewOracle
    /\ report = NewReport
    /\ verdict = "replaying"
    /\ repro = NoRepro /\ seed = FALSE

----------------------------------------------------------------------------
(* Faults.                                                                 *)

DropLast(s) == IF s = <<>> THEN s ELSE SubSeq(s, 1, Len(s) - 1)
Reversed(s) == [i \in DOMAIN s |-> s[Len(s) + 1 - i]]

\* The first of some pools, in PoolId's order.
IsFirst(p, pools) ==
    \E i \in DOMAIN PoolOrder :
        PoolOrder[i] = p /\ p \in pools /\ \A j \in 1 .. i - 1 : PoolOrder[j] \notin pools

\* corrupt.
Corrupt(block, fault) ==
    LET spent_from   == {p \in Pool : block.nullifiers[p] # <<>>}
        committed_to == {p \in Pool : block.commitments[p] > 0}
    IN  CASE fault.height # block.height \/ fault = NoFault -> block
          [] fault.height = block.height /\ fault.kind = "DropNullifier" ->
                 [block EXCEPT !.nullifiers =
                     [p \in Pool |-> IF IsFirst(p, spent_from) THEN DropLast(@[p]) ELSE @[p]]]
          [] fault.height = block.height /\ fault.kind = "DropCreate" ->
                 [block EXCEPT !.transparent_creates = DropLast(@)]
          [] fault.height = block.height /\ fault.kind = "ReorderNullifiers" ->
                 [block EXCEPT !.nullifiers = [p \in Pool |-> Reversed(@[p])]]
          [] fault.height = block.height /\ fault.kind = "DropCommitment" ->
                 [block EXCEPT !.commitments =
                     [p \in Pool |-> IF IsFirst(p, committed_to) THEN @[p] - 1 ELSE @[p]]]

----------------------------------------------------------------------------
(* The tiers.                                                              *)

\* accumulate_totals; transactions are left out.
Accumulated(totals, block) ==
    [nullifiers  |-> [p \in Pool |-> totals.nullifiers[p] + Len(block.nullifiers[p])],
     commitments |-> [p \in Pool |-> totals.commitments[p] + block.commitments[p]],
     spends      |-> totals.spends + Len(block.transparent_spends),
     creates     |-> totals.creates + Len(block.transparent_creates)]

\* The totals after each block of a slice, and what the node reported of it.
RunningTotals(slice) ==
    LET totals[n \in 0 .. Len(slice)] ==
            IF n = 0 THEN NoTotals ELSE Accumulated(totals[n - 1], slice[n])
    IN  totals

NodeTotals(slice) == RunningTotals(slice)[Len(slice)]

\* Tier 1, compare_counts.
CountsAgree(s, o) ==
    /\ Cardinality(DOMAIN s.utxo_index) = Cardinality(o.utxos)
    /\ \A p \in Pool : Len(s.nullifiers[p]) = Len(o.pools[p])

\* Tier 2, compare_roots.
RootsAgree(s, o) == s.nullifiers = o.pools

\* Mutant: the last block of a slice gets no root check of its own.
RootCheckDueByCount(blocks) ==
    replay.root_check_every > 0 /\ blocks % replay.root_check_every = 0

\* Every root_check_every blocks and after the last; never when that is 0.
RootCheckDue(blocks) ==
    /\ replay.root_check_every > 0
    /\ blocks % replay.root_check_every = 0 \/ blocks = Len(replay.slice)

----------------------------------------------------------------------------
(* replay().                                                               *)

Options == [allow_unknown_spends |-> replay.allow_unknown_spends]

\* apply_block returns Ok.
Accepts(s, block) ==
    /\ PassesStaging(s, block, Options)
    /\ ForestHolds(s, SpentLeaves(s, block))
    /\ \A p \in Pool : RoomFor(s, block, p)

NextBlock == replay.slice[next_block]
Seen  == Corrupt(NextBlock, replay.fault)

Replaying == verdict = "replaying" /\ next_block <= Len(replay.slice) /\ ~report.stopped_early

\* A divergence ends the replay, and writes a repro if it has somewhere to.
Diverges(tier) ==
    /\ verdict' = tier
    /\ repro' = IF replay.repro_dir THEN [config |-> replay, block |-> NextBlock] ELSE NoRepro

\* Both sides accept; then tier 1, and tier 2 when it is due.
BlockAgrees ==
    /\ Replaying
    /\ Accepts(implementation, Seen) /\ OracleAccepts(oracle, NextBlock, Options)
    /\ implementation' = Applied(implementation, Seen)
    /\ oracle' = OracleApplied(oracle, NextBlock)
    /\ next_block' = next_block + 1
    /\ LET blocks  == report.blocks + 1
           checked == CountsAgree(implementation', oracle') /\ RootCheckDue(blocks)
       IN  /\ report' = [report EXCEPT !.blocks = blocks, !.totals = Accumulated(@, Seen),
                                       !.root_checks = IF checked THEN @ + 1 ELSE @]
           /\ \/ /\ ~CountsAgree(implementation', oracle')
                 /\ Diverges("counts")
              \/ /\ checked /\ ~RootsAgree(implementation', oracle')
                 /\ Diverges("root")
              \/ /\ CountsAgree(implementation', oracle')
                 /\ checked => RootsAgree(implementation', oracle')
                 /\ UNCHANGED <<verdict, repro>>
    /\ UNCHANGED <<replay, seed>>

\* Both sides reject: agreement, but the replay ends there.
BlockRejected ==
    /\ Replaying
    /\ ~Accepts(implementation, Seen) /\ ~OracleAccepts(oracle, NextBlock, Options)
    /\ report' = [report EXCEPT !.totals = Accumulated(@, Seen), !.stopped_early = TRUE]
    /\ UNCHANGED <<replay, next_block, implementation, oracle, verdict, repro, seed>>

BlockDisagrees ==
    /\ Replaying
    /\ Accepts(implementation, Seen) # OracleAccepts(oracle, NextBlock, Options)
    /\ report' = [report EXCEPT !.totals = Accumulated(@, Seen)]
    /\ Diverges("disagreement")
    /\ UNCHANGED <<replay, next_block, implementation, oracle, seed>>

\* Tier 3, once, when every block of the slice was applied; no repro.
Finish ==
    /\ verdict = "replaying"
    /\ next_block > Len(replay.slice) \/ report.stopped_early
    /\ LET compared == replay.checkpoint /\ report.blocks = Len(replay.slice)
       IN  /\ report' = [report EXCEPT !.checkpoint = compared]
           /\ verdict' = IF compared /\ report.totals # NodeTotals(replay.slice)
                         THEN "checkpoint" ELSE "clean"
    /\ UNCHANGED <<replay, next_block, implementation, oracle, repro, seed>>

----------------------------------------------------------------------------
(* The corpus.                                                             *)

\* Mutant: the fault does not round-trip through the file.
LoadedWithoutFault(file) ==
    [file.config EXCEPT !.slice = <<file.block>>, !.repro_dir = FALSE, !.checkpoint = FALSE,
                        !.fault = NoFault]

\* load_repro: one block under the settings that caught it.  Contiguity is not
\* enforced, which one block on a new state cannot tell; the slice's checkpoint is of
\* another number of blocks.
Loaded(file) ==
    [file.config EXCEPT !.slice = <<file.block>>, !.repro_dir = FALSE, !.checkpoint = FALSE]

\* run_block_seed.
ReplaySeed ==
    /\ verdict # "replaying" /\ repro # NoRepro /\ ~seed
    /\ replay' = Loaded(repro)
    /\ next_block' = 1
    /\ implementation' = NewState /\ oracle' = NewOracle
    /\ report' = NewReport
    /\ verdict' = "replaying"
    /\ seed' = TRUE
    /\ UNCHANGED repro

HarnessNext == BlockAgrees \/ BlockRejected \/ BlockDisagrees \/ Finish \/ ReplaySeed

HarnessSpec == HarnessInit /\ [][HarnessNext]_harness

----------------------------------------------------------------------------
(* Properties.                                                             *)

WholeSlice == verdict = "clean" /\ report.blocks = Len(replay.slice)

Effective == \E i \in DOMAIN replay.slice : Corrupt(replay.slice[i], replay.fault) # replay.slice[i]

\* The implementation and the oracle accept the same blocks and agree on every
\* tier, on any sequence of blocks: the cancelled outputs, the spends from
\* before the window, a tree that fills up (harness.rs, replay).
NoFalseAlarm == replay.fault = NoFault => verdict \in {"replaying", "clean"}

\* An output that the slice itself spends in the block that creates it.
DroppedUnseen ==
    /\ replay.fault.kind = "DropCreate" /\ replay.allow_unknown_spends
    /\ \E i \in DOMAIN replay.slice :
           LET block == replay.slice[i]
           IN  /\ block.height = replay.fault.height
               /\ block.transparent_creates[Len(block.transparent_creates)]
                      \in Range(block.transparent_spends)

\* A replay of the whole slice that comes out clean saw every fault that
\* changed something, except what its configuration cannot see: a reordering
\* without tier 2, and without tier 3 a commitment, or in a window an output
\* dropped from the block that spends it (harness.rs, Fault).
FaultsAreCaught ==
    WholeSlice /\ Effective =>
        \/ replay.fault.kind = "ReorderNullifiers" /\ replay.root_check_every = 0
        \/ ~replay.checkpoint /\ (replay.fault.kind = "DropCommitment" \/ DroppedUnseen)

\* When the roots were checked after every block and spends from outside are
\* tolerated, a repro diverges when it is replayed alone (harness.rs,
\* load_repro: "a seed that replayed under different settings ... would be
\* silently inert").
SeedsReproduce ==
    seed /\ replay.root_check_every = 1 /\ replay.allow_unknown_spends => verdict # "clean"
=============================================================================
