-------------------------------- MODULE Reorg --------------------------------
(***************************************************************************)
(* The reorg fuzzer, run() of zutreexo-testkit/src/reorg.rs: it drives the *)
(* follower of module Chain through generated blocks and rollbacks, keeps  *)
(* a model of the chain of its own, and compares the two in two tiers.  A  *)
(* fault corrupts one of the sides.                                        *)
(*                                                                         *)
(* The generator's random numbers are choices among Draws.  An output or a *)
(* nullifier is named, as in generate(), by the height and the branch it   *)
(* was generated for and a number.                                         *)
(***************************************************************************)
EXTENDS Chain

CONSTANTS
    Configs,                \* ReorgConfigs, with the iterations to run
    Draws,                  \* what a block may be made of
    LeastDepth              \* the journal's depth is at least this: 8

ASSUME ConfigsAssumption ==
    \A c \in Configs :
        /\ {c.chain_len, c.iterations} \subseteq Nat \ {0}
        /\ {c.max_reorg_depth, c.snapshot_interval, c.cold_check_every} \subseteq Nat
        /\ c.fault \in {"none", "LeftoverNullifier", "LeftoverOutput", "AlteredHistory"}
ASSUME DrawsAssumption ==
    \A d \in Draws : d.creates \in Nat /\ d.nullifiers \in Nat /\ d.pool \in Pool /\ d.spend \in BOOLEAN
ASSUME LeastDepthAssumption == LeastDepth \in Nat

\* The names generate() makes up, see Ids, and an altered one.
Named(height, branch, number) == <<height, branch, number>>
AlteredName(name) == Append(name, "altered")

ASSUME NamesAssumption ==
    \A c \in Configs, d \in Draws : \A height \in 1 .. c.chain_len, branch \in 0 .. c.iterations :
        /\ \A i \in 1 .. d.creates : Named(height, branch, i) \in OutPoint
        /\ \A i \in 1 .. d.nullifiers :
               {Named(height, branch, i), AlteredName(Named(height, branch, i))} \subseteq Value

VARIABLES
    reorg,                  \* ReorgConfig
    iteration, branch,      \* 0 while the first chain is built
    chain,                  \* the fuzzer's own blocks
    doing,                  \* "growing", "choosing" or "rolling back"
    outcome,                \* "running", "clean", or the tier that diverged
    out_of_reach,           \* ReorgReport
    planted                 \* ghost: whether a fault has changed something

fuzzer == <<reorg, iteration, branch, chain, doing, outcome, out_of_reach, planted>>

RunInit ==
    /\ reorg \in Configs
    /\ interval = Max({reorg.snapshot_interval, 1})
    /\ max_depth = Max({2 * reorg.max_reorg_depth, LeastDepth})
    /\ options = [allow_unknown_spends |-> FALSE] /\ served = {}
    /\ Fresh
    /\ iteration = 0 /\ branch = 0
    /\ chain = <<>>
    /\ doing = "growing" /\ outcome = "running"
    /\ out_of_reach = 0 /\ planted = FALSE

----------------------------------------------------------------------------
(* Generated blocks.                                                       *)

\* unspent.
Unspent(blocks) ==
    (UNION {Range(blocks[i].transparent_creates) : i \in DOMAIN blocks})
        \ (UNION {Range(blocks[i].transparent_spends) : i \in DOMAIN blocks})

Ids(height, n) == [i \in 1 .. n |-> Named(height, branch, i)]

\* generate: at most one spend, of any live output; the nullifiers in one pool.
Generated(height) ==
    UNION {{[height |-> height,
             transparent_spends |-> spends,
             transparent_creates |-> Ids(height, d.creates),
             nullifiers |-> [p \in Pool |-> IF p = d.pool THEN Ids(height, d.nullifiers) ELSE <<>>]]
                : spends \in IF d.spend /\ Unspent(chain) # {} THEN {<<o>> : o \in Unspent(chain)}
                             ELSE {<<>>}} : d \in Draws}

Tip == IF state.tip = NoTip THEN 0 ELSE state.tip

Grow ==
    /\ outcome = "running" /\ doing = "growing" /\ Tip < reorg.chain_len
    /\ \E block \in Generated(Tip + 1) :
           /\ ApplyBlock(block)
           /\ chain' = Append(chain, block)
    /\ UNCHANGED <<reorg, iteration, branch, doing, outcome, out_of_reach, planted>>

RecordGrown == doing = "growing" /\ Record /\ UNCHANGED fuzzer

FullyGrown == doing = "growing" /\ phase = "idle" /\ Tip = reorg.chain_len

\* The first chain is built.
Begin ==
    /\ iteration = 0 /\ FullyGrown
    /\ doing' = "choosing"
    /\ UNCHANGED <<vars, reorg, iteration, branch, chain, outcome, out_of_reach, planted>>

----------------------------------------------------------------------------
(* One iteration.                                                          *)

\* A target strictly below the tip, within max_reorg_depth, at least 1.
Targets ==
    LET shallowest == Max({Tip - reorg.max_reorg_depth, 1})
    IN  shallowest .. Max({Tip - 1, shallowest})

\* earliest_rollback.
Earliest == IF snapshots = <<>> THEN Tip ELSE snapshots[1].height

Choose(height) ==
    /\ outcome = "running" /\ doing = "choosing" /\ iteration < reorg.iterations
    /\ height \in Targets
    /\ iteration' = iteration + 1
    /\ IF height < Earliest
       THEN out_of_reach' = out_of_reach + 1 /\ UNCHANGED <<vars, doing>>
       ELSE RollbackTo(height) /\ doing' = "rolling back" /\ UNCHANGED out_of_reach
    /\ UNCHANGED <<reorg, branch, chain, outcome, planted>>

RollsBack ==
    /\ \/ \E k \in DOMAIN deltas : UndoDelta(k) \/ ReplayDelta(k)
       \/ \E base \in DOMAIN snapshots : RestoreSnapshot(base)
       \/ FinishRollback
    /\ UNCHANGED fuzzer

\* The fragment of the first undone block that a leftover fault applies again,
\* at the height the tip is at.
Fragment ==
    LET undone == chain[Tip + 1]
    IN  [height |-> Tip, transparent_spends |-> <<>>,
         transparent_creates |-> IF reorg.fault = "LeftoverOutput" THEN undone.transparent_creates
                                 ELSE <<>>,
         nullifiers |-> [p \in Pool |-> IF reorg.fault = "LeftoverNullifier"
                                        THEN undone.nullifiers[p] ELSE <<>>]]

FragmentApplies ==
    /\ reorg.fault \in {"LeftoverNullifier", "LeftoverOutput"}
    /\ NullifiersFresh(state, Fragment)
    /\ \A p \in Pool : RoomFor(state, Fragment, p)

Reveals(block) == \E p \in Pool : block.nullifiers[p] # <<>>

\* The generator reveals the nullifiers of a block in one pool.
Altered(block) ==
    [block EXCEPT !.nullifiers =
        [p \in Pool |-> [i \in DOMAIN @[p] |-> IF i = 1 THEN AlteredName(@[p][i]) ELSE @[p][i]]]]

\* AlteredHistory: the first surviving block with nullifiers, in iteration 1.
HistoryAltered(blocks) ==
    LET revealing == {i \in DOMAIN blocks : Reveals(blocks[i])}
    IN  IF reorg.fault # "AlteredHistory" \/ iteration # 1 \/ revealing = {} THEN blocks
        ELSE [blocks EXCEPT ![Min(revealing)] = Altered(@)]

\* After the rollback: the fault, and the fuzzer's own chain is cut back.
Settle ==
    /\ doing = "rolling back" /\ phase = "idle"
    /\ LET kept == SubSeq(chain, 1, Tip)
       IN  /\ chain' = HistoryAltered(kept)
           /\ state' = IF FragmentApplies THEN Applied(state, Fragment) ELSE state
           /\ planted' = (planted \/ chain' # kept \/ state'.utxo_index # state.utxo_index
                                  \/ state'.nullifiers # state.nullifiers)
    /\ branch' = branch + 1
    /\ doing' = "growing"
    /\ UNCHANGED <<config, journal, phase, delta, loop, ghosts,
                   reorg, iteration, outcome, out_of_reach>>

----------------------------------------------------------------------------
(* The two tiers.                                                          *)

\* The nullifiers that blocks reveal in a pool.
Revealed(blocks, p) ==
    LET revealed[n \in 0 .. Len(blocks)] ==
            IF n = 0 THEN 0 ELSE revealed[n - 1] + Len(blocks[n].nullifiers[p])
    IN  revealed[Len(blocks)]

\* The cheap tier.
CountsMatch ==
    /\ Cardinality(DOMAIN state.utxo_index) = Cardinality(Unspent(chain))
    /\ \A p \in Pool : Len(state.nullifiers[p]) = Revealed(chain, p)

\* cold_replay, and the fingerprint: every part of the state.
ColdReplay(blocks) ==
    LET replayed[n \in 0 .. Len(blocks)] ==
            IF n = 0 THEN NewState ELSE Applied(replayed[n - 1], blocks[n])
    IN  replayed[Len(blocks)]

\* Mutant: the last iteration gets no cold replay of its own.
ColdCheckDueByCount ==
    reorg.cold_check_every > 0 /\ iteration % reorg.cold_check_every = 0

ColdCheckDue ==
    /\ reorg.cold_check_every > 0
    /\ iteration % reorg.cold_check_every = 0 \/ iteration = reorg.iterations

Check ==
    /\ outcome = "running" /\ iteration > 0 /\ FullyGrown
    /\ outcome' = CASE ~CountsMatch -> "counts"
                    [] CountsMatch /\ ColdCheckDue /\ state # ColdReplay(chain) -> "not cold replay"
                    [] OTHER -> "running"
    /\ doing' = "choosing"
    /\ UNCHANGED <<vars, reorg, iteration, branch, chain, out_of_reach, planted>>

Return ==
    /\ outcome = "running" /\ doing = "choosing" /\ iteration = reorg.iterations
    /\ outcome' = "clean"
    /\ UNCHANGED <<vars, reorg, iteration, branch, chain, doing, out_of_reach, planted>>

RunNext ==
    \/ Grow \/ RecordGrown \/ Begin
    \/ \E height \in Targets : Choose(height)
    \/ RollsBack \/ Settle \/ Check \/ Return

RunSpec == RunInit /\ [][RunNext]_<<vars, fuzzer>>

----------------------------------------------------------------------------
(* Properties.                                                             *)

\* Without a fault neither tier ever objects, no rollback stops midway, and no
\* iteration is skipped because the journal does not reach its target
\* (reorg.rs, run; rollback.rs, rollback_to).
NoFalseDivergence ==
    reorg.fault = "none" =>
        /\ outcome \in {"running", "clean"}
        /\ out_of_reach = 0
        /\ RollbackNeverFailsMidway

\* A leftover is caught in the iteration that planted it, at every cadence of
\* the cold replays; an altered history by the first of them, when every
\* iteration has one.  A run that comes out clean ends in the state a cold replay
\* of its chain reaches, whatever was planted on the way (reorg.rs, run, and of
\* cold_check_every: "The last iteration is always checked as well").
PlantedFaultsAreCaught ==
    /\ planted /\ doing = "choosing" /\ outcome \in {"running", "clean"} =>
           reorg.fault = "AlteredHistory" /\ reorg.cold_check_every # 1
    /\ outcome = "clean" /\ reorg.cold_check_every > 0 => state = ColdReplay(chain)
=============================================================================
