----------------------------- MODULE MCTestkit -----------------------------
(* Three tools of the testkit, one of which runs while the others stay in  *)
(* their initial states: the reorg fuzzer, on chains of three to five      *)
(* blocks; the differential harness, on slices of three -- an output spent *)
(* in its own block and one from before the window, two nullifiers in one  *)
(* pool, a repeated nullifier, a pool that fills up; and the genesis       *)
(* replay, in windows of three blocks on two threads.                      *)
EXTENDS Reorg, Harness, Replayer

VARIABLE tool               \* "fuzzer", "harness" or "replayer"

TwoPools == <<"sapling", "orchard">>

\* What the fuzzer makes up, and at height 0 the names of the slices.
Generated3 == {Named(height, branch_, i) : height \in 1 .. 5, branch_ \in 0 .. 3, i \in 1 .. 2}

InSlices(names) == {Named(0, 0, name) : name \in names}

AllOutPoints == Generated3 \cup InSlices({"a", "b", "c", "d", "e", "old"})
AllValues == Generated3 \cup {AlteredName(name) : name \in Generated3} \cup InSlices(1 .. 13)

----------------------------------------------------------------------------
Summary(height, spends, creates, sapling, orchard) ==
    LET named(s) == [i \in DOMAIN s |-> Named(0, 0, s[i])]
    IN  [height |-> height,
         transparent_spends |-> named(spends), transparent_creates |-> named(creates),
         nullifiers |-> [p \in Pool |-> named(IF p = "sapling" THEN sapling ELSE orchard)],
         commitments |-> [p \in Pool |-> IF p = "orchard" /\ height # 2 THEN 1 ELSE 0]]

\* Eleven nullifiers: with one more a tree is full, with two more it overflows.
Eleven == [i \in 1 .. 11 |-> i + 2]

First  == {Summary(1, <<>>, <<"a">>, <<>>, <<1, 2>>), Summary(1, <<"a">>, <<"b", "a">>, <<1>>, <<>>)}
Second == {Summary(2, <<"a">>, <<"c">>, <<2>>, <<>>), Summary(2, <<>>, <<"c", "d">>, <<3, 2>>, <<1>>),
           Summary(2, <<"c">>, <<"c">>, <<>>, <<3>>), Summary(2, <<>>, <<>>, <<>>, <<2, 3>>)}
Third  == {Summary(3, <<"old">>, <<>>, <<>>, <<>>), Summary(3, <<"c">>, <<"e">>, <<1>>, <<>>),
           Summary(3, <<>>, <<"e">>, <<>>, Eleven)}

Slices == {<<b1, b2, b3>> : b1 \in First, b2 \in Second, b3 \in Third}

SliceFaults == {fault \in [kind : {"none", "DropNullifier", "DropCreate", "ReorderNullifiers",
                                   "DropCommitment"}, height : 0 .. 3] :
                   (fault.kind = "none") <=> (fault.height = 0)}

AllReplays ==
    [slice : Slices, fault : SliceFaults, root_check_every : 0 .. 2,
     allow_unknown_spends : BOOLEAN, repro_dir : BOOLEAN, checkpoint : BOOLEAN]

----------------------------------------------------------------------------
Runs(len, depth, snapshot, every, n) ==
    [chain_len : {len}, max_reorg_depth : {depth}, snapshot_interval : {snapshot},
     cold_check_every : every, iterations : {n},
     fault : {"none", "LeftoverNullifier", "LeftoverOutput", "AlteredHistory"}]

\* Three iterations on three blocks, and a journal with one snapshot between
\* two targets; the deepest target undoes all blocks but the first.
AllConfigs == Runs(3, 2, 2, 0 .. 2, 3) \cup Runs(4, 3, 3, {1, 3}, 2) \cup Runs(5, 1, 2, {1}, 2)

AllDraws ==
    {[creates |-> 1, nullifiers |-> 0, pool |-> "orchard", spend |-> TRUE],
     [creates |-> 2, nullifiers |-> 2, pool |-> "sapling", spend |-> FALSE]}

----------------------------------------------------------------------------
\* One of its initial states, for a tool that does not run.
FuzzerIdles  == reorg = CHOOSE c \in Configs : TRUE
HarnessIdles == replay = CHOOSE r \in Replays : TRUE

TestkitInit ==
    /\ RunInit /\ HarnessInit /\ ReplayInit
    /\ \/ tool = "fuzzer" /\ HarnessIdles
       \/ tool = "harness" /\ FuzzerIdles
       \/ tool = "replayer" /\ FuzzerIdles /\ HarnessIdles

TestkitNext ==
    \/ tool = "fuzzer" /\ RunNext /\ UNCHANGED <<tool, harness, replayer>>
    \/ tool = "harness" /\ HarnessNext /\ UNCHANGED <<tool, vars, fuzzer, replayer>>
    \/ tool = "replayer" /\ ReplayNext /\ UNCHANGED <<tool, vars, fuzzer, harness>>

all == <<tool, vars, fuzzer, harness, replayer>>

Testkit ==
    /\ TestkitInit /\ [][TestkitNext]_all
    /\ WF_all(tool = "replayer" /\ Progress /\ UNCHANGED <<tool, vars, fuzzer, harness>>)
=============================================================================
