------------------------------ MODULE Replayer ------------------------------
(***************************************************************************)
(* The genesis replay (zutreexo-testkit/src/bin/genesis_replay.rs) over a  *)
(* BlockStream (src/source.rs): a window of blocks is fetched by several   *)
(* threads, handed out in order and applied; snapshots are written on the  *)
(* way and at the end, and another process resumes from one of them.       *)
(*                                                                         *)
(* A state is its tip and a block its height; apply_block refuses a height *)
(* that does not follow, which is not an action here: the invariant says   *)
(* that it never happens.  A snapshot file is what module SnapshotFile     *)
(* says it is.  The threads of a window are the only concurrency.          *)
(***************************************************************************)
EXTENDS Integers, Sequences, FiniteSets, FiniteSetsExt, Functions

CONSTANTS
    Window, Workers,        \* BlockStream::new, which makes both at least 1
    SaveAt,                 \* ZUTREEXO_SAVE_AT
    MaxHeight               \* bound: the highest tip of the node

ASSUME StreamAssumption == {Window, Workers} \subseteq Nat \ {0} /\ MaxHeight \in Nat

BeforeGenesis == -1         \* tip: None

VARIABLES
    process,                \* "down", "running", or how the run ended
    tip,                    \* the state in memory
    files,                  \* tips of the snapshot files
    next_height, end,       \* BlockStream: next, end
    buffered,               \* BlockStream: fetched, not handed out
    parts                   \* refill: for every thread, heights to fetch and results

stream == <<next_height, end, buffered, parts>>
replayer == <<process, tip, files, stream>>

ReplayInit ==
    /\ process = "down" /\ tip = BeforeGenesis
    /\ files = {}
    /\ next_height = 0 /\ end = 0
    /\ buffered = <<>> /\ parts = <<>>

----------------------------------------------------------------------------
(* BlockStream.                                                            *)

\* Mutant: a resumed state is given its own tip again.
FirstHeightIsTip(state_tip) == IF state_tip = BeforeGenesis THEN 0 ELSE state_tip

\* Where a state continues.
FirstHeight(state_tip) == IF state_tip = BeforeGenesis THEN 0 ELSE state_tip + 1

\* heights.chunks: runs of equal length but for the last.
Chunks(heights, length) ==
    [k \in 1 .. (Len(heights) + length - 1) \div length |->
        SubSeq(heights, (k - 1) * length + 1, Min({k * length, Len(heights)}))]

WindowFrom(first) ==
    [i \in 1 .. Min({Window, end - first + 1}) |-> first + i - 1]

\* refill: the threads are spawned.
Refill ==
    /\ process = "running" /\ buffered = <<>> /\ parts = <<>>
    /\ next_height <= end
    /\ LET heights == WindowFrom(next_height)
           workers == Min({Workers, Len(heights)})
           chunks  == Chunks(heights, (Len(heights) + workers - 1) \div workers)
       IN  parts' = [k \in DOMAIN chunks |-> [todo |-> chunks[k], got |-> <<>>]]
    /\ UNCHANGED <<process, tip, files, next_height, end, buffered>>

\* A thread has asked the source for its next height.
Fetch(k) ==
    /\ process = "running"
    /\ parts[k].todo # <<>>
    /\ \E ok \in BOOLEAN :
           parts' = [parts EXCEPT ![k] = [todo |-> Tail(@.todo),
                                          got  |-> Append(@.got, [height |-> Head(@.todo), ok |-> ok])]]
    /\ UNCHANGED <<process, tip, files, next_height, end, buffered>>

\* sort_by_key.
InHeightOrder(fetched) ==
    CHOOSE sorted \in [1 .. Cardinality(fetched) -> fetched] :
        \A i \in 1 .. Cardinality(fetched) - 1 : sorted[i].height < sorted[i + 1].height

\* refill: every thread is joined, and the results are put in height order.
Join ==
    /\ process = "running" /\ parts # <<>>
    /\ \A k \in DOMAIN parts : parts[k].todo = <<>>
    /\ LET fetched == UNION {Range(parts[k].got) : k \in DOMAIN parts}
       IN  /\ buffered' = InHeightOrder(fetched)
           /\ next_height' = next_height + Cardinality(fetched)
    /\ parts' = <<>>
    /\ UNCHANGED <<process, tip, files, end>>

\* Mutant: a stream has ended when it has handed out its last height.
ExhaustedAtLast == buffered = <<>> /\ parts = <<>> /\ next_height = end + 1

Exhausted == buffered = <<>> /\ parts = <<>> /\ next_height > end

----------------------------------------------------------------------------
(* The replay.                                                             *)

\* A process starts, with a snapshot or without; it replays up to the node's
\* tip or a height below it.
Start ==
    /\ process # "running"
    /\ tip' \in files \cup {BeforeGenesis}
    /\ end' \in 0 .. MaxHeight
    /\ next_height' = FirstHeight(tip')
    /\ buffered' = <<>> /\ parts' = <<>>
    /\ process' = "running"
    /\ UNCHANGED files

\* A snapshot is written, or cannot be, which is reported and not fatal.
MaybeSaved(height) == {files, files \cup {height}}

\* The next block applies; a snapshot when it is due; the loop goes on, or
\* stops where the process has grown too large.
ApplyNext ==
    /\ process = "running" /\ buffered # <<>>
    /\ buffered[1].ok
    /\ tip # BeforeGenesis => buffered[1].height = tip + 1
    /\ tip' = buffered[1].height
    /\ buffered' = Tail(buffered)
    /\ files' \in IF tip' \in SaveAt THEN MaybeSaved(tip') ELSE {files}
    /\ process' \in {"running", "too large"}
    /\ UNCHANGED <<next_height, end, parts>>

FetchFailed ==
    /\ process = "running" /\ buffered # <<>>
    /\ ~buffered[1].ok
    /\ process' = "fetch failed"
    /\ UNCHANGED <<tip, files, stream>>

\* The loop is over; the finished state is saved if that was asked for.
Complete ==
    /\ process = "running" /\ Exhausted
    /\ files' \in IF tip = BeforeGenesis THEN {files} ELSE MaybeSaved(tip)
    /\ process' = "complete"
    /\ UNCHANGED <<tip, stream>>

\* A process stopped by its memory ceiling saves too.
SaveTooLarge ==
    /\ process = "too large"
    /\ files' \in MaybeSaved(tip)
    /\ process' = "stopped"
    /\ UNCHANGED <<tip, stream>>

Killed ==
    /\ process = "running"
    /\ process' = "down"
    /\ UNCHANGED <<tip, files, stream>>

Progress ==
    \/ Refill
    \/ \E k \in DOMAIN parts : Fetch(k)
    \/ Join
    \/ ApplyNext \/ FetchFailed \/ Complete \/ SaveTooLarge

ReplayNext == Start \/ Progress \/ Killed

ReplaySpec == ReplayInit /\ [][ReplayNext]_replayer /\ WF_replayer(Progress)

----------------------------------------------------------------------------
(* Properties.                                                             *)

\* Whatever order the threads finish in, wherever a replay resumes and
\* wherever a window ends, the state gets every height once and in order, and
\* a replay is complete only at the end of its range (source.rs, refill;
\* genesis_replay.rs: "continuing from anywhere but tip+1 would either skip
\* blocks or re-apply them").
EveryHeightOnceInOrder ==
    /\ process = "running" /\ buffered # <<>> =>
           buffered[1].height = IF tip = BeforeGenesis THEN 0 ELSE tip + 1
    /\ process = "complete" => tip >= end

\* A replay ends, one that was resumed past its range too.
ReplayEnds == process = "running" ~> process # "running"
=============================================================================
