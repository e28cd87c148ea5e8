---------------------------- MODULE NullifierLog ----------------------------
(***************************************************************************)
(* What the indexed Merkle tree promises its callers: a duplicate-free     *)
(* list of nullifiers in insertion order, bounded by the tree's capacity,  *)
(* from which only the newest entry can be taken back.                     *)
(***************************************************************************)
EXTENDS Integers, Sequences

CONSTANTS Values, Bound

VARIABLE log

Entries == {log[i] : i \in 1 .. Len(log)}

Init == log = <<>>

Append1(v) ==
    /\ v \notin Entries
    /\ Len(log) < Bound
    /\ log' = Append(log, v)

UndoNewest ==
    /\ log # <<>>
    /\ log' = SubSeq(log, 1, Len(log) - 1)

Next == (\E v \in Values : Append1(v)) \/ UndoNewest

Spec == Init /\ [][Next]_log
=============================================================================
