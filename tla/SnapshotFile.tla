---------------------------- MODULE SnapshotFile ----------------------------
(***************************************************************************)
(* What crates/zutreexo-chain/src/store.rs promises of a snapshot: the     *)
(* file holds one whole state, a save replaces it at once, and a crash     *)
(* leaves a state that was there, never a part of one.                     *)
(***************************************************************************)
EXTENDS Integers

CONSTANTS Tips, NoTip

VARIABLES
    current,                \* the state a load returns
    possible                \* the states a loss of power may leave

Init == current = NoTip /\ possible = {NoTip}

Save(tip) == current' = tip /\ possible' = possible \cup {tip}

\* The system gets around to writing something back, or is made to.
Settle ==
    /\ possible' \in SUBSET possible
    /\ current \in possible'
    /\ UNCHANGED current

PowerLoss == \E tip \in possible : current' = tip /\ possible' = {tip}

Next == (\E tip \in Tips : Save(tip)) \/ Settle \/ PowerLoss

Spec == Init /\ [][Next]_<<current, possible>>
=============================================================================
