----------------------------- MODULE Iterators -----------------------------
(***************************************************************************)
(* Iterator::filter, as the models use it.  Written as a recursive         *)
(* function, into which a proof can see.                                   *)
(***************************************************************************)
EXTENDS Integers, Sequences

\* The members of s that are in `wanted`, in the order of s (Iterator::filter).
Filtered(s, wanted) ==
    LET filtered[n \in 0 .. Len(s)] ==
            IF n = 0 THEN <<>>
            ELSE IF s[n] \in wanted THEN Append(filtered[n - 1], s[n])
            ELSE filtered[n - 1]
    IN  filtered[Len(s)]
=============================================================================
