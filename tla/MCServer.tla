------------------------------ MODULE MCServer ------------------------------
(* Values for the constants of Server. *)
EXTENDS Server

CONSTANTS p1, p2, p3

Peers == {p1, p2, p3}

Ask(header, length, decodes, answer) ==
    [header |-> header, length |-> length, decodes |-> decodes, answer |-> answer]

\* A small question, one whose answer is too large, bytes that never decode, a
\* body and headers that are too large, and a question in the first unit of a
\* body that is declared longer.
Questions == {Ask(2, 2, {2}, 2), Ask(1, 2, {2}, 4), Ask(1, 1, {}, 1),
              Ask(1, 4, {4}, 1), Ask(5, 1, {1}, 1), Ask(1, 2, {1}, 1)}

\* Two connections, and as many as come.
FewOrAll == {2, Endless}
=============================================================================
