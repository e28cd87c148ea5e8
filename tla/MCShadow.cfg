\* A node with three branches that moves up to three times, and a run that
\* remembers two blocks.
CONSTANTS
    g = g  a1 = a1  a2 = a2  a3 = a3  b2 = b2  b3 = b3  c1 = c1  c2 = c2
    NodeChains <- Branches
    Snapshots <- ResumeFrom
    history_cap = 2
    want = 3
    MaxMoves = 3
SPECIFICATION Spec
INVARIANTS HistoryRewindsBothSides OneBranchUnlessMixed
PROPERTIES CatchesUp
\* The run ends after `want` blocks or at an error.
CHECK_DEADLOCK FALSE
