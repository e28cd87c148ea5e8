\* A snapshot named without a directory, as genesis_replay names its own.
CONSTANTS
    ParentOpens = FALSE
    MaxTip = 3
    MaxPending = 5
SPECIFICATION Spec
INVARIANTS SavedSnapshotIsKept
