\* A snapshot with a directory in its path; any call may fail, and the process
\* or the machine may stop at any moment.
CONSTANTS
    ParentOpens = TRUE
    MaxTip = 3
    MaxPending = 5
SPECIFICATION Spec
INVARIANTS ConfirmedSnapshotIsKept
PROPERTIES ImplementsSnapshotFile
